------------------------------- MODULE L2Store -------------------------------
(***************************************************************************)
(* The block store of l2-bridge-arbitrum with the handler that fills it.    *)
(* Where the other L2 bots keep a cursor in memory and a flag that keeps    *)
(* their calls apart, this one keeps the L2 blocks in a table (SQLite in    *)
(* memory), takes the block with the greatest id as its cursor, and sets no *)
(* flag: handleBlock for the next L1 block may begin while one is awaited.  *)
(* Rows older than fifteen minutes are removed first, the cursor with them. *)
(*                                                                          *)
(* The withdrawals of a block are recorded only if its row is found again   *)
(* behind the cursor the call began with; the rows found are held while the *)
(* proxy watchers are awaited.  The table of withdrawals has one row for a  *)
(* transaction, and what is older than 48 hours is removed from it after    *)
(* each insertion.  A restart loses both tables.                            *)
(* Chunks of blocks or of logs that still fail after their retries are left *)
(* out without a word.  The chain is the clock: one block is one tick.      *)
(***************************************************************************)
EXTENDS Integers, FiniteSetsExt

CONSTANTS
    Calls,          \* the calls of handleBlock that may be open at the same time
    Lag,            \* how far behind the node that is asked may be
    Age,            \* earlierInSeconds: a row of this age is removed
    Keep,           \* HOURS_48: how long a withdrawal is kept
    Sent,           \* how many withdrawals the one transaction of each block makes
    MaxBlock,       \* bound: the last L2 block
    MaxRestarts     \* bound: how often the process is started again

ASSUME StoreAssumption ==
    /\ Lag \in Nat /\ Age \in Nat \ {0} /\ Keep \in Nat
    /\ MaxBlock \in Nat \ {0} /\ MaxRestarts \in Nat
    /\ Sent \in [1..MaxBlock -> Nat]

Undefined == 0
Blocks == 1..MaxBlock

VARIABLES
    head,           \* the chain: the newest L2 block
    l2_blocks,      \* the table: the ids of its rows
    withdrawals,    \* the table: block and place in its transaction of each row
    call,           \* what every call of handleBlock waits for
    restarts,
    passed,         \* history: the newest row there ever was
    seen,           \* history: the blocks whose logs the event watcher was given
    lost,           \* history: the blocks whose logs were given up
    hidden          \* history: the blocks whose withdrawals were left out, for a reason

vars == <<head, l2_blocks, withdrawals, call, restarts, passed, seen, lost, hidden>>

(* prev: prevLatestL2Block; to: the latest block; blocks and logs: the blocks *)
(* whose rows and whose logs the requests have brought.  While the watchers    *)
(* are awaited, blocks are the rows read again.                               *)
Idle == [at |-> "idle", prev |-> Undefined, to |-> Undefined, blocks |-> {}, logs |-> {}]
Stages == {"idle", "latest", "cursor", "insert", "logs", "store", "closest", "record", "monitor", "remove"}

TypeOK ==
    /\ head \in Blocks
    /\ l2_blocks \subseteq Blocks /\ withdrawals \subseteq Blocks \X Nat
    /\ call \in [Calls -> [at : Stages, prev : Blocks \union {Undefined}, to : Blocks \union {Undefined},
                           blocks : SUBSET Blocks, logs : SUBSET Blocks]]
    /\ restarts \in 0..MaxRestarts
    /\ passed \in Blocks \union {Undefined}
    /\ seen \subseteq Blocks /\ lost \subseteq Blocks /\ hidden \subseteq Blocks

Row(b) == <<b, Sent[b]>>

(* onConflict('transaction_hash').merge(): of the withdrawals of one          *)
(* transaction the last replaces the others.                                  *)
merged(blocks) == {Row(b) : b \in {a \in blocks : Sent[a] > 0}}

Latest == Blocks \intersect (head - Lag..head)

(* handleInit has answered: MonitorWithdrawals.initialize has recorded the    *)
(* withdrawals of the 48 hours before; the table of blocks is empty.          *)
Init ==
    /\ head = 1
    /\ l2_blocks = {} /\ withdrawals = merged({1})
    /\ call = [c \in Calls |-> Idle]
    /\ restarts = 0
    /\ passed = Undefined
    /\ seen = {} /\ lost = {} /\ hidden = {}

-----------------------------------------------------------------------------
newL2Block ==
    /\ head < MaxBlock
    /\ head' = head + 1
    /\ UNCHANGED <<l2_blocks, withdrawals, call, restarts, passed, seen, lost, hidden>>

(* The call is answered with the error, and these logs are given up.          *)
givesUp(c, logs) ==
    /\ call' = [call EXCEPT ![c] = Idle]
    /\ lost' = lost \union logs

(* updGetL2blocksStore begins with the removal of old rows, whose error is    *)
(* not looked at.                                                             *)
outdated(b) == head - b >= Age

handleBlock(c) ==
    /\ call[c].at = "idle"
    /\ call' = [call EXCEPT ![c].at = "latest"]
    /\ \/ /\ l2_blocks' = {b \in l2_blocks : ~outdated(b)}
          /\ hidden' = hidden \union {b \in l2_blocks : outdated(b) /\ Row(b) \notin withdrawals}
       \/ UNCHANGED <<l2_blocks, hidden>>
    /\ UNCHANGED <<head, withdrawals, restarts, passed, seen, lost>>

latestAnswered(c) ==
    /\ call[c].at = "latest"
    /\ \E n \in Latest : call' = [call EXCEPT ![c].at = "cursor", ![c].to = n]
    /\ UNCHANGED <<head, l2_blocks, withdrawals, restarts, passed, seen, lost, hidden>>

(* A request, or a statement, that fails before there are logs.               *)
fails(c) ==
    /\ call[c].at \in {"latest", "cursor", "insert"}
    /\ givesUp(c, {})
    /\ UNCHANGED <<head, l2_blocks, withdrawals, restarts, passed, seen, hidden>>

(* What is asked for: the blocks behind the cursor.  A bug would ask for one  *)
(* more than there are, or leave one out.                                     *)
onePast(prev, n) == prev + 1..n + 1
skipsOne(prev, n) == prev + 2..n
behind(prev, n) == prev + 1..n
asked(c) == behind(call[c].prev, call[c].to)

(* fetchL2Blocks and fetchL2Logs: some chunks of blocks and some of logs.     *)
fetched(c, prev) ==
    \E blocks \in SUBSET behind(prev, call[c].to), logs \in SUBSET behind(prev, call[c].to) :
        call' = [call EXCEPT ![c].at = "store", ![c].prev = prev, ![c].blocks = blocks, ![c].logs = logs]

(* getLastL2Block: the row with the greatest id; no row at all makes the bot  *)
(* start over at the latest block.                                            *)
cursorRead(c) ==
    /\ call[c].at = "cursor"
    /\ IF l2_blocks = {} THEN call' = [call EXCEPT ![c].at = "insert"]
                         ELSE fetched(c, Max(l2_blocks))
    /\ UNCHANGED <<head, l2_blocks, withdrawals, restarts, passed, seen, lost, hidden>>

inserted(c) ==
    LET n == call[c].to
    IN  /\ call[c].at = "insert"
        /\ l2_blocks' = l2_blocks \union {n}
        /\ passed' = Max({passed, n})
        /\ lost' = lost \union (passed + 1..n - 1)
        /\ hidden' = hidden \union {n}
        /\ call' = [call EXCEPT ![c].at = "logs", ![c].prev = n]
        /\ UNCHANGED <<head, withdrawals, restarts, seen>>

(* The event watcher is given the logs; then the balances of the bridge are   *)
(* awaited.                                                                   *)
handleLogs(c, logs) ==
    /\ seen' = seen \union logs
    /\ call' = [call EXCEPT ![c] = [Idle EXCEPT !.at = "record", !.prev = call[c].prev, !.logs = logs]]

logsOfLatest(c) ==
    /\ call[c].at = "logs"
    /\ \E logs \in SUBSET {call[c].to} :
          /\ handleLogs(c, logs)
          /\ lost' = lost \union ({call[c].to} \ logs)
    /\ UNCHANGED <<head, l2_blocks, withdrawals, restarts, passed, hidden>>

(* createOrUpdate, in one transaction: the rows are there, and with them the  *)
(* cursor.  The logs of the blocks it has passed were fetched, or are lost.   *)
stored(c) ==
    LET r == call[c]
    IN  /\ r.at = "store"
        /\ l2_blocks' = l2_blocks \union r.blocks
        /\ passed' = Max(r.blocks \union {passed})
        /\ lost' = lost \union ((asked(c) \ r.logs) \intersect (1..passed'))
        /\ hidden' = hidden \union (asked(c) \ r.blocks)
        /\ call' = [call EXCEPT ![c] = [Idle EXCEPT !.at = "closest", !.prev = r.prev, !.logs = r.logs]]
        /\ UNCHANGED <<head, withdrawals, restarts, seen>>

(* The transaction is rolled back: the cursor stays, and the next call asks   *)
(* for the same blocks again.  Or getL2BlocksClosetTimestamp fails when the   *)
(* rows, and with them the cursor, are stored: the logs are dropped.          *)
storeFails(c) ==
    /\ \/ call[c].at = "store" /\ givesUp(c, {})
       \/ call[c].at = "closest" /\ givesUp(c, call[c].logs)
    /\ UNCHANGED <<head, l2_blocks, withdrawals, restarts, passed, seen, hidden>>

closestRead(c) ==
    /\ call[c].at = "closest"
    /\ handleLogs(c, call[c].logs)
    /\ UNCHANGED <<head, l2_blocks, withdrawals, restarts, passed, lost, hidden>>

(* The rows behind the cursor the call began with; if there are any, they are *)
(* held while the proxy watchers are awaited.  A bug would take the cursor as *)
(* it is now.                                                                 *)
behindCursor(c) == {b \in l2_blocks : b > Max(l2_blocks)}
getL2BlocksFrom(c) == {b \in l2_blocks : b > call[c].prev}

rowsRead(c) ==
    /\ call[c].at = "record"
    /\ IF getL2BlocksFrom(c) = {}
       THEN call' = [call EXCEPT ![c] = Idle]
       ELSE call' = [call EXCEPT ![c].at = "monitor", ![c].blocks = getL2BlocksFrom(c)]
    /\ UNCHANGED <<head, l2_blocks, withdrawals, restarts, passed, seen, lost, hidden>>

(* toMonitor: the withdrawals of the blocks whose rows are held; without any  *)
(* nothing is inserted or removed.                                            *)
getWithdrawals(c) == {b \in call[c].logs \intersect call[c].blocks : Sent[b] > 0}

recorded(c) ==
    /\ call[c].at = "monitor"
    /\ withdrawals' = withdrawals \union merged(getWithdrawals(c))
    /\ IF getWithdrawals(c) = {} THEN call' = [call EXCEPT ![c] = Idle]
                                 ELSE call' = [call EXCEPT ![c].at = "remove"]
    /\ UNCHANGED <<head, l2_blocks, restarts, passed, seen, lost, hidden>>

(* The rows cannot be read, or the withdrawals not be inserted: an alert.     *)
recordFails(c) ==
    /\ \/ call[c].at = "record" /\ hidden' = hidden \union call[c].logs
       \/ call[c].at = "monitor" /\ hidden' = hidden \union getWithdrawals(c)
    /\ call' = [call EXCEPT ![c] = Idle]
    /\ UNCHANGED <<head, l2_blocks, withdrawals, restarts, passed, seen, lost>>

(* removeLessThen, counted from the last row that is held; or it fails.       *)
expired(b, last) == b < last - Keep

removed(c) ==
    /\ call[c].at = "remove"
    /\ withdrawals' \in {withdrawals, {w \in withdrawals : ~expired(w[1], Max(call[c].blocks))}}
    /\ call' = [call EXCEPT ![c] = Idle]
    /\ UNCHANGED <<head, l2_blocks, restarts, passed, seen, lost, hidden>>

(* The logs a call holds of blocks that the cursor has passed.                *)
held(c) ==
    CASE call[c].at = "logs" -> {call[c].to}
      [] call[c].at = "closest" -> call[c].logs \intersect (1..passed)
      [] OTHER -> {}

(* The process ends and is started again: the tables are empty, and           *)
(* initialize fills that of withdrawals from the logs of the last 48 hours.   *)
restart ==
    /\ restarts < MaxRestarts
    /\ restarts' = restarts + 1
    /\ l2_blocks' = {}
    /\ \E n \in Latest : \E found \in SUBSET {b \in 1..n : ~expired(b, n)} :
          /\ withdrawals' = merged(found)
          /\ hidden' = hidden \union (1..head \ found)
    /\ lost' = lost \union UNION {held(c) : c \in Calls}
    /\ call' = [c \in Calls |-> Idle]
    /\ UNCHANGED <<head, passed, seen>>

continues(c) ==
    \/ latestAnswered(c) \/ fails(c) \/ cursorRead(c) \/ inserted(c) \/ logsOfLatest(c)
    \/ stored(c) \/ storeFails(c) \/ closestRead(c) \/ rowsRead(c) \/ recorded(c)
    \/ recordFails(c) \/ removed(c)

Next == newL2Block \/ restart \/ \E c \in Calls : handleBlock(c) \/ continues(c)

Spec == Init /\ [][Next]_vars

-----------------------------------------------------------------------------
Stream == INSTANCE L2Stream WITH pending <- UNION {held(c) : c \in Calls}

(* The store is a stream of L2 blocks: what lies behind the greatest row was  *)
(* handled, is held by a call, or was given up, in every order of two calls,  *)
(* after a restart and after a cursor that has grown old; and what a call     *)
(* lets go of is one of the first or of the last.                             *)
KeepsStream == Stream!Spec

(* The blocks whose withdrawals a call is about to record.                    *)
ToRecord(c) ==
    CASE call[c].at = "record" -> call[c].logs
      [] call[c].at = "monitor" -> call[c].logs \intersect call[c].blocks
      [] OTHER -> {}

(* The last withdrawal of every transaction whose logs were handled is in the *)
(* table for 48 hours, or about to be, or was left out for a reason: its      *)
(* block was the first after a start, the row of the block was not fetched or *)
(* is too old, a statement failed, or the process began again.  Two calls do  *)
(* not hide or remove each other's rows.                                      *)
WithdrawalsAreRecorded ==
    \A b \in seen : \/ Sent[b] = 0 \/ Row(b) \in withdrawals \/ b \in hidden
                    \/ expired(b, head)
                    \/ \E c \in Calls : b \in ToRecord(c)
=============================================================================
