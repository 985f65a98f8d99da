------------------------- MODULE L2WithdrawalsMonitor -------------------------
(***************************************************************************)
(* MonitorWithdrawals of l2-bridge-scroll (monitor_withdrawals.ts), which   *)
(* the other L2 bots repeat: it keeps the withdrawals of the last 48 hours  *)
(* and is to report when they reach MAX_WITHDRAWALS_SUM.                    *)
(*                                                                          *)
(* handleBlocks is synchronous.  A block is its number, which is its time   *)
(* too; a withdrawal is the time of its block, and all amounts are equal.   *)
(***************************************************************************)
EXTENDS Integers, FiniteSets

CONSTANTS
    Window,         \* HOURS_48
    Cadence,        \* the numbers of the blocks that may report are its multiples
    MaxSum,         \* MAX_WITHDRAWALS_SUM, in withdrawals
    Epoch,          \* the block at which the bot starts
    MaxNumber,      \* bound: the last block
    MaxBatch        \* bound: the blocks of one call

(* A sum that is huge is more than none, and blocks are counted from 1.       *)
MonitorAssumption ==
    /\ {Window, Cadence, MaxSum, Epoch, MaxNumber, MaxBatch} \subseteq Nat
    /\ Cadence > 0 /\ MaxSum > 0 /\ Epoch \in 1..MaxNumber

VARIABLES
    number,             \* the last block that was handled
    withdrawalsStore,
    lastReportedTooManyWithdrawalsTimestamp,
    out,                \* the blocks the last call has reported at
    withdrawn           \* history: the withdrawals whose events the service was given

vars == <<number, withdrawalsStore, lastReportedTooManyWithdrawalsTimestamp, out, withdrawn>>

Times == 1..MaxNumber

TypeOK ==
    /\ number \in Times
    /\ withdrawalsStore \subseteq Times
    /\ lastReportedTooManyWithdrawalsTimestamp \in Times \union {0}
    /\ out \subseteq Times
    /\ withdrawn \subseteq Times

(* initialize reads the events of the last 48 hours.                          *)
Init ==
    /\ number = Epoch
    /\ withdrawalsStore \in SUBSET {t \in Times : Epoch - Window <= t /\ t < Epoch}
    /\ lastReportedTooManyWithdrawalsTimestamp = 0
    /\ out = {}
    /\ withdrawn = withdrawalsStore

-----------------------------------------------------------------------------
(* withdrawalsSum.plus(amount) gives the sum as a new number, which is not    *)
(* used: the sum stays what it was made as.                                   *)
withdrawalsSum(store) == 0

(* "address in addresses" asks the Set for a property of that name and not    *)
(* for a member: there is none, and no event becomes a record.                *)
getWithdrawalRecords(logs) == {}

(* The store and the reports after one more block.  A report sets the time    *)
(* of the last report first, and then keeps what is newer than 0.             *)
Recent(store, n) == {t \in store : t > n - Window}

blockHandled(before, n) ==
    LET store == Recent(before.store, n)
    IN  IF withdrawalsSum(store) >= MaxSum /\ n % Cadence = 0
        THEN [store |-> {t \in store : t > 0}, last |-> n, out |-> before.out \union {n}]
        ELSE [before EXCEPT !.store = store]

handleBlocks(last, logs) ==
    LET given == [store |-> withdrawalsStore \union getWithdrawalRecords(logs),
                  last |-> lastReportedTooManyWithdrawalsTimestamp, out |-> {}]
        after[n \in number..last] ==
            IF n = number THEN given ELSE blockHandled(after[n - 1], n)
    IN  /\ number' = last
        /\ withdrawalsStore' = after[last].store
        /\ lastReportedTooManyWithdrawalsTimestamp' = after[last].last
        /\ out' = after[last].out
        /\ withdrawn' = withdrawn \union logs

Next ==
    \E last \in {n \in Times : number < n /\ n <= number + MaxBatch} :
    \E logs \in SUBSET (number + 1..last) : handleBlocks(last, logs)

Spec == Init /\ [][Next]_vars

-----------------------------------------------------------------------------
(* README: "Huge withdrawals during the last ...".  A block that may report   *)
(* leaves fewer withdrawals of the last 48 hours unreported than the sum that *)
(* is huge.                                                                   *)
HugeIsReported ==
    number % Cadence = 0 /\ number > Epoch =>
        Cardinality({t \in Recent(withdrawn, number) :
                        t > lastReportedTooManyWithdrawalsTimestamp}) < MaxSum
=============================================================================
