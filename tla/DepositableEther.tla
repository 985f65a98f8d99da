--------------------------- MODULE DepositableEther ---------------------------
(***************************************************************************)
(* The depositable ether in the stETH operation service of ethereum-steth:  *)
(* every hundredth block handleBufferedEth asks how much ether waits to be  *)
(* deposited.  More than 20000 for an hour, or more than 10000 when no      *)
(* deposit was made for three days, is alerted once a day; the two alerts   *)
(* share one throttle.                                                      *)
(*                                                                          *)
(* Time is counted in those blocks, twenty minutes each.  A request that    *)
(* fails, of this or of the check before it, leaves the sample untaken.     *)
(***************************************************************************)
EXTENDS Integers

CONSTANTS
    Hour, Day, Days3,   \* HOUR_1, HOURS_24 and DAYS_3 in samples
    Start,              \* the time of the first sample
    MaxNow              \* bound: the time of the last sample

DepositableAssumption == /\ Hour \in Nat /\ Day \in Nat /\ Days3 \in Nat \ {0}
                         /\ Start \in Nat /\ Start > Days3 /\ Start > Day
                         /\ MaxNow \in Nat /\ MaxNow >= Start

Never == 0
Times == {Never} \union Start - Days3..MaxNow
Levels == {"few", "high", "huge"}       \* to 10000 ether, to 20000, and more

VARIABLES
    now,                                    \* the time of the next sample
    ether,                                  \* the chain: the depositable ether
    criticalDepositableAmountTimestamp,
    lastReportedDepositableEthTimestamp,
    lastDepositorTxTime,
    taken,          \* history: the newest sample that was taken
    hugeFrom,       \* history: the first sample taken of the huge ether there is now
    highFrom        \* history: the same of the ether that is high or huge

vars == <<now, ether, criticalDepositableAmountTimestamp, lastReportedDepositableEthTimestamp,
          lastDepositorTxTime, taken, hugeFrom, highFrom>>

TypeOK ==
    /\ now \in Start..MaxNow /\ ether \in Levels
    /\ {criticalDepositableAmountTimestamp, lastReportedDepositableEthTimestamp,
        lastDepositorTxTime, taken, hugeFrom, highFrom} \subseteq Times

(* initialize finds the last deposit of the days before, or none.             *)
Init ==
    /\ now = Start /\ ether \in Levels
    /\ criticalDepositableAmountTimestamp = Never
    /\ lastReportedDepositableEthTimestamp = Never
    /\ lastDepositorTxTime \in {Never, Start - Days3, Start - 1}
    /\ taken = Never /\ hugeFrom = Never /\ highFrom = Never

-----------------------------------------------------------------------------
(* A transaction to the deposit security module.                              *)
depositorTx ==
    /\ lastDepositorTxTime' = now
    /\ UNCHANGED <<now, ether, criticalDepositableAmountTimestamp,
                   lastReportedDepositableEthTimestamp, taken, hugeFrom, highFrom>>

(* The timer runs from the first sample that is huge.  A bug would start it   *)
(* again with each of them.                                                   *)
timerRestarted == IF ether = "huge" THEN now ELSE Never
timer ==
    IF ether # "huge" THEN Never
    ELSE IF criticalDepositableAmountTimestamp = Never THEN now
    ELSE criticalDepositableAmountTimestamp

HugeForAnHour == ether = "huge" /\ criticalDepositableAmountTimestamp' + Hour < now
HighForDays ==
    /\ ether \in {"high", "huge"}
    /\ lastDepositorTxTime # Never /\ lastDepositorTxTime + Days3 < now

(* A bug would look for the high ether only where it is not huge.             *)
eitherOf == IF ether = "huge" THEN HugeForAnHour ELSE HighForDays
anyOf == HugeForAnHour \/ HighForDays

(* What the chain holds at the next sample, and since when samples show it.   *)
nextSample(first) ==
    /\ now < MaxNow /\ now' = now + 1
    /\ ether' \in Levels
    /\ hugeFrom' = IF ether' = "huge" THEN first.huge ELSE Never
    /\ highFrom' = IF ether' = "few" THEN Never ELSE first.high

firstTaken(from, found) == IF found /\ from = Never THEN now ELSE from

handleDepositable ==
    /\ criticalDepositableAmountTimestamp' = timer
    /\ lastReportedDepositableEthTimestamp' =
          IF lastReportedDepositableEthTimestamp + Day < now /\ anyOf THEN now
          ELSE lastReportedDepositableEthTimestamp
    /\ taken' = now
    /\ nextSample([huge |-> firstTaken(hugeFrom, ether = "huge"),
                   high |-> firstTaken(highFrom, ether # "few")])
    /\ UNCHANGED lastDepositorTxTime

fails ==
    /\ nextSample([huge |-> hugeFrom, high |-> highFrom])
    /\ UNCHANGED <<criticalDepositableAmountTimestamp, lastReportedDepositableEthTimestamp,
                   lastDepositorTxTime, taken>>

Next == depositorTx \/ handleDepositable \/ fails

Spec == Init /\ [][Next]_vars

-----------------------------------------------------------------------------
(* Ether that the chain has held for more than an hour since a sample first   *)
(* showed it, and of which a sample was taken just now, was alerted within    *)
(* the day, whatever samples were lost in between; and so was high ether that *)
(* no deposit has touched for three days.                                     *)
EtherIsTold ==
    LET \* what held at the sample just taken, and still does
        huge == hugeFrom # Never /\ hugeFrom + Hour < taken
        high == /\ highFrom # Never
                /\ lastDepositorTxTime # Never /\ lastDepositorTxTime + Days3 < taken
    IN  taken = now - 1 /\ (huge \/ high)
            => /\ lastReportedDepositableEthTimestamp # Never
               /\ lastReportedDepositableEthTimestamp + Day >= taken
=============================================================================
