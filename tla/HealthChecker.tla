--------------------------- MODULE HealthChecker ---------------------------
(***************************************************************************)
(* The health accounting of ethereum-steth                                  *)
(* (services/health-checker/health-checker.srv.ts).  Every evaluateBlock    *)
(* and evaluateTx handler ends with one synchronous call check(findings);   *)
(* the gRPC and HTTP health endpoints only read isHealth().                 *)
(*                                                                          *)
(* A call sees its findings only through two facts: how many of them are    *)
(* NETWORK-ERROR and whether one of them is L1-BLOCK-OUTDATED.  Date.now()  *)
(* is the variable now; between two calls it moves by any amount.           *)
(***************************************************************************)
EXTENDS Integers, Sequences

CONSTANTS
    BorderTime,      \* length of an error window (15 minutes in the code)
    MaxCountErrors,  \* errors that make the bot unhealthy (25 in the code)
    MaxBatch,        \* bound: network errors in the findings of one call
    MaxNow,          \* bound: the last instant of the clock
    MaxChecks,       \* bound: calls of check
    NoTime           \* errorStartedAt === null

ASSUME HealthAssumption ==
    /\ BorderTime \in Nat \ {0}
    /\ MaxCountErrors \in Nat \ {0}
    /\ MaxBatch \in Nat
    /\ MaxNow \in Nat
    /\ MaxChecks \in Nat
    /\ NoTime \notin Nat

VARIABLES
    now,             \* the clock
    errorCount,      \* network errors of the open window
    errorStartedAt,  \* when the open window began, or NoTime
    isAppOk,
    isBotOutdated,
    calls            \* history: every call so far, its time, its errors, and the
                     \* errors of all calls up to and including it

vars == <<now, errorCount, errorStartedAt, isAppOk, isBotOutdated, calls>>

Call == [at : 0..MaxNow, errs : 0..MaxBatch, total : Nat]

TypeOK ==
    /\ now \in 0..MaxNow
    /\ errorCount \in Nat
    /\ errorStartedAt \in (0..MaxNow) \union {NoTime}
    /\ isAppOk \in BOOLEAN
    /\ isBotOutdated \in BOOLEAN
    /\ calls \in Seq(Call)

Init ==
    /\ now = 0
    /\ errorCount = 0
    /\ errorStartedAt = NoTime
    /\ isAppOk = TRUE
    /\ isBotOutdated = FALSE
    /\ calls = <<>>

Reported == IF Len(calls) = 0 THEN 0 ELSE calls[Len(calls)].total

isHealth == ~isBotOutdated /\ isAppOk

-----------------------------------------------------------------------------
(* The limit; bugs: off by one in either direction.                           *)
LimitPassed(count) == count > MaxCountErrors
LimitAlmost(count) == count + 1 >= MaxCountErrors
LimitReached(count) == count >= MaxCountErrors

(* The first error opens a window.  Bugs: every error opens a new one, or the *)
(* stored time is the window's end.                                           *)
StartsAgain(errs) == IF errs > 0 THEN now ELSE errorStartedAt
StartsAtDeadline(errs) ==
    IF errorStartedAt = NoTime /\ errs > 0 THEN now + BorderTime ELSE errorStartedAt
StartedAt(errs) == IF errorStartedAt = NoTime /\ errs > 0 THEN now ELSE errorStartedAt

(* A window that has lasted BorderTime is judged.                             *)
WindowOver(started) == started # NoTime /\ now - started >= BorderTime

(* The findings of one call alone reach the limit: the early return leaves    *)
(* the window as it is.                                                       *)
CheckFlood(errs) ==
    /\ LimitReached(errs)
    /\ isAppOk' = FALSE
    /\ UNCHANGED <<errorCount, errorStartedAt>>

(* Otherwise the errors go to the open window, which is judged when over: the *)
(* bot becomes unhealthy for good, or the window is closed.                   *)
CheckWindow(errs) ==
    /\ ~LimitReached(errs)
    /\ LET started == StartedAt(errs)
           count   == errorCount + errs
           over    == WindowOver(started)
           failed  == over /\ LimitReached(count)
       IN  /\ isAppOk' = (isAppOk /\ ~failed)
           /\ errorCount' = IF over /\ ~failed THEN 0 ELSE count
           /\ errorStartedAt' = IF over /\ ~failed THEN NoTime ELSE started

check(errs, outdated) ==
    /\ Len(calls) < MaxChecks
    /\ isBotOutdated' = (isBotOutdated \/ outdated)
    /\ CheckFlood(errs) \/ CheckWindow(errs)
    /\ calls' = Append(calls, [at |-> now, errs |-> errs, total |-> Reported + errs])
    /\ UNCHANGED now

Tick ==
    /\ now < MaxNow
    /\ now' = now + 1
    /\ UNCHANGED <<errorCount, errorStartedAt, isAppOk, isBotOutdated, calls>>

Next ==
    \/ Tick
    \/ \E errs \in 0..MaxBatch, outdated \in BOOLEAN : check(errs, outdated)

Spec == Init /\ [][Next]_vars

-----------------------------------------------------------------------------
(* The errors the calls i..j reported together, and the open window as a      *)
(* suffix of the calls.                                                       *)
ErrsBetween(i, j) == calls[j].total - calls[i].total + calls[i].errs

OpenWindowFrom(i) ==
    /\ calls[i].at = errorStartedAt
    /\ ErrsBetween(i, Len(calls)) = errorCount

(* The counter and its start describe one and the same run of calls: no open  *)
(* window means nothing counted, and an open one holds exactly the errors     *)
(* reported since the call that opened it, less than BorderTime ago when the  *)
(* last call came.  The early return, the lazy reset and the late judgement   *)
(* of check() each update one of the two alone.                               *)
WindowIsFaithful ==
    /\ errorStartedAt = NoTime => errorCount = 0
    /\ isAppOk /\ errorStartedAt # NoTime =>
        /\ \E i \in DOMAIN calls : OpenWindowFrom(i)
        /\ calls[Len(calls)].at - errorStartedAt < BorderTime

(* The bot is declared unhealthy only for a reason an operator would accept:  *)
(* one call with MaxCountErrors errors, or a run of calls at least BorderTime *)
(* long that reported MaxCountErrors errors together.                         *)
UnhealthyIsEarned ==
    ~isAppOk =>
        \E i, j \in DOMAIN calls :
            /\ i <= j
            /\ ErrsBetween(i, j) >= MaxCountErrors
            /\ i = j \/ calls[j].at - calls[i].at >= BorderTime

(* What slips through: the windows tumble, they do not slide, so a burst      *)
(* shorter than BorderTime may be cut in two.  A bot still called healthy     *)
(* BorderTime after the burst has reported at most twice the errors a window  *)
(* tolerates, never more.                                                     *)
BurstIsNoticed ==
    isAppOk =>
        \A i, j \in DOMAIN calls :
            (/\ i <= j
             /\ calls[j].at - calls[i].at < BorderTime
             /\ calls[Len(calls)].at >= calls[j].at + BorderTime)
            => ErrsBetween(i, j) <= 2 * (MaxCountErrors - 1)
=============================================================================
