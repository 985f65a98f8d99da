------------------------ MODULE HealthChecker_proofs ------------------------
(* Theorems about HealthChecker, for every border, limit and bound, and about *)
(* the handlers beside it (StethHandlers), for any services, calls and blocks.*)
EXTENDS MCStethHandlers, TLAPS

(* The two safety invariants need each other's absence of surprises only      *)
(* through the type of the calls, so their conjunction is inductive.          *)
IInv == TypeOK /\ WindowIsFaithful /\ UnhealthyIsEarned

(* A call appends one record and leaves the earlier ones as they are, so the  *)
(* errors between earlier calls do not change and those up to the new call    *)
(* grow by its errors.                                                        *)
LEMMA CallAppends ==
    ASSUME TypeOK, NEW errs \in 0..MaxBatch, NEW outdated \in BOOLEAN, check(errs, outdated),
           NEW n, n = Len(calls)
    PROVE  /\ Reported \in Nat
           /\ calls' \in Seq(Call)
           /\ n \in Nat
           /\ Len(calls') = n + 1
           /\ DOMAIN calls = 1..n
           /\ DOMAIN calls' = 1..(n + 1)
           /\ calls'[n + 1] = [at |-> now, errs |-> errs, total |-> Reported + errs]
           /\ \A k \in 1..n : calls'[k] = calls[k] /\ calls[k] \in Call
  <1> DEFINE c == [at |-> now, errs |-> errs, total |-> Reported + errs]
  <1>0. calls \in Seq(Call) /\ n \in Nat /\ DOMAIN calls = 1..n /\ \A k \in 1..n : calls[k] \in Call
    BY DEF TypeOK
  <1>1. Reported \in Nat
    <2>1. CASE n = 0
      BY <2>1 DEF Reported
    <2>2. CASE n # 0
      <3>1. calls[n] \in Call
        BY <1>0, <2>2
      <3>. QED BY <2>2, <3>1 DEF Reported, Call
    <2>. QED BY <2>1, <2>2
  <1>2. c \in Call
    BY <1>1, HealthAssumption DEF TypeOK, Call
  <1>3. calls' = Append(calls, c)
    BY DEF check
  <1> HIDE DEF c
  <1>4. /\ calls' \in Seq(Call)
        /\ Len(calls') = n + 1
        /\ calls'[n + 1] = c
        /\ \A k \in 1..n : calls'[k] = calls[k]
    BY <1>0, <1>2, <1>3
  <1>5. DOMAIN calls' = 1..(n + 1)
    BY <1>4
  <1>. QED BY <1>0, <1>1, <1>4, <1>5 DEF c

LEMMA ErrsGrow ==
    ASSUME TypeOK, NEW errs \in 0..MaxBatch, NEW outdated \in BOOLEAN, check(errs, outdated),
           NEW n, n = Len(calls), NEW m, m = n + 1
    PROVE  /\ ErrsBetween(m, m)' = errs
           /\ calls'[m].at = now
           /\ \A i \in 1..n :
                /\ calls'[i].at = calls[i].at
                /\ calls[i].at \in Nat
                /\ ErrsBetween(i, m)' = ErrsBetween(i, n) + errs
                /\ \A j \in 1..n : ErrsBetween(i, j)' = ErrsBetween(i, j)
  <1>1. Reported \in Nat /\ n \in Nat /\ errs \in Nat /\ m \in Nat
    <2>1. Reported \in Nat /\ n \in Nat
      BY CallAppends
    <2>. QED BY <2>1, HealthAssumption
  <1>2. calls'[m] = [at |-> now, errs |-> errs, total |-> Reported + errs]
    BY CallAppends
  <1>3. calls'[m].at = now /\ calls'[m].errs = errs /\ calls'[m].total = Reported + errs
    BY <1>2
  <1>4. ErrsBetween(m, m)' = errs
    BY <1>1, <1>3 DEF ErrsBetween
  <1>5. ASSUME NEW i \in 1..n
        PROVE  /\ calls'[i].at = calls[i].at
               /\ calls[i].at \in Nat
               /\ ErrsBetween(i, m)' = ErrsBetween(i, n) + errs
               /\ \A j \in 1..n : ErrsBetween(i, j)' = ErrsBetween(i, j)
    <2>1. calls'[i] = calls[i] /\ calls[i] \in Call
      BY CallAppends
    <2>2. Reported = calls[n].total
      BY <1>1 DEF Reported
    <2>3. calls[i].total \in Nat /\ calls[i].errs \in Nat /\ calls[i].at \in Nat
      BY <2>1, HealthAssumption DEF Call
    <2>4. ErrsBetween(i, m)' = ErrsBetween(i, n) + errs
      BY <1>1, <1>3, <2>1, <2>2, <2>3 DEF ErrsBetween
    <2>5. \A j \in 1..n : ErrsBetween(i, j)' = ErrsBetween(i, j)
      BY CallAppends DEF ErrsBetween
    <2>. QED BY <2>1, <2>3, <2>4, <2>5
  <1>. QED BY <1>3, <1>4, <1>5

-----------------------------------------------------------------------------
LEMMA InitIInv == Init => IInv
  <1> SUFFICES ASSUME Init PROVE IInv
    OBVIOUS
  <1>1. TypeOK
    <2>1. <<>> \in Seq(Call)
      OBVIOUS
    <2>2. 0 \in 0..MaxNow /\ 0 \in Nat
      BY HealthAssumption
    <2>. QED BY <2>1, <2>2, Zenon DEF Init, TypeOK
  <1>2. WindowIsFaithful /\ UnhealthyIsEarned
    BY DEF Init, WindowIsFaithful, UnhealthyIsEarned
  <1>. QED BY <1>1, <1>2 DEF IInv

LEMMA CheckTypeOK ==
    ASSUME TypeOK, NEW errs \in 0..MaxBatch, NEW outdated \in BOOLEAN, check(errs, outdated)
    PROVE  TypeOK'
  <1>1. calls' \in Seq(Call)
    BY CallAppends
  <1>2. errs \in Nat /\ isBotOutdated' \in BOOLEAN /\ now' \in 0..MaxNow /\ now \in 0..MaxNow
    BY HealthAssumption DEF check, TypeOK
  <1>3. /\ errorCount' \in Nat
        /\ errorStartedAt' \in (0..MaxNow) \union {NoTime}
        /\ isAppOk' \in BOOLEAN
    <2>1. CASE CheckFlood(errs)
      BY <2>1 DEF CheckFlood, TypeOK
    <2>2. CASE CheckWindow(errs)
      <3>1. StartedAt(errs) \in (0..MaxNow) \union {NoTime}
        BY <1>2 DEF StartedAt, TypeOK
      <3>. QED BY <2>2, <1>2, <3>1 DEF CheckWindow, TypeOK
    <2>. QED BY <2>1, <2>2 DEF check
  <1>. QED BY <1>1, <1>2, <1>3 DEF TypeOK

(* Once earned, the verdict stays earned: the calls that justify it remain.   *)
LEMMA EarnedStays ==
    ASSUME TypeOK, UnhealthyIsEarned, ~isAppOk,
           NEW errs \in 0..MaxBatch, NEW outdated \in BOOLEAN, check(errs, outdated)
    PROVE  UnhealthyIsEarned'
  <1>1. PICK i \in DOMAIN calls, j \in DOMAIN calls :
            /\ i <= j
            /\ ErrsBetween(i, j) >= MaxCountErrors
            /\ i = j \/ calls[j].at - calls[i].at >= BorderTime
    BY DEF UnhealthyIsEarned
  <1>2. i \in 1..Len(calls) /\ j \in 1..Len(calls) /\ i \in DOMAIN calls' /\ j \in DOMAIN calls'
    <2>1. PICK n : n = Len(calls)
      OBVIOUS
    <2>2. n \in Nat /\ DOMAIN calls = 1..n /\ DOMAIN calls' = 1..(n + 1)
      BY <2>1, CallAppends
    <2>. QED BY <2>1, <2>2
  <1>3. /\ ErrsBetween(i, j)' = ErrsBetween(i, j)
        /\ calls'[i].at = calls[i].at /\ calls'[j].at = calls[j].at
    BY <1>2, ErrsGrow
  <1>. QED BY <1>1, <1>2, <1>3 DEF UnhealthyIsEarned

LEMMA FloodKeepsIInv ==
    ASSUME IInv, NEW errs \in 0..MaxBatch, NEW outdated \in BOOLEAN,
           check(errs, outdated), CheckFlood(errs)
    PROVE  (WindowIsFaithful /\ UnhealthyIsEarned)'
  <1>1. PICK n, m : n = Len(calls) /\ m = n + 1
    OBVIOUS
  <1>2. m \in DOMAIN calls' /\ m <= m
    <2>1. n \in Nat /\ DOMAIN calls' = 1..(n + 1)
      BY <1>1, CallAppends DEF IInv
    <2>. QED BY <1>1, <2>1
  <1>3. ErrsBetween(m, m)' >= MaxCountErrors
    BY <1>1, ErrsGrow DEF IInv, CheckFlood, LimitReached
  <1>5. UnhealthyIsEarned'
    BY <1>2, <1>3 DEF UnhealthyIsEarned
  <1>4. WindowIsFaithful'
    BY DEF IInv, WindowIsFaithful, CheckFlood
  <1>. QED BY <1>4, <1>5

LEMMA WindowKeepsIInv ==
    ASSUME IInv, NEW errs \in 0..MaxBatch, NEW outdated \in BOOLEAN,
           check(errs, outdated), CheckWindow(errs)
    PROVE  (WindowIsFaithful /\ UnhealthyIsEarned)'
  <1>n. PICK n, m : n = Len(calls) /\ m = n + 1
    OBVIOUS
  <1> DEFINE started == StartedAt(errs)
             count == errorCount + errs
             over == WindowOver(started)
             failed == over /\ LimitReached(count)
  <1>0. TypeOK /\ WindowIsFaithful /\ UnhealthyIsEarned
    BY DEF IInv
  <1>1. /\ errs \in Nat /\ n \in Nat /\ now \in Nat /\ errorCount \in Nat
        /\ BorderTime \in Nat \ {0} /\ MaxCountErrors \in Nat
        /\ m \in DOMAIN calls' /\ Len(calls') = m /\ m = n + 1
        /\ 1..n \subseteq DOMAIN calls' /\ DOMAIN calls = 1..n
    <2>1. n \in Nat /\ DOMAIN calls = 1..n /\ Len(calls') = n + 1 /\ DOMAIN calls' = 1..(n + 1)
      BY <1>0, <1>n, CallAppends
    <2>. QED BY <1>0, <1>n, <2>1, HealthAssumption DEF TypeOK
  <1>2. /\ isAppOk' = (isAppOk /\ ~failed)
        /\ errorCount' = (IF over /\ ~failed THEN 0 ELSE count)
        /\ errorStartedAt' = (IF over /\ ~failed THEN NoTime ELSE started)
    BY DEF CheckWindow
  <1>3. started = NoTime => count = 0
    BY <1>0, <1>1, HealthAssumption DEF StartedAt, WindowIsFaithful, TypeOK
  <1>4. errorStartedAt' = NoTime => errorCount' = 0
    BY <1>2, <1>3
  <1>5. CASE ~isAppOk
    BY <1>0, <1>2, <1>4, <1>5, EarnedStays DEF WindowIsFaithful
  <1>6. CASE isAppOk /\ started = NoTime
    <2>1. ~over
      BY <1>6 DEF WindowOver
    <2>. QED BY <1>2, <1>4, <1>6, <2>1 DEF WindowIsFaithful, UnhealthyIsEarned
  <1>7. CASE isAppOk /\ started # NoTime
    <2>1. PICK i \in 1..m :
            /\ calls'[i].at = started
            /\ ErrsBetween(i, m)' = count
      <3>1. CASE errorStartedAt = NoTime
        <4>1. started = now /\ errorCount = 0
          BY <1>0, <1>7, <3>1 DEF StartedAt, WindowIsFaithful
        <4>. QED BY <1>0, <1>1, <4>1, <1>n, ErrsGrow
      <3>2. CASE errorStartedAt # NoTime
        <4>1. started = errorStartedAt
          BY <3>2 DEF StartedAt
        <4>2. PICK i \in 1..n : calls[i].at = errorStartedAt /\ ErrsBetween(i, n) = errorCount
          BY <1>0, <1>1, <1>n, <1>7, <3>2 DEF WindowIsFaithful, OpenWindowFrom
        <4>3. calls'[i].at = calls[i].at /\ ErrsBetween(i, m)' = ErrsBetween(i, n) + errs
          BY <1>0, <1>n, ErrsGrow
        <4>4. i \in 1..m
          BY <1>1
        <4>. QED BY <4>1, <4>2, <4>3, <4>4
      <3>. QED BY <3>1, <3>2
    <2>2. calls'[m].at = now
      BY <1>0, <1>n, ErrsGrow
    <2>3. CASE failed
      <3>1. /\ i \in DOMAIN calls' /\ i <= m
            /\ ErrsBetween(i, m)' >= MaxCountErrors
            /\ calls'[m].at - calls'[i].at >= BorderTime
        BY <1>1, <2>1, <2>2, <2>3 DEF WindowOver, LimitReached
      <3>2. UnhealthyIsEarned'
        BY <1>1, <3>1 DEF UnhealthyIsEarned
      <3>. QED BY <1>2, <1>4, <2>3, <3>2 DEF WindowIsFaithful
    <2>4. CASE over /\ ~failed
      BY <1>2, <1>4, <1>7, <2>4 DEF WindowIsFaithful, UnhealthyIsEarned
    <2>5. CASE ~over
      <3>1. isAppOk' /\ errorStartedAt' = started /\ errorCount' = count
        BY <1>2, <1>7, <2>5
      <3>2. calls'[Len(calls')].at - errorStartedAt' < BorderTime
        <4>1. now - started < BorderTime
          <5>1. started \in Nat
            BY <1>0, <1>1, <1>7 DEF StartedAt, TypeOK
          <5>. QED BY <1>1, <1>7, <2>5, <5>1 DEF WindowOver
        <4>. QED BY <1>1, <2>2, <3>1, <4>1
      <3>3. i \in DOMAIN calls' /\ OpenWindowFrom(i)'
        BY <1>1, <2>1, <3>1 DEF OpenWindowFrom
      <3>. QED BY <1>4, <3>1, <3>2, <3>3 DEF WindowIsFaithful, UnhealthyIsEarned
    <2>. QED BY <2>3, <2>4, <2>5
  <1>. QED BY <1>0, <1>5, <1>6, <1>7 DEF TypeOK

LEMMA NextIInv == IInv /\ [Next]_vars => IInv'
  <1> SUFFICES ASSUME IInv, [Next]_vars PROVE IInv'
    OBVIOUS
  <1>1. CASE Tick
    <2>1. TypeOK'
      BY <1>1, HealthAssumption DEF IInv, TypeOK, Tick
    <2>2. (WindowIsFaithful /\ UnhealthyIsEarned)'
      BY <1>1 DEF IInv, Tick, WindowIsFaithful, UnhealthyIsEarned, OpenWindowFrom, ErrsBetween
    <2>. QED BY <2>1, <2>2 DEF IInv
  <1>2. ASSUME NEW errs \in 0..MaxBatch, NEW outdated \in BOOLEAN, check(errs, outdated)
        PROVE  IInv'
    <2>1. TypeOK'
      BY <1>2, CheckTypeOK DEF IInv
    <2>2. CheckFlood(errs) \/ CheckWindow(errs)
      BY <1>2 DEF check
    <2>3. (WindowIsFaithful /\ UnhealthyIsEarned)'
      BY <1>2, <2>2, FloodKeepsIInv, WindowKeepsIInv
    <2>. QED BY <2>1, <2>3 DEF IInv
  <1>3. CASE UNCHANGED vars
    <2>1. TypeOK'
      BY <1>3 DEF IInv, TypeOK, vars
    <2>2. (WindowIsFaithful /\ UnhealthyIsEarned)'
      BY <1>3 DEF IInv, vars, WindowIsFaithful, UnhealthyIsEarned, OpenWindowFrom, ErrsBetween
    <2>. QED BY <2>1, <2>2 DEF IInv
  <1>. QED BY <1>1, <1>2, <1>3 DEF Next

(* Every reachable state is well typed, whatever the border and the limit.    *)
THEOREM TypeCorrect == Spec => []TypeOK
  <1>1. IInv => TypeOK
    BY DEF IInv
  <1>. QED BY InitIInv, NextIInv, <1>1, PTL DEF Spec

(* The open window holds exactly the errors reported since the call that      *)
(* opened it (errorCount and errorStartedAt of check agree).                  *)
THEOREM WindowCorrect == Spec => []WindowIsFaithful
  <1>1. IInv => WindowIsFaithful
    BY DEF IInv
  <1>. QED BY InitIInv, NextIInv, <1>1, PTL DEF Spec

(* A bot that reports itself unhealthy has reported MaxCountErrors errors in  *)
(* one call or in a run of calls at least BorderTime long.                    *)
THEOREM VerdictCorrect == Spec => []UnhealthyIsEarned
  <1>1. IInv => UnhealthyIsEarned
    BY DEF IInv
  <1>. QED BY InitIInv, NextIInv, <1>1, PTL DEF Spec
-----------------------------------------------------------------------------
(* The calls come in the order of time, and their errors add up.              *)
CallsAddUp ==
  /\ \A i \in DOMAIN calls : /\ calls[i].at <= now /\ calls[i].total <= Reported
                             /\ calls[i].errs <= calls[i].total
  /\ \A i, j \in DOMAIN calls :
         i < j => calls[i].at <= calls[j].at /\ calls[i].total + calls[j].errs <= calls[j].total
  /\ errorStartedAt # NoTime => errorStartedAt <= now

(* The calls that have closed a window: from each call on, the errors up to   *)
(* the next of them are fewer than the limit, or all are in the open window.  *)
(* The same is so of the errors within BorderTime after a window was closed.  *)
ClosedBy(C) ==
  /\ C \subseteq DOMAIN calls
  /\ \A i \in DOMAIN calls :
         \/ \E k \in C : i <= k /\ ErrsBetween(i, k) < MaxCountErrors
         \/ ErrsBetween(i, Len(calls)) <= errorCount
  /\ \A k \in C, j \in DOMAIN calls :
         k < j /\ calls[j].at - calls[k].at < BorderTime =>
             \/ calls[j].total - calls[k].total < MaxCountErrors
             \/ /\ errorStartedAt # NoTime /\ errorStartedAt <= calls[j].at
                /\ Reported - calls[k].total <= errorCount
  /\ \A k \in C : /\ calls[Len(calls)].at - calls[k].at < BorderTime =>
                         Reported - calls[k].total <= errorCount
                  /\ errorStartedAt # NoTime => calls[k].at <= errorStartedAt
BurstInv == IInv /\ CallsAddUp /\ (isAppOk => \E C : ClosedBy(C))

LEMMA InitBurst == Init => BurstInv
  <1> SUFFICES ASSUME Init PROVE BurstInv
    OBVIOUS
  <1>1. calls = <<>> /\ DOMAIN calls = {} /\ errorStartedAt = NoTime
    BY DEF Init
  <1>2. CallsAddUp
    BY <1>1 DEF CallsAddUp
  <1>3. ClosedBy({})
    BY <1>1 DEF ClosedBy
  <1>. QED BY <1>2, <1>3, InitIInv DEF BurstInv

(* The numbers of the calls before and after one more call, numbered m.       *)
OneMore(n, m, errs) ==
  /\ n \in Nat /\ m \in Nat /\ errs \in Nat /\ now \in Nat /\ now' = now
  /\ DOMAIN calls = 1..n /\ DOMAIN calls' = 1..m /\ Len(calls') = m
  /\ Reported \in Nat /\ Reported' = Reported + errs
  /\ calls'[m].at = now /\ calls'[m].errs = errs /\ calls'[m].total = Reported + errs
  /\ \A i \in 1..n : /\ calls'[i] = calls[i]
                     /\ calls[i].at \in Nat /\ calls[i].errs \in Nat /\ calls[i].total \in Nat
                     /\ i \in Nat /\ i < m /\ i # m /\ i <= n
  /\ m \in 1..m /\ \A i \in 1..m : i = m \/ i \in 1..n
  /\ n # 0 => Reported = calls[n].total /\ n \in 1..n

LEMMA OneMoreCall ==
    ASSUME IInv, CallsAddUp, NEW errs \in 0..MaxBatch, NEW outdated \in BOOLEAN, check(errs, outdated),
           NEW n, n = Len(calls), NEW m, m = n + 1
    PROVE  OneMore(n, m, errs)
  <1>0. TypeOK
    BY DEF IInv
  <1>1. /\ Reported \in Nat /\ n \in Nat /\ DOMAIN calls = 1..n /\ DOMAIN calls' = 1..m /\ Len(calls') = m
        /\ calls'[m] = [at |-> now, errs |-> errs, total |-> Reported + errs]
        /\ \A i \in 1..n : calls'[i] = calls[i] /\ calls[i] \in Call
    BY <1>0, CallAppends
  <1>2. errs \in Nat /\ now \in Nat /\ now' = now /\ m \in Nat
    BY <1>0, <1>1, HealthAssumption DEF TypeOK, check
  <1>3. Reported' = Reported + errs
    BY <1>1, <1>2 DEF Reported
  <1>4. \A i \in 1..n : calls[i].at \in Nat /\ calls[i].errs \in Nat /\ calls[i].total \in Nat
    BY <1>1, HealthAssumption DEF Call
  <1>5. n # 0 => Reported = calls[n].total /\ n \in 1..n
    BY <1>1 DEF Reported
  <1>. QED BY <1>1, <1>2, <1>3, <1>4, <1>5 DEF OneMore

LEMMA CheckAddsUp ==
    ASSUME BurstInv, NEW errs \in 0..MaxBatch, NEW outdated \in BOOLEAN, check(errs, outdated)
    PROVE  CallsAddUp'
  <1>n. PICK n, m : n = Len(calls) /\ m = n + 1
    OBVIOUS
  <1>0. IInv /\ CallsAddUp
    BY DEF BurstInv
  <1>1. /\ n \in Nat /\ m \in Nat /\ errs \in Nat /\ now \in Nat /\ now' = now
        /\ DOMAIN calls = 1..n /\ DOMAIN calls' = 1..m /\ Len(calls') = m
        /\ Reported \in Nat /\ Reported' = Reported + errs
        /\ calls'[m].at = now /\ calls'[m].errs = errs /\ calls'[m].total = Reported + errs
        /\ \A i \in 1..n : /\ calls'[i] = calls[i]
                           /\ calls[i].at \in Nat /\ calls[i].errs \in Nat /\ calls[i].total \in Nat
                           /\ i \in Nat /\ i < m /\ i # m /\ i <= n
        /\ m \in 1..m /\ \A i \in 1..m : i = m \/ i \in 1..n
        /\ n # 0 => Reported = calls[n].total /\ n \in 1..n
    <2>. OneMore(n, m, errs)
      BY <1>0, <1>n, OneMoreCall
    <2>. QED BY DEF OneMore
  <1>2. \A i \in 1..n : /\ calls[i].at <= now /\ calls[i].total <= Reported
                        /\ calls[i].errs <= calls[i].total
    BY <1>0, <1>1 DEF CallsAddUp
  <1>3. ASSUME NEW i \in DOMAIN calls'
        PROVE  /\ calls'[i].at <= now' /\ calls'[i].total <= Reported'
               /\ calls'[i].errs <= calls'[i].total
    <2>1. CASE i = m
      BY <1>1, <2>1
    <2>2. CASE i \in 1..n
      BY <1>1, <1>2, <2>2
    <2>. QED BY <1>1, <2>1, <2>2
  <1>4. ASSUME NEW i \in DOMAIN calls', NEW j \in DOMAIN calls', i < j
        PROVE  calls'[i].at <= calls'[j].at /\ calls'[i].total + calls'[j].errs <= calls'[j].total
    <2>1. i \in 1..n
      BY <1>1, <1>4
    <2>2. CASE j = m
      BY <1>1, <1>2, <2>1, <2>2
    <2>3. CASE j \in 1..n
      BY <1>0, <1>1, <1>4, <2>1, <2>3 DEF CallsAddUp
    <2>. QED BY <1>1, <2>2, <2>3
  <1>5. errorStartedAt' # NoTime => errorStartedAt' <= now'
    BY <1>0, <1>1 DEF CallsAddUp, check, CheckFlood, CheckWindow, StartedAt
  <1>. QED BY <1>3, <1>4, <1>5 DEF CallsAddUp

(* A call that is not judged adds its errors to the open window; one that     *)
(* closes the window finds fewer errors in it than the limit.                 *)
LEMMA CheckCloses ==
    ASSUME BurstInv, NEW errs \in 0..MaxBatch, NEW outdated \in BOOLEAN, check(errs, outdated), isAppOk'
    PROVE  \E C : ClosedBy(C)'
  <1>n. PICK n, m : n = Len(calls) /\ m = n + 1
    OBVIOUS
  <1>0. IInv /\ CallsAddUp
    BY DEF BurstInv
  <1>1. /\ n \in Nat /\ m \in Nat /\ errs \in Nat /\ now \in Nat /\ now' = now
        /\ DOMAIN calls = 1..n /\ DOMAIN calls' = 1..m /\ Len(calls') = m
        /\ Reported \in Nat /\ Reported' = Reported + errs
        /\ calls'[m].at = now /\ calls'[m].errs = errs /\ calls'[m].total = Reported + errs
        /\ \A i \in 1..n : /\ calls'[i] = calls[i]
                           /\ calls[i].at \in Nat /\ calls[i].errs \in Nat /\ calls[i].total \in Nat
                           /\ i \in Nat /\ i < m /\ i # m /\ i <= n
        /\ m \in 1..m /\ \A i \in 1..m : i = m \/ i \in 1..n
        /\ n # 0 => Reported = calls[n].total /\ n \in 1..n
    <2>. OneMore(n, m, errs)
      BY <1>0, <1>n, OneMoreCall
    <2>. QED BY DEF OneMore
  <1>2. \A i \in 1..n : /\ calls[i].at <= now /\ calls[i].total <= Reported /\ calls[i].at <= calls[n].at
    <2>1. \A i \in 1..n : i = n \/ (i < n /\ n \in 1..n)
      BY <1>1
    <2>2. \A i \in 1..n : calls[i].at <= now /\ calls[i].total <= Reported
      BY <1>0, <1>1 DEF CallsAddUp
    <2>3. \A i \in 1..n : i < n /\ n \in 1..n => calls[i].at <= calls[n].at
      BY <1>0, <1>1 DEF CallsAddUp
    <2>4. \A i \in 1..n : i = n => calls[i].at <= calls[n].at
      BY <1>1
    <2>. QED BY <2>1, <2>2, <2>3, <2>4
  <1> DEFINE started == StartedAt(errs)
             count == errorCount + errs
             over == WindowOver(started)
  <1>3. CheckWindow(errs) /\ isAppOk
    BY <1>0 DEF check, CheckFlood, CheckWindow, IInv, TypeOK
  <1>4. /\ IF over THEN count < MaxCountErrors /\ errorCount' = 0 /\ errorStartedAt' = NoTime
                   ELSE errorCount' = count /\ errorStartedAt' = started
        /\ count \in Nat /\ errorCount \in Nat /\ MaxCountErrors \in Nat /\ MaxCountErrors > 0
        /\ BorderTime \in Nat /\ BorderTime > 0
    <2>1. ~(over /\ LimitReached(count))
      BY <1>3 DEF CheckWindow
    <2>2. IF over THEN errorCount' = 0 /\ errorStartedAt' = NoTime
                  ELSE errorCount' = count /\ errorStartedAt' = started
      BY <1>3, <2>1 DEF CheckWindow
    <2>3. count \in Nat /\ errorCount \in Nat /\ MaxCountErrors \in Nat /\ MaxCountErrors > 0
          /\ BorderTime \in Nat /\ BorderTime > 0
      BY <1>0, <1>1, HealthAssumption DEF IInv, TypeOK
    <2>. QED BY <2>1, <2>2, <2>3 DEF LimitReached
  <1>5. /\ started # NoTime => started \in Nat /\ started <= now
        /\ errorStartedAt # NoTime => started = errorStartedAt /\ errorStartedAt \in Nat
        /\ started = NoTime => count = 0
        /\ errorStartedAt = NoTime /\ started # NoTime => started = now
    <2>1. errorStartedAt # NoTime => errorStartedAt \in Nat /\ errorStartedAt <= now
      BY <1>0, HealthAssumption DEF IInv, TypeOK, CallsAddUp
    <2>2. errorStartedAt = NoTime => errorCount = 0
      BY <1>0 DEF IInv, WindowIsFaithful
    <2>3. NoTime \notin Nat
      BY HealthAssumption
    <2>4. CASE errorStartedAt # NoTime
      <3>1. started = errorStartedAt
        BY <2>4 DEF StartedAt
      <3>. QED BY <2>1, <2>4, <3>1
    <2>5. CASE errorStartedAt = NoTime /\ errs > 0
      <3>1. started = now
        BY <2>5 DEF StartedAt
      <3>. QED BY <1>1, <2>3, <2>5, <3>1
    <2>6. CASE errorStartedAt = NoTime /\ ~(errs > 0)
      <3>1. started = NoTime
        BY <2>6 DEF StartedAt
      <3>2. count = 0
        BY <1>1, <1>4, <2>2, <2>6
      <3>. QED BY <2>6, <3>1, <3>2
    <2>. QED BY <2>4, <2>5, <2>6
  <1>6. over = (started # NoTime /\ now - started >= BorderTime)
    BY DEF WindowOver
  <1>7. PICK C : ClosedBy(C)
    BY <1>3 DEF BurstInv
  <1>8. /\ C \subseteq 1..n
        /\ \A i \in 1..n : (\E k \in C : i <= k /\ ErrsBetween(i, k) < MaxCountErrors)
                           \/ ErrsBetween(i, n) <= errorCount
        /\ \A k \in C, j \in 1..n :
               k < j /\ calls[j].at - calls[k].at < BorderTime =>
                   \/ calls[j].total - calls[k].total < MaxCountErrors
                   \/ /\ errorStartedAt # NoTime /\ errorStartedAt <= calls[j].at
                      /\ Reported - calls[k].total <= errorCount
        /\ \A k \in C : /\ calls[n].at - calls[k].at < BorderTime => Reported - calls[k].total <= errorCount
                        /\ errorStartedAt # NoTime => calls[k].at <= errorStartedAt
    BY <1>1, <1>7, <1>n DEF ClosedBy
  <1> HIDE DEF started, count, over
  <1>9. /\ ErrsBetween(m, m)' = errs
        /\ \A i \in 1..n : /\ ErrsBetween(i, m)' = ErrsBetween(i, n) + errs /\ ErrsBetween(i, n) \in Int
                           /\ \A j \in 1..n : ErrsBetween(i, j)' = ErrsBetween(i, j)
    <2>1. \A i \in 1..n : ErrsBetween(i, n) \in Int
      BY <1>1 DEF ErrsBetween
    <2>. QED BY <1>0, <1>n, <2>1, ErrsGrow DEF IInv
  (* Since a window was closed within BorderTime, all errors are in the open  *)
  (* one.                                                                     *)
  <1>10. ASSUME NEW k \in C, now - calls[k].at < BorderTime
         PROVE  ~over /\ Reported + errs - calls[k].total <= count
    <2>1. k \in 1..n /\ n # 0
      BY <1>1, <1>8
    <2>2. calls[n].at - calls[k].at < BorderTime
      BY <1>1, <1>2, <1>4, <1>10, <2>1
    <2>3. Reported - calls[k].total <= errorCount
      BY <1>8, <2>2
    <2>4. Reported + errs - calls[k].total <= count
      BY <1>1, <1>4, <2>1, <2>3 DEF count
    <2>5. started # NoTime => now - started < BorderTime
      <3>1. CASE errorStartedAt # NoTime
        <4>1. calls[k].at <= started /\ started \in Nat
          BY <1>5, <1>8, <3>1
        <4>. QED BY <1>1, <1>4, <1>10, <2>1, <4>1
      <3>2. CASE errorStartedAt = NoTime
        BY <1>1, <1>4, <1>5, <3>2
      <3>. QED BY <3>1, <3>2
    <2>6. ~over
      <3>1. CASE started = NoTime
        BY <1>6, <3>1
      <3>2. CASE started # NoTime
        <4>1. started \in Nat /\ now - started < BorderTime
          BY <1>5, <2>5, <3>2
        <4>2. ~(now - started >= BorderTime)
          BY <1>1, <1>4, <4>1
        <4>. QED BY <1>6, <4>2
      <3>. QED BY <3>1, <3>2
    <2>. QED BY <2>4, <2>6
  <1>11. CASE ~over
    <2>1. errorCount' = count /\ errorStartedAt' = started
      BY <1>4, <1>11
    <2>2. ASSUME NEW i \in 1..m
          PROVE  (\E k \in C : i <= k /\ ErrsBetween(i, k)' < MaxCountErrors) \/ ErrsBetween(i, m)' <= count
      <3>1. CASE i = m
        BY <1>1, <1>4, <1>9, <3>1 DEF count
      <3>2. CASE i \in 1..n
        <4>1. CASE ErrsBetween(i, n) <= errorCount
          BY <1>1, <1>4, <1>9, <3>2, <4>1 DEF count
        <4>2. CASE \E k \in C : i <= k /\ ErrsBetween(i, k) < MaxCountErrors
          BY <1>8, <1>9, <3>2, <4>2
        <4>. QED BY <1>8, <3>2, <4>1, <4>2
      <3>. QED BY <1>1, <3>1, <3>2
    <2>3. ASSUME NEW k \in C, NEW j \in 1..m, k < j, calls'[j].at - calls'[k].at < BorderTime
          PROVE  \/ calls'[j].total - calls'[k].total < MaxCountErrors
                 \/ /\ started # NoTime /\ started <= calls'[j].at
                    /\ Reported' - calls'[k].total <= count
      <3>1. k \in 1..n /\ calls'[k] = calls[k]
        BY <1>1, <1>8
      <3>2. CASE j = m
        <4>1. Reported + errs - calls[k].total <= count
          BY <1>1, <1>10, <2>3, <3>1, <3>2
        <4>2. CASE started # NoTime
          BY <1>1, <1>5, <3>1, <3>2, <4>1, <4>2
        <4>3. CASE started = NoTime
          BY <1>1, <1>4, <1>5, <3>1, <3>2, <4>1, <4>3
        <4>. QED BY <4>2, <4>3
      <3>3. CASE j \in 1..n
        <4>1. \/ calls[j].total - calls[k].total < MaxCountErrors
              \/ /\ errorStartedAt # NoTime /\ errorStartedAt <= calls[j].at
                 /\ Reported - calls[k].total <= errorCount
          BY <1>1, <1>8, <2>3, <3>1, <3>3
        <4>2. CASE /\ errorStartedAt # NoTime /\ errorStartedAt <= calls[j].at
                   /\ Reported - calls[k].total <= errorCount
          <5>1. Reported' - calls[k].total <= count
            BY <1>1, <1>4, <3>1, <4>2 DEF count
          <5>. QED BY <1>1, <1>5, <3>1, <3>3, <4>2, <5>1
        <4>. QED BY <1>1, <3>1, <3>3, <4>1, <4>2
      <3>. QED BY <1>1, <3>2, <3>3
    <2>4. ASSUME NEW k \in C
          PROVE  /\ calls'[m].at - calls'[k].at < BorderTime => Reported' - calls'[k].total <= count
                 /\ started # NoTime => calls'[k].at <= started
      <3>1. k \in 1..n /\ calls'[k] = calls[k]
        BY <1>1, <1>8
      <3>. QED BY <1>1, <1>2, <1>5, <1>8, <1>10, <3>1
    <2>5. C \subseteq 1..m
      BY <1>1, <1>8
    <2>6. ClosedBy(C)'
      BY <1>1, <2>1, <2>2, <2>3, <2>4, <2>5 DEF ClosedBy
    <2>. QED BY <2>6
  <1>12. CASE over
    <2>1. errorCount' = 0 /\ errorStartedAt' = NoTime /\ count < MaxCountErrors
      BY <1>4, <1>12
    <2>2. PICK D : D = C \union {m}
      OBVIOUS
    <2>3. ASSUME NEW i \in 1..m
          PROVE  \E k \in D : i <= k /\ ErrsBetween(i, k)' < MaxCountErrors
      <3>1. CASE i = m
        BY <1>1, <1>4, <1>9, <2>1, <2>2, <3>1 DEF count
      <3>2. CASE i \in 1..n
        <4>1. CASE ErrsBetween(i, n) <= errorCount
          <5>1. ErrsBetween(i, m)' < MaxCountErrors /\ i <= m /\ m \in D
            BY <1>1, <1>4, <1>9, <2>1, <2>2, <3>2, <4>1 DEF count
          <5>. QED BY <5>1
        <4>2. CASE \E k \in C : i <= k /\ ErrsBetween(i, k) < MaxCountErrors
          BY <1>8, <1>9, <2>2, <3>2, <4>2
        <4>. QED BY <1>8, <3>2, <4>1, <4>2
      <3>. QED BY <1>1, <3>1, <3>2
    <2>4. ASSUME NEW k \in D, NEW j \in 1..m, k < j, calls'[j].at - calls'[k].at < BorderTime
          PROVE  calls'[j].total - calls'[k].total < MaxCountErrors
      <3>0. k # m
        BY <1>1, <2>4
      <3>1. k \in C /\ k \in 1..n /\ calls'[k] = calls[k]
        BY <1>1, <1>8, <2>2, <3>0
      <3>2. CASE j = m
        BY <1>1, <1>10, <1>12, <2>4, <3>1, <3>2
      <3>3. CASE j \in 1..n
        <4>1. \/ calls[j].total - calls[k].total < MaxCountErrors
              \/ Reported - calls[k].total <= errorCount
          BY <1>1, <1>8, <2>4, <3>1, <3>3
        <4>2. CASE Reported - calls[k].total <= errorCount
          <5>1. calls[j].total - calls[k].total <= count
            BY <1>1, <1>2, <1>4, <3>1, <3>3, <4>2, SMTT(30) DEF count
          <5>. QED BY <1>1, <1>4, <2>1, <3>1, <3>3, <5>1
        <4>. QED BY <1>1, <3>1, <3>3, <4>1, <4>2
      <3>. QED BY <1>1, <3>2, <3>3
    <2>5. ASSUME NEW k \in D
          PROVE  calls'[m].at - calls'[k].at < BorderTime => Reported' - calls'[k].total <= 0
      <3>1. CASE k = m
        BY <1>1, <3>1
      <3>2. CASE k \in C
        <4>1. k \in 1..n /\ calls'[k] = calls[k]
          BY <1>1, <1>8, <3>2
        <4>. QED BY <1>1, <1>10, <1>12, <3>2, <4>1
      <3>. QED BY <2>2, <3>1, <3>2
    <2>6. D \subseteq 1..m
      <3>1. 1..n \subseteq 1..m
        BY <1>1
      <3>. QED BY <1>1, <1>8, <2>2, <3>1
    <2>7. ClosedBy(D)'
      BY <1>1, <2>1, <2>3, <2>4, <2>5, <2>6 DEF ClosedBy
    <2>. QED BY <2>7
  <1>. QED BY <1>11, <1>12

LEMMA NextBurst == BurstInv /\ [Next]_vars => BurstInv'
  <1> SUFFICES ASSUME BurstInv, [Next]_vars PROVE CallsAddUp' /\ (isAppOk' => \E C : ClosedBy(C)')
    BY NextIInv DEF BurstInv
  <1>1. ASSUME UNCHANGED <<errorCount, errorStartedAt, isAppOk, calls>>, now' \in Nat, now <= now'
        PROVE  CallsAddUp' /\ (isAppOk' => \E C : ClosedBy(C)')
    <2>1. CallsAddUp'
      <3>1. now \in Nat /\ \A i \in DOMAIN calls : calls[i].at \in Nat
        <4>1. \A i \in DOMAIN calls : calls[i] \in Call
          BY DEF BurstInv, IInv, TypeOK
        <4>. QED BY <4>1, HealthAssumption DEF BurstInv, IInv, TypeOK, Call
      <3>2. errorStartedAt # NoTime => errorStartedAt \in Nat
        BY HealthAssumption DEF BurstInv, IInv, TypeOK
      <3>. QED BY <1>1, <3>1, <3>2 DEF BurstInv, CallsAddUp, Reported
    <2>2. \A C : ClosedBy(C) => ClosedBy(C)'
      BY <1>1 DEF ClosedBy, ErrsBetween, Reported
    <2>. QED BY <1>1, <2>1, <2>2 DEF BurstInv
  <1>2. now \in Nat
    BY HealthAssumption DEF BurstInv, IInv, TypeOK
  <1>3. CASE UNCHANGED vars
    BY <1>1, <1>2, <1>3 DEF vars
  <1>4. CASE Tick
    BY <1>1, <1>2, <1>4 DEF Tick
  <1>5. CASE \E errs \in 0..MaxBatch, outdated \in BOOLEAN : check(errs, outdated)
    BY <1>5, CheckAddsUp, CheckCloses
  <1>. QED BY <1>3, <1>4, <1>5 DEF Next

(* The errors up to j are none when all errors from i on are in the open      *)
(* window, which begins after j.                                              *)
LEMMA OpenSums ==
    ASSUME NEW it \in Nat, NEW ie \in Nat, NEW jt \in Nat, NEW nt \in Nat, NEW st \in Nat, NEW se \in Nat,
           nt - it + ie <= nt - st + se, jt + se <= st
    PROVE  jt - it + ie <= 0
  OBVIOUS

(* The sums of the first two cases below, as numbers.                             *)
LEMMA Sums ==
    ASSUME NEW m \in Nat, m > 0, NEW e \in Nat, NEW it \in Nat, NEW jt \in Nat, NEW kt \in Nat
    PROVE  /\ kt - it + e < m /\ jt <= kt => jt - it + e <= 2 * (m - 1)
           /\ kt - it + e < m /\ jt - kt < m => jt - it + e <= 2 * (m - 1)
  <1>1. 2 * (m - 1) = (m - 1) + (m - 1)
    OBVIOUS
  <1>. QED BY <1>1

(* A burst shorter than BorderTime lies in two windows at most: the second    *)
(* one starts within the burst and cannot be over before it ends.  Both have  *)
(* been closed, each with fewer errors than the limit.                        *)
THEOREM BurstCorrect == Spec => []BurstIsNoticed
  <1>1. BurstInv => BurstIsNoticed
    <2> SUFFICES ASSUME BurstInv, isAppOk, NEW i \in DOMAIN calls, NEW j \in DOMAIN calls, i <= j,
                        calls[j].at - calls[i].at < BorderTime,
                        calls[Len(calls)].at >= calls[j].at + BorderTime
                 PROVE  ErrsBetween(i, j) <= 2 * (MaxCountErrors - 1)
      BY DEF BurstIsNoticed
    <2>1. PICK C : ClosedBy(C)
      BY DEF BurstInv
    <2>2. PICK n \in Nat : n = Len(calls) /\ DOMAIN calls = 1..n
      BY DEF BurstInv, IInv, TypeOK
    <2>3. /\ \A k \in 1..n : calls[k].at \in Nat /\ calls[k].errs \in Nat /\ calls[k].total \in Nat
          /\ errorCount \in Nat /\ MaxCountErrors \in Nat /\ MaxCountErrors > 0
          /\ BorderTime \in Nat /\ BorderTime > 0
          /\ errorStartedAt # NoTime => errorStartedAt \in Nat
      <3>1. \A k \in 1..n : calls[k] \in Call
        BY <2>2 DEF BurstInv, IInv, TypeOK
      <3>2. \A k \in 1..n : calls[k].at \in Nat /\ calls[k].errs \in Nat /\ calls[k].total \in Nat
        BY <3>1, HealthAssumption DEF Call
      <3>3. errorCount \in Nat /\ (errorStartedAt # NoTime => errorStartedAt \in Nat)
        BY HealthAssumption DEF BurstInv, IInv, TypeOK
      <3>. QED BY <3>2, <3>3, HealthAssumption
    <2>4. n \in 1..n /\ i \in 1..n /\ j \in 1..n
      BY <2>2
    <2>5. \A a, b \in 1..n : a <= b => calls[a].at <= calls[b].at /\ calls[a].total <= calls[b].total
      <3>1. \A a, b \in 1..n : a < b => calls[a].at <= calls[b].at
                                        /\ calls[a].total + calls[b].errs <= calls[b].total
        BY <2>2 DEF BurstInv, CallsAddUp
      <3>2. ASSUME NEW a \in 1..n, NEW b \in 1..n, a <= b
            PROVE  calls[a].at <= calls[b].at /\ calls[a].total <= calls[b].total
        <4>1. CASE a = b
          BY <2>3, <4>1
        <4>2. CASE a < b
          <5>1. calls[a].at <= calls[b].at /\ calls[a].total + calls[b].errs <= calls[b].total
            BY <3>1, <4>2
          <5>2. calls[a].total \in Nat /\ calls[b].errs \in Nat /\ calls[b].total \in Nat
            BY <2>3
          <5>. QED BY <5>1, <5>2
        <4>. QED BY <3>2, <4>1, <4>2
      <3>. QED BY <3>2
    <2>6. /\ errorStartedAt = NoTime => errorCount = 0
          /\ errorStartedAt # NoTime => /\ \E s \in 1..n : OpenWindowFrom(s)
                                        /\ calls[n].at - errorStartedAt < BorderTime
      BY <2>2 DEF BurstInv, IInv, WindowIsFaithful
    <2>a. /\ MaxCountErrors \in Nat /\ MaxCountErrors > 0 /\ errorCount \in Nat
          /\ calls[i].errs \in Nat /\ calls[i].total \in Nat
          /\ calls[j].errs \in Nat /\ calls[j].total \in Nat
          /\ calls[n].total \in Nat
      BY <2>3, <2>4
    <2>7. CASE \E k \in C : i <= k /\ ErrsBetween(i, k) < MaxCountErrors
      <3>1. PICK k \in C : i <= k /\ ErrsBetween(i, k) < MaxCountErrors
        BY <2>7
      <3>2. k \in 1..n /\ calls[k].total \in Nat
        BY <2>1, <2>2, <2>3 DEF ClosedBy
      <3>3. CASE j <= k
        <4>1. calls[j].total <= calls[k].total
          BY <2>4, <2>5, <3>2, <3>3
        <4>. QED BY <2>a, <3>1, <3>2, <4>1, Sums DEF ErrsBetween
      <3>4. CASE k < j
        <4>1. calls[j].at - calls[k].at < BorderTime
          <5>1. calls[i].at <= calls[k].at
            BY <2>4, <2>5, <3>1, <3>2
          <5>. QED BY <2>3, <2>4, <3>2, <5>1, SMTT(30)
        <4>2. \/ calls[j].total - calls[k].total < MaxCountErrors
              \/ errorStartedAt # NoTime /\ errorStartedAt <= calls[j].at
          BY <2>1, <3>4, <4>1 DEF ClosedBy
        <4>3. ~(errorStartedAt # NoTime /\ errorStartedAt <= calls[j].at)
          BY <2>2, <2>3, <2>4, <2>6
        <4>. QED BY <2>a, <3>1, <3>2, <4>2, <4>3, Sums DEF ErrsBetween
      <3>. QED BY <2>4, <3>2, <3>3, <3>4
    <2>8. CASE ErrsBetween(i, n) <= errorCount
      <3>1. CASE errorStartedAt = NoTime
        <4>1. calls[j].total <= calls[n].total
          BY <2>4, <2>5
        <4>. QED BY <2>a, <2>6, <2>8, <3>1, <4>1 DEF ErrsBetween
      <3>2. CASE errorStartedAt # NoTime
        <4>1. PICK s \in 1..n : calls[s].at = errorStartedAt /\ ErrsBetween(s, n) = errorCount
          BY <2>2, <2>6, <3>2 DEF OpenWindowFrom
        <4>2. ~(s <= j)
          <5>1. calls[s].at > calls[j].at
            BY <2>2, <2>3, <2>4, <2>6, <3>2, <4>1
          <5>. QED BY <2>3, <2>4, <2>5, <5>1
        <4>3. j < s
          BY <2>4, <4>2
        <4>4. /\ calls[j].total + calls[s].errs <= calls[s].total
              /\ calls[s].errs \in Nat /\ calls[s].total \in Nat
          BY <2>2, <2>3, <2>4, <4>3 DEF BurstInv, CallsAddUp
        <4>5. calls[n].total - calls[i].total + calls[i].errs <= calls[n].total - calls[s].total + calls[s].errs
          BY <2>8, <4>1 DEF ErrsBetween
        <4>6. ErrsBetween(i, j) = calls[j].total - calls[i].total + calls[i].errs
          BY DEF ErrsBetween
        <4>7. ErrsBetween(i, j) <= 0 /\ ErrsBetween(i, j) \in Int
          <5>1. calls[j].total - calls[i].total + calls[i].errs <= 0
            BY <2>a, <4>4, <4>5, OpenSums
          <5>. QED BY <2>a, <4>6, <5>1
        <4>8. 2 * (MaxCountErrors - 1) \in Nat
          BY <2>a
        <4>. QED BY <4>7, <4>8
      <3>. QED BY <3>1, <3>2
    <2>. QED BY <2>1, <2>2, <2>7, <2>8 DEF ClosedBy
  <1>. QED BY <1>1, InitBurst, NextBurst, PTL DEF Spec
-----------------------------------------------------------------------------
(* The handlers.  The findings of a life of the process, and the block that   *)
(* reports, or is about to report, one of them.                               *)
Kinds == {"launched", "sealWarning"}
StartOf(n) == {<<k, n>> : k \in Kinds}

HasStart(b, n) ==
  \/ answered[b] \intersect StartOf(n) # {}
  \/ \E c \in Calls : call[c].block = b /\ call[c].findings \intersect StartOf(n) # {}

(* While the array is shared nobody has taken from it, and BlockHandler's own *)
(* array stays empty: so the findings of a life go to one block.  No finding  *)
(* is ever of a life to come.                                                 *)
TakenOnce ==
  /\ onAppStartFindings = {}
  /\ onAppFindings \subseteq StartOf(life)
  /\ \A b \in 1..MaxBlocks :
        /\ shared => ~HasStart(b, life)
        /\ \A n \in 1..MaxLives : n > life => ~HasStart(b, n)
  /\ \A n \in 1..MaxLives, b1, b2 \in 1..MaxBlocks :
        HasStart(b1, n) /\ HasStart(b2, n) => b1 = b2

CallsHaveBlocks ==
  \A c \in Calls : /\ call[c] = Handlers!Closed \/ call[c].block \in 1..MaxBlocks
                   /\ call[c].results \intersect Handlers!StartFinding = {}

HandlersInv == Handlers!TypeOK /\ CallsHaveBlocks /\ TakenOnce

OpenCall == [at : {"closed", "latest", "services", "statistics"}, block : 0..MaxBlocks,
             findings : SUBSET Handlers!Finding, results : SUBSET Handlers!Finding]

LEMMA Blocks == /\ MaxBlocks \in Nat /\ MaxInits \in Nat /\ MaxLives \in Nat /\ MaxLives > 0
                /\ Kinds \intersect Services = {}
  BY HandlersHaveBounds DEF Handlers!HandlersAssumption, Kinds

(* A finding is one of a start when its author is, and then it is of one life.*)
LEMMA Starts ==
    ASSUME NEW a, NEW n
    PROVE  /\ Handlers!StartFinding = Kinds \X (1..MaxLives)
           /\ n \in 1..MaxLives => StartOf(n) \subseteq Handlers!StartFinding
           /\ Handlers!Launched(n) \in StartOf(n) /\ Handlers!SealWarning(n) \in StartOf(n)
           /\ \A f \in Handlers!StartFinding : f[2] \in 1..MaxLives /\ f \in StartOf(f[2])
           /\ a \notin Kinds => <<a, n>> \notin Handlers!StartFinding
           /\ \A m : m # n => StartOf(n) \intersect StartOf(m) = {}
  BY DEF Handlers!StartFinding, StartOf, Handlers!Launched, Handlers!SealWarning, Kinds

(* The same in the next state.                                                *)
LEMMA StartsPrimed == Handlers!StartFinding' = Handlers!StartFinding
  BY DEF Handlers!StartFinding

LEMMA HandlersInit == Handlers!Init => HandlersInv
  <1> SUFFICES ASSUME Handlers!Init PROVE HandlersInv
    OBVIOUS
  <1>1. /\ Handlers!Closed \in OpenCall /\ Handlers!Closed.findings = {} /\ Handlers!Closed.results = {}
        /\ Handlers!Closed.block = 0
    BY Blocks DEF OpenCall, Handlers!Closed
  <1>2. \A c \in Calls : call[c] = Handlers!Closed
    BY DEF Handlers!Init
  <1>3. Handlers!TypeOK
    <2>1. call \in [Calls -> OpenCall]
      BY <1>1 DEF Handlers!Init
    <2>2. answered \in [1..MaxBlocks -> SUBSET Handlers!Finding]
      BY DEF Handlers!Init
    <2>3. bound \in BOOLEAN /\ shared \in BOOLEAN
      BY DEF Handlers!Init
    <2>4. onAppFindings = {} /\ onAppStartFindings = {} /\ computed = {} /\ done = {}
      BY DEF Handlers!Init
    <2>5. inits \in 0..MaxInits /\ blocks \in 0..MaxBlocks /\ init = "none" /\ life \in 1..MaxLives
      BY Blocks DEF Handlers!Init
    <2>. QED BY <2>1, <2>2, <2>3, <2>4, <2>5 DEF Handlers!TypeOK, OpenCall
  <1>4. CallsHaveBlocks
    BY <1>1, <1>2 DEF CallsHaveBlocks
  <1>5. \A b \in 1..MaxBlocks, n \in 1..MaxLives : ~HasStart(b, n)
    BY <1>1, <1>2 DEF HasStart, Handlers!Init
  <1>6. TakenOnce
    BY <1>3, <1>5 DEF TakenOnce, Handlers!Init, Handlers!TypeOK
  <1>. QED BY <1>3, <1>4, <1>6 DEF HandlersInv

(* A step that gives no block a finding of a start keeps TakenOnce.           *)
LEMMA NothingTaken ==
    ASSUME TakenOnce, onAppStartFindings' = {}, onAppFindings' \subseteq StartOf(life'),
           life \in 1..MaxLives, life' \in 1..MaxLives,
           \/ life' = life /\ (shared' => shared)
           \/ life' = life + 1,
           \A b \in 1..MaxBlocks, n \in 1..MaxLives : HasStart(b, n)' => HasStart(b, n)
    PROVE  TakenOnce'
  <1>1. life' >= life
    BY Blocks
  <1>2. \A b \in 1..MaxBlocks :
          /\ shared' => ~HasStart(b, life)'
          /\ \A n \in 1..MaxLives : n > life' => ~HasStart(b, n)'
    <2> SUFFICES ASSUME NEW b \in 1..MaxBlocks
                 PROVE  /\ shared' => ~HasStart(b, life)'
                        /\ \A n \in 1..MaxLives : n > life' => ~HasStart(b, n)'
      OBVIOUS
    <2>1. \A n \in 1..MaxLives : n > life' => ~HasStart(b, n)'
      BY <1>1, Blocks DEF TakenOnce
    <2>2. \A n \in 1..MaxLives : n = life' /\ shared' => ~HasStart(b, n)
      BY Blocks DEF TakenOnce
    <2>3. ASSUME NEW n \in 1..MaxLives, n = life', shared' PROVE ~HasStart(b, life)'
      BY <2>2, <2>3 DEF HasStart
    <2>. QED BY <2>1, <2>3
  <1>3. \A n \in 1..MaxLives, b1, b2 \in 1..MaxBlocks :
          HasStart(b1, n)' /\ HasStart(b2, n)' => b1 = b2
    BY DEF TakenOnce
  <1>. QED BY <1>2, <1>3 DEF TakenOnce

(* A call after a step that changes it alone.                                 *)
LEMMA CallStep ==
    ASSUME HandlersInv, NEW c \in Calls, NEW r \in OpenCall, call' = [call EXCEPT ![c] = r],
           r = Handlers!Closed \/ r.block \in 1..MaxBlocks, r.results \intersect Handlers!StartFinding = {}
    PROVE  /\ call' \in [Calls -> OpenCall] /\ call'[c] = r
           /\ \A d \in Calls : d # c => call'[d] = call[d]
           /\ CallsHaveBlocks'
  <1>1. call \in [Calls -> OpenCall]
    BY DEF HandlersInv, Handlers!TypeOK, OpenCall
  <1>2. call' \in [Calls -> OpenCall] /\ call'[c] = r /\ \A d \in Calls : d # c => call'[d] = call[d]
    BY <1>1
  <1>3. \A d \in Calls : /\ call'[d] = Handlers!Closed \/ call'[d].block \in 1..MaxBlocks
                         /\ call'[d].results \intersect Handlers!StartFinding = {}
    BY <1>2 DEF HandlersInv, CallsHaveBlocks
  <1>. QED BY <1>2, <1>3, StartsPrimed DEF CallsHaveBlocks, Handlers!Closed

(* What the calls have does not change with the steps of the start.           *)
LEMMA StartSteps ==
    ASSUME HandlersInv,
           \/ Handlers!main \/ Handlers!handleInit \/ Handlers!withdrawalsInitialized
           \/ Handlers!poolBalanceInitialized \/ UNCHANGED Handlers!vars
    PROVE  HandlersInv'
  <1>1. UNCHANGED <<life, onAppStartFindings, shared, blocks, call, computed, answered, done>>
    BY DEF Handlers!main, Handlers!handleInit, Handlers!withdrawalsInitialized,
           Handlers!poolBalanceInitialized, Handlers!vars, Handlers!arrays, Handlers!starting,
           Handlers!history
  <1>2. bound' \in BOOLEAN /\ onAppFindings' \subseteq StartOf(life)
    <2>1. onAppFindings \subseteq StartOf(life) /\ bound \in BOOLEAN
      BY DEF HandlersInv, TakenOnce, Handlers!TypeOK
    <2>2. bound' \in BOOLEAN
      BY <2>1 DEF Handlers!main, Handlers!handleInit, Handlers!withdrawalsInitialized,
         Handlers!poolBalanceInitialized, Handlers!vars, Handlers!arrays, Handlers!starting,
           Handlers!history
    <2>3. \/ onAppFindings' \subseteq {Handlers!SealWarning(life)}
          \/ onAppFindings' = onAppFindings
          \/ onAppFindings' = onAppFindings \union {Handlers!Launched(life)}
      BY DEF Handlers!main, Handlers!handleInit, Handlers!withdrawalsInitialized,
             Handlers!poolBalanceInitialized, Handlers!vars, Handlers!arrays, Handlers!starting,
           Handlers!history
    <2>4. Handlers!SealWarning(life) \in StartOf(life) /\ Handlers!Launched(life) \in StartOf(life)
      BY Starts
    <2>. QED BY <2>1, <2>2, <2>3, <2>4, Zenon
  <1>3. init' \in {"none", "withdrawals", "poolBalance", "error", "success"}
    BY DEF HandlersInv, Handlers!TypeOK, Handlers!main, Handlers!handleInit,
           Handlers!withdrawalsInitialized, Handlers!poolBalanceInitialized, Handlers!vars, Handlers!arrays, Handlers!starting,
           Handlers!history
  <1>4. inits' \in 0..MaxInits
    BY Blocks DEF HandlersInv, Handlers!TypeOK, Handlers!main, Handlers!handleInit,
           Handlers!withdrawalsInitialized, Handlers!poolBalanceInitialized, Handlers!vars, Handlers!arrays, Handlers!starting,
           Handlers!history
  <1>5. Handlers!TypeOK'
    <2>1. StartOf(life) \subseteq Handlers!StartFinding
      BY Starts DEF HandlersInv, Handlers!TypeOK
    <2>. QED BY <1>1, <1>2, <1>3, <1>4, <2>1, StartsPrimed DEF HandlersInv, Handlers!TypeOK
  <1>6. CallsHaveBlocks'
    BY <1>1, StartsPrimed DEF HandlersInv, CallsHaveBlocks
  <1>7. TakenOnce'
    BY <1>1, <1>2, NothingTaken DEF HandlersInv, TakenOnce, HasStart, Handlers!TypeOK
  <1>. QED BY <1>5, <1>6, <1>7 DEF HandlersInv

LEMMA BlockStep ==
    ASSUME HandlersInv, NEW c \in Calls, Handlers!handleBlock(c)
    PROVE  HandlersInv'
  <1> DEFINE r == [Handlers!Closed EXCEPT !.at = "latest", !.block = blocks + 1]
  <1>0. /\ call' = [call EXCEPT ![c] = r] /\ blocks' = blocks + 1 /\ blocks + 1 \in 1..MaxBlocks
        /\ UNCHANGED <<life, bound, onAppFindings, onAppStartFindings, shared, init, inits, computed, answered, done>>
    BY Blocks DEF Handlers!handleBlock, HandlersInv, Handlers!TypeOK, Handlers!arrays,
       Handlers!starting, Handlers!history
  <1>1. r \in OpenCall /\ r.block = blocks + 1 /\ r.findings = {} /\ r.results = {}
    <2>1. Handlers!Closed \in OpenCall /\ Handlers!Closed.findings = {} /\ Handlers!Closed.results = {}
      BY Blocks DEF OpenCall, Handlers!Closed
    <2>2. blocks + 1 \in 0..MaxBlocks
      BY <1>0, Blocks
    <2>3. r \in OpenCall
      BY <2>1, <2>2 DEF OpenCall
    <2>4. r.block = blocks + 1 /\ r.findings = Handlers!Closed.findings /\ r.results = Handlers!Closed.results
      BY <2>1 DEF OpenCall
    <2>. QED BY <2>1, <2>3, <2>4
  <1> HIDE DEF r
  <1>2. /\ call' \in [Calls -> OpenCall] /\ call'[c] = r
        /\ \A d \in Calls : d # c => call'[d] = call[d]
        /\ CallsHaveBlocks'
    BY <1>0, <1>1, CallStep
  <1>3. \A b \in 1..MaxBlocks, n \in 1..MaxLives : HasStart(b, n)' => HasStart(b, n)
    BY <1>0, <1>1, <1>2 DEF HasStart
  <1>4. TakenOnce'
    BY <1>0, <1>3, NothingTaken DEF HandlersInv, TakenOnce, Handlers!TypeOK
  <1>5. Handlers!TypeOK'
    BY <1>0, <1>2, Blocks DEF HandlersInv, Handlers!TypeOK, OpenCall
  <1>. QED BY <1>2, <1>4, <1>5 DEF HandlersInv

(* The array is taken as a whole and given up, or it is empty.                *)
LEMMA LatestStep ==
    ASSUME HandlersInv, NEW c \in Calls, Handlers!latestBlockAnswered(c)
    PROVE  HandlersInv'
  <1>1. PICK outdated \in {{}, {<<"outdated", call[c].block>>}} :
            call' = [call EXCEPT ![c].at = "services", ![c].findings = outdated \union Handlers!held]
    BY DEF Handlers!latestBlockAnswered
  <1>2. UNCHANGED <<life, bound, onAppFindings, init, inits, blocks, computed, answered, done>>
    BY DEF Handlers!latestBlockAnswered, Handlers!starting, Handlers!history
  <1>3. call \in [Calls -> OpenCall] /\ call[c] \in OpenCall /\ call[c].at = "latest"
    BY DEF HandlersInv, Handlers!TypeOK, OpenCall, Handlers!latestBlockAnswered
  <1>4. call[c].block \in 1..MaxBlocks /\ call[c].results \intersect Handlers!StartFinding = {}
    BY <1>3 DEF HandlersInv, CallsHaveBlocks, Handlers!Closed
  <1>5. /\ Handlers!held \subseteq StartOf(life) /\ (Handlers!held # {} => shared)
        /\ StartOf(life) \subseteq Handlers!StartFinding
    BY Starts DEF Handlers!held, HandlersInv, Handlers!TypeOK, TakenOnce
  <1>6. outdated \subseteq Handlers!Finding /\ outdated \intersect Handlers!StartFinding = {}
    BY <1>4, Starts DEF Handlers!Finding, Kinds
  <1> DEFINE r == [call[c] EXCEPT !.at = "services", !.findings = outdated \union Handlers!held]
  <1>7. call' = [call EXCEPT ![c] = r]
    BY <1>1, <1>3
  <1>8. /\ r \in OpenCall /\ r.block = call[c].block /\ r.results = call[c].results
        /\ r.findings = outdated \union Handlers!held
    BY <1>3, <1>5, <1>6 DEF OpenCall, Handlers!Finding
  <1> HIDE DEF r
  <1>9. /\ call' \in [Calls -> OpenCall] /\ call'[c] = r
        /\ \A d \in Calls : d # c => call'[d] = call[d]
        /\ CallsHaveBlocks'
    BY <1>4, <1>7, <1>8, CallStep
  <1>10. onAppStartFindings' = {} /\ shared' \in BOOLEAN
    BY DEF Handlers!latestBlockAnswered, Handlers!replaces, HandlersInv, TakenOnce, Handlers!TypeOK
  <1>11. TakenOnce'
    <2>0. life \in 1..MaxLives /\ onAppFindings \subseteq StartOf(life)
      BY DEF HandlersInv, TakenOnce, Handlers!TypeOK
    <2>1. ASSUME NEW b \in 1..MaxBlocks, NEW n \in 1..MaxLives, n # life \/ Handlers!held = {}, HasStart(b, n)'
          PROVE  HasStart(b, n)
      <3>1. (outdated \union Handlers!held) \intersect StartOf(n) = {}
        <4>1. StartOf(n) \subseteq Handlers!StartFinding
          BY Starts
        <4>2. n # life => StartOf(life) \intersect StartOf(n) = {}
          BY Starts
        <4>. QED BY <1>5, <1>6, <2>1, <4>1, <4>2
      <3>. QED BY <1>2, <1>8, <1>9, <2>1, <3>1 DEF HasStart
    <2>2. CASE Handlers!held = {}
      <3>1. shared' = shared
        BY <2>2 DEF Handlers!latestBlockAnswered, Handlers!replaces
      <3>. QED BY <1>2, <1>10, <2>0, <2>1, <2>2, <3>1, NothingTaken DEF HandlersInv
    <2>3. CASE Handlers!held # {}
      <3>1. ~shared'
        BY <2>3 DEF Handlers!latestBlockAnswered, Handlers!replaces
      <3>2. \A b \in 1..MaxBlocks : ~HasStart(b, life)
        BY <1>5, <2>3 DEF HandlersInv, TakenOnce
      <3>3. \A b \in 1..MaxBlocks : HasStart(b, life)' => b = call[c].block
        BY <1>2, <1>8, <1>9, <3>2 DEF HasStart
      <3>4. \A n \in 1..MaxLives, b \in 1..MaxBlocks : n = life /\ HasStart(b, n)' => b = call[c].block
        BY <1>2, <3>3 DEF HasStart
      <3>5. \A n \in 1..MaxLives, b1, b2 \in 1..MaxBlocks :
              HasStart(b1, n)' /\ HasStart(b2, n)' => b1 = b2
        <4> SUFFICES ASSUME NEW n \in 1..MaxLives, NEW b1 \in 1..MaxBlocks, NEW b2 \in 1..MaxBlocks,
                            HasStart(b1, n)', HasStart(b2, n)'
                     PROVE  b1 = b2
          OBVIOUS
        <4>1. CASE n = life
          BY <3>4, <4>1
        <4>2. CASE n # life
          BY <2>1, <4>2 DEF HandlersInv, TakenOnce
        <4>. QED BY <4>1, <4>2
      <3>6. \A n \in 1..MaxLives, b \in 1..MaxBlocks : n > life' => ~HasStart(b, n)'
        <4>1. \A n \in 1..MaxLives : n > life' => n # life /\ n > life
          BY <1>2, <2>0, Blocks
        <4>. QED BY <2>1, <4>1 DEF HandlersInv, TakenOnce
      <3>. QED BY <1>2, <1>10, <2>0, <3>1, <3>5, <3>6 DEF TakenOnce
    <2>. QED BY <2>2, <2>3
  <1>12. Handlers!TypeOK'
    BY <1>2, <1>9, <1>10 DEF HandlersInv, Handlers!TypeOK, OpenCall
  <1>. QED BY <1>9, <1>11, <1>12 DEF HandlersInv

LEMMA ServicesStep ==
    ASSUME HandlersInv, NEW c \in Calls, Handlers!servicesDone(c)
    PROVE  HandlersInv'
  <1>1. PICK reporting \in SUBSET Services :
            LET results == reporting \X {call[c].block}
            IN  /\ computed' = computed \union results
                /\ call' = [call EXCEPT ![c].at = "statistics", ![c].results = Handlers!kept(results)]
    BY DEF Handlers!servicesDone
  <1> DEFINE results == reporting \X {call[c].block}
             r == [call[c] EXCEPT !.at = "statistics", !.results = Handlers!kept(results)]
  <1>2. UNCHANGED <<life, bound, onAppFindings, onAppStartFindings, shared, init, inits, blocks, answered, done>>
    BY DEF Handlers!servicesDone, Handlers!arrays, Handlers!starting
  <1>3. call \in [Calls -> OpenCall] /\ call[c] \in OpenCall /\ call[c].at = "services"
    BY DEF HandlersInv, Handlers!TypeOK, OpenCall, Handlers!servicesDone
  <1>4. call[c].block \in 1..MaxBlocks
    BY <1>3 DEF HandlersInv, CallsHaveBlocks, Handlers!Closed
  <1>5. results \subseteq Handlers!ServiceFinding
    BY <1>4 DEF Handlers!ServiceFinding
  <1>6. Handlers!kept(results) \subseteq Handlers!Finding /\ Handlers!kept(results) \intersect Handlers!StartFinding = {}
    <2>1. \A f \in results : f \notin Handlers!StartFinding
      <3>1. \A f \in results : f[1] \in Services /\ f[1] \notin Kinds
        BY Blocks
      <3>2. \A f \in results : f = <<f[1], call[c].block>>
        OBVIOUS
      <3>. QED BY <3>1, <3>2, Starts
    <2>2. Handlers!kept(results) \subseteq results
      BY DEF Handlers!kept
    <2>. QED BY <1>5, <2>1, <2>2 DEF Handlers!Finding
  <1>7. call' = [call EXCEPT ![c] = r] /\ computed' = computed \union results
    BY <1>1, <1>3
  <1>8. /\ r \in OpenCall /\ r.block = call[c].block /\ r.findings = call[c].findings
        /\ r.results = Handlers!kept(results)
    BY <1>3, <1>6 DEF OpenCall
  <1> HIDE DEF r, results
  <1>9. /\ call' \in [Calls -> OpenCall] /\ call'[c] = r
        /\ \A d \in Calls : d # c => call'[d] = call[d]
        /\ CallsHaveBlocks'
    BY <1>4, <1>6, <1>7, <1>8, CallStep
  <1>10. \A b \in 1..MaxBlocks, n \in 1..MaxLives : HasStart(b, n)' => HasStart(b, n)
    BY <1>2, <1>8, <1>9 DEF HasStart
  <1>11. TakenOnce'
    BY <1>2, <1>10, NothingTaken DEF HandlersInv, TakenOnce, Handlers!TypeOK
  <1>12. Handlers!TypeOK'
    BY <1>2, <1>5, <1>7, <1>9 DEF HandlersInv, Handlers!TypeOK, OpenCall
  <1>. QED BY <1>9, <1>11, <1>12 DEF HandlersInv

LEMMA RespondStep ==
    ASSUME HandlersInv, NEW c \in Calls, Handlers!respond(c)
    PROVE  HandlersInv'
  <1>1. /\ answered' = [answered EXCEPT ![call[c].block] = Handlers!blockResponse(c)]
        /\ done' = done \union {call[c].block}
        /\ call' = [call EXCEPT ![c] = Handlers!Closed] /\ call[c].at = "statistics"
        /\ UNCHANGED <<life, bound, onAppFindings, onAppStartFindings, shared, init, inits, blocks, computed>>
    BY DEF Handlers!respond, Handlers!arrays, Handlers!starting
  <1>2. /\ call \in [Calls -> OpenCall] /\ call[c] \in OpenCall
        /\ answered \in [1..MaxBlocks -> SUBSET Handlers!Finding]
    BY DEF HandlersInv, Handlers!TypeOK, OpenCall
  <1>3. call[c].block \in 1..MaxBlocks /\ call[c].results \intersect Handlers!StartFinding = {}
    BY <1>1 DEF HandlersInv, CallsHaveBlocks, Handlers!Closed
  <1>4. /\ Handlers!Closed \in OpenCall /\ Handlers!Closed.findings = {} /\ Handlers!Closed.results = {}
    BY Blocks DEF OpenCall, Handlers!Closed
  <1>5. /\ call' \in [Calls -> OpenCall] /\ call'[c] = Handlers!Closed
        /\ \A d \in Calls : d # c => call'[d] = call[d]
        /\ CallsHaveBlocks'
    BY <1>1, <1>4, CallStep
  <1>6. /\ answered' \in [1..MaxBlocks -> SUBSET Handlers!Finding]
        /\ answered'[call[c].block] = call[c].findings \union call[c].results
        /\ \A b \in 1..MaxBlocks : b # call[c].block => answered'[b] = answered[b]
    BY <1>1, <1>2, <1>3 DEF Handlers!blockResponse, OpenCall
  <1>7. \A b \in 1..MaxBlocks, n \in 1..MaxLives : HasStart(b, n)' => HasStart(b, n)
    <2> SUFFICES ASSUME NEW b \in 1..MaxBlocks, NEW n \in 1..MaxLives, HasStart(b, n)' PROVE HasStart(b, n)
      OBVIOUS
    <2>0. call[c].results \intersect StartOf(n) = {}
      BY <1>3, Starts
    <2>1. CASE answered'[b] \intersect StartOf(n) # {}
      <3>1. CASE b = call[c].block
        BY <1>3, <1>6, <2>0, <2>1, <3>1 DEF HasStart
      <3>2. CASE b # call[c].block
        BY <1>6, <2>1, <3>2 DEF HasStart
      <3>. QED BY <3>1, <3>2
    <2>2. CASE \E d \in Calls : call'[d].block = b /\ call'[d].findings \intersect StartOf(n) # {}
      BY <1>4, <1>5, <2>2 DEF HasStart
    <2>. QED BY <2>1, <2>2 DEF HasStart
  <1>8. TakenOnce'
    BY <1>1, <1>7, NothingTaken DEF HandlersInv, TakenOnce, Handlers!TypeOK
  <1>9. done' \subseteq 1..MaxBlocks
    BY <1>1, <1>3 DEF HandlersInv, Handlers!TypeOK
  <1>10. Handlers!TypeOK'
    BY <1>1, <1>5, <1>6, <1>9 DEF HandlersInv, Handlers!TypeOK, OpenCall
  <1>. QED BY <1>5, <1>8, <1>10 DEF HandlersInv

(* The process ends and begins again with empty arrays and no calls.          *)
LEMMA RejectStep ==
    ASSUME HandlersInv, NEW c \in Calls, Handlers!servicesReject(c)
    PROVE  HandlersInv'
  <1>1. /\ life' = life + 1 /\ life < MaxLives /\ bound' = FALSE /\ shared' = TRUE
        /\ onAppFindings' = {} /\ onAppStartFindings' = {} /\ init' = "none" /\ inits' = 0
        /\ call' = [d \in Calls |-> Handlers!Closed]
        /\ UNCHANGED <<blocks, computed, answered, done>>
    BY DEF Handlers!servicesReject, Handlers!history
  <1>2. life \in 1..MaxLives /\ life' \in 1..MaxLives
    BY <1>1, Blocks DEF HandlersInv, Handlers!TypeOK
  <1>3. /\ Handlers!Closed \in OpenCall /\ Handlers!Closed.findings = {} /\ Handlers!Closed.results = {}
    BY Blocks DEF OpenCall, Handlers!Closed
  <1>4. call' \in [Calls -> OpenCall] /\ \A d \in Calls : call'[d] = Handlers!Closed
    BY <1>1, <1>3
  <1>5. CallsHaveBlocks'
    BY <1>3, <1>4 DEF CallsHaveBlocks, Handlers!Closed
  <1>6. \A b \in 1..MaxBlocks, n \in 1..MaxLives : HasStart(b, n)' => HasStart(b, n)
    BY <1>1, <1>3, <1>4 DEF HasStart
  <1>7. TakenOnce'
    <2>1. onAppFindings' \subseteq StartOf(life')
      BY <1>1
    <2>. QED BY <1>1, <1>2, <1>6, <2>1, NothingTaken DEF HandlersInv
  <1>8. Handlers!TypeOK'
    <2>1. bound' \in BOOLEAN /\ shared' \in BOOLEAN
      BY <1>1
    <2>2. init' = "none" /\ inits' \in 0..MaxInits
      BY <1>1, Blocks
    <2>. QED BY <1>1, <1>2, <1>4, <2>1, <2>2, StartsPrimed DEF HandlersInv, Handlers!TypeOK, OpenCall
  <1>. QED BY <1>5, <1>7, <1>8 DEF HandlersInv

LEMMA HandlersNext == HandlersInv /\ [Handlers!Next]_(Handlers!vars) => HandlersInv'
  BY StartSteps, BlockStep, LatestStep, ServicesStep, RejectStep, RespondStep DEF Handlers!Next

(* A finding of a start is answered with one block: in whatever order the     *)
(* initialization, its repetitions and overlapping block calls come, and      *)
(* wherever the process ends and starts again.                                *)
THEOREM StartCorrect == Handlers!Spec => []StartFindingsOnce
  <1>1. HandlersInv => StartFindingsOnce
    <2> SUFFICES ASSUME HandlersInv, NEW b1 \in 1..MaxBlocks, NEW b2 \in 1..MaxBlocks, b1 # b2,
                        NEW f \in answered[b1] \intersect answered[b2] \intersect Handlers!StartFinding
                 PROVE  FALSE
      BY DEF StartFindingsOnce, Handlers!StartFindingsOnce
    <2>1. f[2] \in 1..MaxLives /\ f \in StartOf(f[2])
      BY Starts
    <2>2. HasStart(b1, f[2]) /\ HasStart(b2, f[2])
      BY <2>1 DEF HasStart
    <2>. QED BY <2>1, <2>2 DEF HandlersInv, TakenOnce
  <1>. QED BY <1>1, HandlersInit, HandlersNext, PTL DEF Handlers!Spec

(* Both parts, each at rest while the other moves, keep their types.          *)
THEOREM PartsAreTyped == MCSpec => []TypesOK
  <1>1. MCInit => IInv /\ HandlersInv
    BY InitIInv, HandlersInit DEF MCInit
  <1>2. IInv /\ HandlersInv /\ [MCNext]_<<part, vars, handlerVars>> => (IInv /\ HandlersInv)'
    <2>1. [MCNext]_<<part, vars, handlerVars>> => [Next]_vars /\ [Handlers!Next]_(Handlers!vars)
      BY DEF MCNext, handlerVars, Handlers!vars, Handlers!arrays, Handlers!starting, Handlers!history
    <2>. QED BY <2>1, NextIInv, HandlersNext
  <1>3. IInv /\ HandlersInv => TypesOK
    BY DEF IInv, HandlersInv, TypesOK
  <1>. QED BY <1>1, <1>2, <1>3, PTL DEF MCSpec
=============================================================================
