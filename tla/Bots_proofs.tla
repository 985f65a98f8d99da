----------------------------- MODULE Bots_proofs ------------------------------
(***************************************************************************)
(* The proofs about the bots that MCBots puts side by side: the node         *)
(* operators, the proxy admin check and the DAO operations of lido-on-polygon, *)
(* voting-watcher and csm-alerts, each for its own specification and for     *)
(* every value of its constants that its assumption allows; and then, with   *)
(* the withdrawals monitor, that each behaves the same beside the others and *)
(* what that makes of their invariants in the run.                           *)
(***************************************************************************)
EXTENDS MCBots, FiniteSetTheorems, TLAPS

-----------------------------------------------------------------------------
(* The withdrawals monitor.  CallsAreInOrder says which calls may still be     *)
(* waiting: the one of the last block, and others whose runs have timed out.   *)
(* CacheIsFresh says what they may find in the cache when they are answered.   *)
CallsAreInOrder ==
    \A b \in Blocks :
        /\ call[b] # "none" => b <= now
        /\ call[b] = "waiting" /\ b \notin timedOut => b = now
        /\ call[b] # "done" => counted[b] = {}

CacheIsFresh ==
    /\ \A b \in Blocks : call[b] = "waiting" => \A w \in withdrawalsCache : isRecent(w, b)
    /\ \A w \in withdrawalsCache : w.time >= lastReportedToManyWithdrawals
    /\ lastReportedToManyWithdrawals <= now

IInv == TypeOK /\ CallsAreInOrder /\ CacheIsFresh /\ NothingIsLost /\ BurstIsReported

-----------------------------------------------------------------------------
(* Times are numbers.                                                         *)
LEMMA MonitorNumbers ==
    /\ Window \in Nat /\ Window > 0 /\ Epoch \in Nat /\ Epoch > Window
    /\ MaxTime \in Nat /\ MaxEvents \in Nat /\ Epoch <= MaxTime
    /\ \A b \in Blocks : b \in Nat /\ b >= Epoch
    /\ \A w \in Withdrawals : w.time \in Nat
BY MonitorAssumption DEF Blocks, Withdrawals

(* There are finitely many withdrawals.                                       *)
LEMMA WithdrawalsFinite == IsFiniteSet(Withdrawals)
<1> DEFINE Pairs == (0..MaxTime) \X (1..MaxEvents)
           f == [w \in Withdrawals |-> <<w.time, w.nr>>]
<1>1. IsFiniteSet(Pairs)
    <2>1. IsFiniteSet(0..MaxTime) /\ IsFiniteSet(1..MaxEvents)
        <3>1. 0 \in Int /\ 1 \in Int /\ MaxTime \in Int /\ MaxEvents \in Int
            BY MonitorNumbers
        <3> QED BY <3>1, FS_Interval
    <2> QED BY <2>1, FS_Product
<1>2. f \in Injection(Withdrawals, Pairs)
    <2>1. f \in [Withdrawals -> Pairs]
        BY DEF Withdrawals
    <2>2. \A v, w \in Withdrawals : f[v] = f[w] => v = w
        BY DEF Withdrawals
    <2> QED BY <2>1, <2>2 DEF Injection, IsInjective
<1> QED BY <1>1, <1>2, FS_Injection

(* What no report has counted of the window before a block.                   *)
Pending(b) == {w \in seen \ Counted : isRecent(w, b) /\ w.time < b}

(* Fewer withdrawals are pending than before: the limit still holds.          *)
LEMMA PendingShrinks ==
    ASSUME TypeOK, TypeOK', NEW b \in Blocks, Pending(b)' \subseteq Pending(b),
           \E limit \in Limits : Cardinality(Pending(b)) < limit
    PROVE  \E limit \in Limits : Cardinality(Pending(b)') < limit
<1>1. PICK limit \in Limits : Cardinality(Pending(b)) < limit
    OBVIOUS
<1>2. IsFiniteSet(Pending(b)) /\ limit \in Nat
    <2>1. Pending(b) \in SUBSET Withdrawals
        BY DEF TypeOK, Pending
    <2> QED BY <2>1, WithdrawalsFinite, FS_Subset, MonitorAssumption
<1>3. Cardinality(Pending(b)') <= Cardinality(Pending(b))
    BY <1>2, FS_Subset
<1>4. Cardinality(Pending(b)) \in Nat /\ Cardinality(Pending(b)') \in Nat
    <2>1. IsFiniteSet(Pending(b)')
        BY <1>2, FS_Subset
    <2> QED BY <1>2, <2>1, FS_CardinalityType
<1> QED BY <1>1, <1>2, <1>3, <1>4

(* The property holds on where nothing new is pending, and where the step     *)
(* itself has shown it.                                                       *)
LEMMA BurstStep ==
    ASSUME TypeOK, TypeOK', BurstIsReported,
           \A b \in Blocks \ timedOut' : b % Cadence = 0 /\ call'[b] = "done" =>
              \/ b \notin timedOut /\ call[b] = "done" /\ Pending(b)' \subseteq Pending(b)
              \/ \E limit \in Limits : Cardinality(Pending(b)') < limit
    PROVE  BurstIsReported'
<1> SUFFICES ASSUME NEW b \in Blocks \ timedOut', b % Cadence = 0, call'[b] = "done"
             PROVE  \E limit \in Limits : Cardinality(Pending(b)') < limit
    BY DEF BurstIsReported, Pending, isRecent
<1>1. CASE b \notin timedOut /\ call[b] = "done" /\ Pending(b)' \subseteq Pending(b)
    <2>1. \E limit \in Limits : Cardinality(Pending(b)) < limit
        BY <1>1 DEF BurstIsReported, Pending
    <2> QED BY <1>1, <2>1, PendingShrinks
<1> QED BY <1>1

(* A report adds what it has summed up to Counted, and takes nothing from it. *)
LEMMA ReportCounts ==
    ASSUME TypeOK, NEW b \in Blocks, NEW sum, counted[b] = {},
           counted' = [counted EXCEPT ![b] = sum]
    PROVE  Counted' = Counted \union sum
<1>1. \A c \in Blocks : counted'[c] = IF c = b THEN sum ELSE counted[c]
    BY DEF TypeOK
<1>2. Counted' \subseteq Counted \union sum
    BY <1>1 DEF Counted
<1>3. Counted \subseteq Counted'
    <2> SUFFICES ASSUME NEW c \in Blocks, NEW w \in counted[c] PROVE w \in Counted'
        BY DEF Counted
    <2>1. c # b
        OBVIOUS
    <2> QED BY <1>1, <2>1 DEF Counted
<1>4. sum \subseteq Counted'
    BY <1>1 DEF Counted
<1> QED BY <1>2, <1>3, <1>4

-----------------------------------------------------------------------------
LEMMA InitIInv == Init => IInv
<1> SUFFICES ASSUME Init PROVE IInv
    OBVIOUS
<1>1. PICK past \in SUBSET {w \in Withdrawals : w.nr = 1 /\ w.time \in Epoch - Window..Epoch - 1} :
          withdrawalsCache = past /\ seen = past
    BY DEF Init
<1>2. TypeOK
    <2>1. now \in Epoch - 1..MaxTime
        BY MonitorNumbers DEF Init
    <2>2. withdrawalsCache \subseteq Withdrawals /\ seen \subseteq Withdrawals
        BY <1>1
    <2> QED BY <2>1, <2>2 DEF Init, TypeOK
<1>3. CallsAreInOrder
    BY DEF Init, CallsAreInOrder
<1>4. CacheIsFresh
    <2>1. \A w \in withdrawalsCache : w.time >= 0
        BY <1>1, MonitorNumbers
    <2>2. 0 <= now
        BY MonitorNumbers DEF Init
    <2> QED BY <2>1, <2>2 DEF Init, CacheIsFresh
<1>5. NothingIsLost
    BY <1>1 DEF NothingIsLost
<1>6. BurstIsReported
    BY DEF Init, BurstIsReported
<1> QED BY <1>2, <1>3, <1>4, <1>5, <1>6 DEF IInv

(* The next block comes when the one before is answered, or timed out.        *)
LEMMA NextBlockIInv == IInv /\ nextBlock => IInv'
<1> SUFFICES ASSUME IInv, nextBlock PROVE IInv'
    OBVIOUS
<1> USE DEF IInv
<1>1. /\ now' = now + 1 /\ now < MaxTime
      /\ withdrawalsCache' = {w \in withdrawalsCache : isRecent(w, now + 1)}
      /\ call' = [call EXCEPT ![now + 1] = "waiting"]
      /\ UNCHANGED <<lastReportedToManyWithdrawals, timedOut, seen, counted>>
    BY DEF nextBlock, handleBlock
<1>2. now \in Int /\ now + 1 \in Blocks /\ now + 1 \in Epoch - 1..MaxTime
    BY <1>1, MonitorNumbers DEF TypeOK, Blocks
<1>3. call[now + 1] = "none" /\ counted[now + 1] = {}
    <2>1. ~(now + 1 <= now)
        BY <1>2
    <2>2. call[now + 1] = "none"
        BY <1>2, <2>1 DEF CallsAreInOrder
    <2> QED BY <1>2, <2>2 DEF CallsAreInOrder
<1>4. \A b \in Blocks : call'[b] = IF b = now + 1 THEN "waiting" ELSE call[b]
    BY <1>1 DEF TypeOK
<1>5. TypeOK'
    BY <1>1, <1>2 DEF TypeOK
<1>6. CallsAreInOrder'
    <2> SUFFICES ASSUME NEW b \in Blocks
                 PROVE  /\ call'[b] # "none" => b <= now + 1
                        /\ call'[b] = "waiting" /\ b \notin timedOut => b = now + 1
                        /\ call'[b] # "done" => counted[b] = {}
        BY <1>1 DEF CallsAreInOrder
    <2>1. CASE b = now + 1
        BY <1>2, <1>3, <2>1
    <2>2. CASE b # now + 1
        <3>1. call'[b] = call[b]
            BY <1>4, <2>2
        <3>2. call[b] = "waiting" /\ b \notin timedOut => FALSE
            BY DEF CallsAreInOrder, nextBlock
        <3>3. call[b] # "none" => b <= now + 1
            BY <1>2, MonitorNumbers DEF CallsAreInOrder
        <3> QED BY <3>1, <3>2, <3>3 DEF CallsAreInOrder
    <2> QED BY <2>1, <2>2
<1>7. CacheIsFresh'
    BY <1>1, <1>2, <1>4, MonitorNumbers DEF CacheIsFresh, TypeOK
<1>8. NothingIsLost'
    <2> SUFFICES ASSUME NEW w \in seen, isRecent(w, now + 1)
                 PROVE  w \in withdrawalsCache' \union Counted'
        BY <1>1 DEF NothingIsLost, isRecent
    <2>1. isRecent(w, now)
        BY <1>2, MonitorNumbers DEF isRecent, TypeOK
    <2>2. w \in withdrawalsCache \union Counted
        BY <2>1 DEF NothingIsLost
    <2> QED BY <1>1, <2>2 DEF Counted
<1>9. BurstIsReported'
    <2>1. \A c \in Blocks : Pending(c)' = Pending(c)
        BY <1>1 DEF Pending, Counted, isRecent
    <2> QED BY <1>1, <1>4, <1>5, <2>1, BurstStep
<1> QED BY <1>5, <1>6, <1>7, <1>8, <1>9

(* Another attempt filters the cache again; the last one ends the call.       *)
LEMMA RequestFailsIInv ==
    ASSUME IInv, NEW b \in Blocks, requestFails(b)
    PROVE  IInv'
<1> USE DEF IInv
<1>1. /\ call[b] = "waiting"
      /\ UNCHANGED <<now, lastReportedToManyWithdrawals, timedOut, seen, counted>>
    BY DEF requestFails
<1>2. \/ withdrawalsCache' = {w \in withdrawalsCache : isRecent(w, b)} /\ UNCHANGED call
      \/ call' = [call EXCEPT ![b] = "failed"] /\ UNCHANGED withdrawalsCache
    BY <1>1 DEF requestFails, handleBlock, TypeOK
<1>3. withdrawalsCache' = withdrawalsCache
    BY <1>1, <1>2 DEF CacheIsFresh
<1>4. call' = call \/ call' = [call EXCEPT ![b] = "failed"]
    BY <1>2
<1>5. TypeOK'
    BY <1>1, <1>3, <1>4 DEF TypeOK
<1>6. CallsAreInOrder'
    BY <1>1, <1>4 DEF CallsAreInOrder, TypeOK
<1>7. CacheIsFresh'
    BY <1>1, <1>3, <1>4 DEF CacheIsFresh, TypeOK
<1>8. NothingIsLost'
    BY <1>1, <1>3 DEF NothingIsLost, Counted, isRecent
<1>9. BurstIsReported'
    <2>1. \A c \in Blocks : Pending(c)' = Pending(c)
        BY <1>1 DEF Pending, Counted, isRecent
    <2>2. \A c \in Blocks : call'[c] = "done" => call[c] = "done"
        BY <1>4 DEF TypeOK
    <2> QED BY <1>1, <1>5, <2>1, <2>2, BurstStep
<1> QED BY <1>5, <1>6, <1>7, <1>8, <1>9

LEMMA TimeoutIInv ==
    ASSUME IInv, NEW b \in Blocks, timeout(b)
    PROVE  IInv'
<1> USE DEF IInv
<1>1. TypeOK' /\ CallsAreInOrder'
    BY DEF timeout, TypeOK, CallsAreInOrder
<1>2. CacheIsFresh' /\ NothingIsLost'
    BY DEF timeout, CacheIsFresh, NothingIsLost, Counted, isRecent
<1>3. BurstIsReported'
    <2>1. \A c \in Blocks : Pending(c)' = Pending(c)
        BY DEF timeout, Pending, Counted, isRecent
    <2>2. call' = call /\ timedOut \subseteq timedOut'
        BY DEF timeout
    <2> QED BY <1>1, <2>1, <2>2, BurstStep
<1> QED BY <1>1, <1>2, <1>3

(* A withdrawal of the last block is no earlier withdrawal for any call.      *)
LEMMA WithdrawalIInv == IInv /\ handleWithdrawalEvent => IInv'
<1> SUFFICES ASSUME IInv, handleWithdrawalEvent PROVE IInv'
    OBVIOUS
<1> USE DEF IInv
<1>1. PICK nr \in 1..MaxEvents :
          /\ seen' = seen \union {[time |-> now, nr |-> nr]}
          /\ withdrawalsCache' = withdrawalsCache \union {[time |-> now, nr |-> nr]}
    BY DEF handleWithdrawalEvent
<1> DEFINE w == [time |-> now, nr |-> nr]
<1>2. /\ now \in Blocks
      /\ UNCHANGED <<now, lastReportedToManyWithdrawals, call, timedOut, counted>>
    BY DEF handleWithdrawalEvent
<1>3. w \in Withdrawals /\ w.time = now /\ now \in Nat
    BY <1>2, MonitorNumbers DEF Withdrawals, Blocks
<1>4. TypeOK'
    BY <1>1, <1>2, <1>3 DEF TypeOK
<1>5. CallsAreInOrder'
    BY <1>2 DEF CallsAreInOrder
<1>6. CacheIsFresh'
    <2>1. \A b \in Blocks : call[b] = "waiting" => isRecent(w, b)
        BY <1>3, MonitorNumbers DEF CallsAreInOrder, isRecent
    <2>2. w.time >= lastReportedToManyWithdrawals
        BY <1>3 DEF CacheIsFresh
    <2> HIDE DEF w
    <2> QED BY <1>1, <1>2, <2>1, <2>2 DEF CacheIsFresh, isRecent, w
<1>7. NothingIsLost'
    BY <1>1, <1>2 DEF NothingIsLost, Counted, isRecent
<1>8. BurstIsReported'
    <2>1. \A b \in Blocks : call[b] = "done" => ~(w.time < b)
        BY <1>3, MonitorNumbers DEF CallsAreInOrder
    <2>2. \A b \in Blocks : call[b] = "done" => Pending(b)' \subseteq Pending(b)
        BY <1>1, <1>2, <2>1 DEF Pending, Counted, isRecent
    <2> QED BY <1>2, <1>4, <2>2, BurstStep
<1> QED BY <1>4, <1>5, <1>6, <1>7, <1>8

-----------------------------------------------------------------------------
(* A check that reports removes only what it counts; the check of the last    *)
(* block, answered in time, leaves less than the limit uncounted.             *)
LEMMA PoolAnsweredIInv ==
    ASSUME IInv, NEW b \in Blocks, poolAnswered(b)
    PROVE  IInv'
<1> USE DEF IInv
<1>1. /\ call[b] = "waiting" /\ counted[b] = {} /\ b <= now
      /\ call' = [call EXCEPT ![b] = "done"]
      /\ UNCHANGED <<now, timedOut, seen>>
    BY DEF poolAnswered, CallsAreInOrder
<1>2. PICK limit \in Limits :
       \/ /\ isHuge(b, limit)
          /\ counted' = [counted EXCEPT ![b] = withdrawalsCache]
          /\ lastReportedToManyWithdrawals' = b
          /\ withdrawalsCache' = {w \in withdrawalsCache : w.time > b}
       \/ /\ ~isHuge(b, limit)
          /\ UNCHANGED <<counted, lastReportedToManyWithdrawals, withdrawalsCache>>
    BY DEF poolAnswered, summed, notReported
<1>3. \A c \in Blocks : call'[c] = IF c = b THEN "done" ELSE call[c]
    BY <1>1 DEF TypeOK
<1>4. \A c \in Blocks : c # b => counted'[c] = counted[c]
    BY <1>2 DEF TypeOK
<1>5. \/ counted' = counted /\ withdrawalsCache' = withdrawalsCache
      \/ /\ Counted' = Counted \union withdrawalsCache
         /\ withdrawalsCache' \subseteq withdrawalsCache
    BY <1>1, <1>2, ReportCounts
<1>6. TypeOK'
    BY <1>1, <1>2 DEF TypeOK
<1>7. CallsAreInOrder'
    BY <1>1, <1>3, <1>4 DEF CallsAreInOrder
<1>8. CacheIsFresh'
    <2>1. withdrawalsCache' \subseteq withdrawalsCache
        BY <1>2
    <2>2. \A c \in Blocks : call'[c] = "waiting" => \A w \in withdrawalsCache' : isRecent(w, c)
        BY <1>3, <2>1 DEF CacheIsFresh
    <2>3. \A w \in withdrawalsCache' : w.time >= lastReportedToManyWithdrawals'
        BY <1>2, MonitorNumbers DEF CacheIsFresh, TypeOK
    <2>4. lastReportedToManyWithdrawals' <= now
        BY <1>1, <1>2 DEF CacheIsFresh
    <2> QED BY <1>1, <2>2, <2>3, <2>4 DEF CacheIsFresh, isRecent
<1>9. NothingIsLost'
    <2>1. Counted \union withdrawalsCache \subseteq Counted' \union withdrawalsCache'
        BY <1>5 DEF Counted
    <2> QED BY <1>1, <2>1 DEF NothingIsLost, isRecent
<1>10. BurstIsReported'
    <2>1. Counted \subseteq Counted'
        BY <1>5 DEF Counted
    <2>2. \A c \in Blocks : Pending(c)' \subseteq Pending(c)
        BY <1>1, <2>1 DEF Pending, isRecent
    <2>3. ASSUME b \notin timedOut, b % Cadence = 0
          PROVE  \E lim \in Limits : Cardinality(Pending(b)') < lim
        <3>1. b = now
            BY <1>1, <2>3 DEF CallsAreInOrder
        <3>2. Pending(b) \subseteq withdrawalsCache
            BY <3>1 DEF Pending, NothingIsLost
        <3>3. CASE isHuge(b, limit)
            <4>1. counted' = [counted EXCEPT ![b] = withdrawalsCache]
                BY <1>2, <3>3
            <4>2. Counted' = Counted \union withdrawalsCache
                BY <1>1, <4>1, ReportCounts
            <4>3. Pending(b)' = {}
                BY <2>2, <3>2, <4>2 DEF Pending
            <4>4. 0 < limit
                BY MonitorAssumption
            <4> QED BY <4>3, <4>4, FS_EmptySet
        <3>4. CASE ~isHuge(b, limit)
            <4>1. ~(Cardinality(withdrawalsCache) >= limit)
                BY <2>3, <3>4 DEF isHuge, summed
            <4>2. IsFiniteSet(withdrawalsCache)
                BY WithdrawalsFinite, FS_Subset DEF TypeOK
            <4>3. Pending(b)' \in SUBSET withdrawalsCache
                BY <2>2, <3>2
            <4>4. /\ Cardinality(Pending(b)') <= Cardinality(withdrawalsCache)
                  /\ IsFiniteSet(Pending(b)')
                BY <4>2, <4>3, FS_Subset
            <4>5. Cardinality(Pending(b)') \in Nat /\ Cardinality(withdrawalsCache) \in Nat
                BY <4>2, <4>4, FS_CardinalityType
            <4>6. limit \in Nat
                BY MonitorAssumption
            <4> QED BY <4>1, <4>4, <4>5, <4>6
        <3> QED BY <3>3, <3>4
    <2>4. \A c \in Blocks \ timedOut' : c % Cadence = 0 /\ call'[c] = "done" =>
              \/ c \notin timedOut /\ call[c] = "done" /\ Pending(c)' \subseteq Pending(c)
              \/ \E lim \in Limits : Cardinality(Pending(c)') < lim
        BY <1>1, <1>3, <2>2, <2>3
    <2> QED BY <1>6, <2>4, BurstStep
<1> QED BY <1>6, <1>7, <1>8, <1>9, <1>10

LEMMA NextIInv == IInv /\ [Next]_vars => IInv'
<1> SUFFICES ASSUME IInv, [Next]_vars PROVE IInv'
    OBVIOUS
<1>1. CASE UNCHANGED vars
    BY <1>1 DEF vars, IInv, TypeOK, CallsAreInOrder, CacheIsFresh, NothingIsLost, Counted,
                BurstIsReported, isRecent
<1>2. CASE nextBlock \/ handleWithdrawalEvent
    BY <1>2, NextBlockIInv, WithdrawalIInv
<1>3. ASSUME NEW b \in Blocks, poolAnswered(b) \/ requestFails(b) \/ timeout(b) PROVE IInv'
    BY <1>3, PoolAnsweredIInv, RequestFailsIInv, TimeoutIInv
<1> QED BY <1>1, <1>2, <1>3 DEF Next

-----------------------------------------------------------------------------
(* The variables have their types.                                            *)
THEOREM TypeCorrect == Spec => []TypeOK
<1>1. IInv => TypeOK
    BY DEF IInv
<1> QED BY InitIInv, NextIInv, <1>1, PTL DEF Spec

(* No withdrawal of the window is dropped uncounted.                          *)
THEOREM NoLoss == Spec => []NothingIsLost
<1>1. IInv => NothingIsLost
    BY DEF IInv
<1> QED BY InitIInv, NextIInv, <1>1, PTL DEF Spec

(* A check that is answered in time leaves no burst unreported.               *)
THEOREM BurstCorrect == Spec => []BurstIsReported
<1>1. IInv => BurstIsReported
    BY DEF IInv
<1> QED BY InitIInv, NextIInv, <1>1, PTL DEF Spec

(* What a step counts is in the window and not before the last report.        *)
LEMMA CountedStep == IInv /\ [Next]_vars =>
    \A b \in Blocks : \A w \in counted'[b] \ counted[b] :
        isRecent(w, b) /\ w.time >= lastReportedToManyWithdrawals
<1> SUFFICES ASSUME IInv, [Next]_vars, NEW b \in Blocks, NEW w \in counted'[b] \ counted[b]
             PROVE  isRecent(w, b) /\ w.time >= lastReportedToManyWithdrawals
    OBVIOUS
<1>1. CASE UNCHANGED counted
    BY <1>1
<1>2. ASSUME NEW c \in Blocks, poolAnswered(c)
      PROVE  isRecent(w, b) /\ w.time >= lastReportedToManyWithdrawals
    <2>1. call[c] = "waiting" /\ \/ counted' = [counted EXCEPT ![c] = withdrawalsCache]
                                 \/ UNCHANGED counted
        BY <1>2 DEF poolAnswered, summed
    <2>2. c = b /\ w \in withdrawalsCache
        BY <2>1 DEF IInv, TypeOK
    <2> QED BY <2>1, <2>2 DEF IInv, CacheIsFresh
<1> QED BY <1>1, <1>2 DEF Next, nextBlock, handleWithdrawalEvent, requestFails, timeout, vars

(* What a report counts belongs to its window and to no earlier report.       *)
THEOREM CountedCorrect == Spec => CountedInPeriod
BY InitIInv, NextIInv, CountedStep, PTL DEF Spec, CountedInPeriod

-----------------------------------------------------------------------------
(* The node operators.  The node answers with what is of the kind of the      *)
(* question.                                                                  *)
StatsSaid == {"none active", "bad state"}
Said == [stats : SUBSET StatsSaid, nfts : SUBSET Operators, active : SUBSET Validators]

SaysOfKind(p) ==
    /\ p.kind = "stats" => p.says \subseteq StatsSaid
    /\ p.kind \in {"nfts", "info", "owner"} => p.says \subseteq Operators
    /\ p.kind = "active" => p.says \subseteq Validators

OpTypes == NodeOps!TypeOK /\ \A p \in pending : SaysOfKind(p)

LEMMA OpNumbers ==
    /\ OpWindow \in Nat /\ BlocksPerDay \in Nat /\ maxHandlerRetries \in Nat
    /\ BotEpoch \in Nat /\ BotMaxTime \in Nat
    /\ maxHandlerRetries > 0 /\ BotEpoch <= BotMaxTime
    /\ NodeOps!Chain \subseteq Said
<1>1. /\ {OpWindow, BlocksPerDay, maxHandlerRetries, BotEpoch, BotMaxTime, MaxOrphans} \subseteq Nat
      /\ BlocksPerDay > 0 /\ maxHandlerRetries > 0 /\ OpWindow < BotEpoch /\ BotEpoch <= BotMaxTime
      /\ Stats \subseteq SUBSET {"none active", "bad state"} /\ Wrong \subseteq SUBSET Operators
    BY BotsAssumption, Zenon DEF NodeOps!NodeOperatorsAssumption
<1>2. OpWindow \in Nat /\ BlocksPerDay \in Nat /\ maxHandlerRetries \in Nat
      /\ BotEpoch \in Nat /\ BotMaxTime \in Nat
    BY <1>1, Zenon
<1>3. NodeOps!Chain \subseteq Said
    BY <1>1 DEF NodeOps!Chain, Said, StatsSaid
<1> QED BY <1>1, <1>2, <1>3, Zenon

LEMMA OpTypesInit == NodeOps!Init => OpTypes
<1> SUFFICES ASSUME NodeOps!Init PROVE OpTypes
    OBVIOUS
<1>1. /\ opNow = BotEpoch /\ opStatus = "none"
      /\ chain = [b \in NodeOps!Blocks |-> [stats |-> {}, nfts |-> {}, active |-> {}]]
      /\ opRetries = [b \in NodeOps!Blocks |-> 0]
      /\ found = {} /\ pending = {} /\ lidoValidatorGoesInactiveReport = {}
      /\ lastReported = [k \in {"stats", "nfts"} |-> 0]
      /\ news = [v \in Validators |-> "none"] /\ untold = {}
    BY DEF NodeOps!Init
<1>2. opNow \in NodeOps!Blocks /\ opRetries \in [NodeOps!Blocks -> 0..maxHandlerRetries]
    BY <1>1, OpNumbers DEF NodeOps!Blocks
<1>3. lastReported \in [{"stats", "nfts"} -> 0..BotMaxTime]
    BY <1>1, OpNumbers
<1> QED BY <1>1, <1>2, <1>3 DEF OpTypes, NodeOps!TypeOK

(* What a call asks for.                                                      *)
LEMMA CallsTyped ==
    ASSUME NEW b \in NodeOps!Blocks, NEW at \in Said
    PROVE  /\ NodeOps!calls(b, at) \subseteq NodeOps!Request
           /\ \A p \in NodeOps!calls(b, at) :
                  /\ SaysOfKind(p) /\ p.live /\ p.block = b
                  /\ p.kind = "active" => p = [kind |-> "active", of |-> "all", live |-> TRUE,
                                               block |-> b, says |-> at.active]
           /\ [kind |-> "active", of |-> "all", live |-> TRUE, block |-> b, says |-> at.active]
                  \in NodeOps!calls(b, at)
<1>1. /\ at["stats"] = at.stats /\ at["nfts"] = at.nfts /\ at["active"] = at.active
      /\ at.stats \subseteq StatsSaid /\ at.nfts \subseteq Operators /\ at.active \subseteq Validators
    BY DEF Said
<1>2. ASSUME NEW k \in NodeOps!Checks
      PROVE  LET p == [kind |-> k, of |-> "all", live |-> TRUE, block |-> b, says |-> at[k]]
             IN  p \in NodeOps!Request /\ SaysOfKind(p)
    BY <1>1 DEF NodeOps!Checks, NodeOps!Request, SaysOfKind, StatsSaid
<1> DEFINE asks(k) == [kind |-> k, of |-> "all", live |-> TRUE, block |-> b, says |-> at[k]]
<1>3. \A p \in NodeOps!calls(b, at) : \E k \in NodeOps!Checks : p = asks(k)
    BY DEF NodeOps!calls
<1>4. asks("active") \in NodeOps!calls(b, at)
    BY DEF NodeOps!calls, NodeOps!Checks
<1>5. ASSUME NEW p \in NodeOps!calls(b, at)
      PROVE  /\ p \in NodeOps!Request /\ SaysOfKind(p) /\ p.live /\ p.block = b
             /\ p.kind = "active" => p = [kind |-> "active", of |-> "all", live |-> TRUE,
                                          block |-> b, says |-> at.active]
    BY <1>1, <1>2, <1>3
<1> QED BY <1>1, <1>4, <1>5

(* The requests of a call that has failed are not live any more.              *)
LEMMA OrphansTyped ==
    ASSUME NEW b \in NodeOps!Blocks, NEW S, S \subseteq NodeOps!Request, \A p \in S : SaysOfKind(p)
    PROVE  /\ NodeOps!orphaned(b, S) \subseteq NodeOps!Request
           /\ \A q \in NodeOps!orphaned(b, S) :
                  SaysOfKind(q) /\ IF q.block = b THEN ~q.live ELSE q \in S
           /\ \A q \in S : q.block # b => q \in NodeOps!orphaned(b, S)
           /\ \A c : (\A q \in S : q.block <= c) => \A q \in NodeOps!orphaned(b, S) : q.block <= c
<1>1. ASSUME NEW q \in S
      PROVE  LET r == [q EXCEPT !.live = FALSE]
             IN  r \in NodeOps!Request /\ SaysOfKind(r) /\ ~r.live /\ r.block = q.block
    <2>1. q \in NodeOps!Request /\ SaysOfKind(q)
        OBVIOUS
    <2> QED BY <2>1 DEF NodeOps!Request, SaysOfKind
<1>2. \A q \in NodeOps!orphaned(b, S) : \E p \in S :
          q = IF p.block = b THEN [p EXCEPT !.live = FALSE] ELSE p
    BY DEF NodeOps!orphaned
<1>3. \A q \in NodeOps!orphaned(b, S) :
          /\ q \in NodeOps!Request /\ SaysOfKind(q)
          /\ IF q.block = b THEN ~q.live ELSE q \in S
          /\ \E p \in S : p.block = q.block
    BY <1>1, <1>2
<1>4. \A q \in S : q.block # b => q \in NodeOps!orphaned(b, S)
    BY DEF NodeOps!orphaned
<1> QED BY <1>3, <1>4

LEMMA OpTypesBlock == OpTypes /\ NodeOps!handleBlock => OpTypes'
<1> SUFFICES ASSUME OpTypes, NodeOps!handleBlock PROVE OpTypes'
    OBVIOUS
<1>1. PICK at \in NodeOps!Chain :
          /\ opNow < BotMaxTime /\ opNow' = opNow + 1 /\ opStatus' = "running"
          /\ opRetries' = [opRetries EXCEPT ![opNow + 1] = maxHandlerRetries - 1]
          /\ chain' = [chain EXCEPT ![opNow + 1] = at]
          /\ pending' = pending \union NodeOps!calls(opNow + 1, at)
          /\ found' = {}
          /\ UNCHANGED <<lidoValidatorGoesInactiveReport, lastReported, news, untold>>
    BY DEF NodeOps!handleBlock
<1>2. opNow' \in NodeOps!Blocks /\ maxHandlerRetries - 1 \in 0..maxHandlerRetries /\ at \in Said
    <2>1. opNow \in BotEpoch..BotMaxTime
        BY DEF OpTypes, NodeOps!TypeOK, NodeOps!Blocks
    <2>2. opNow' \in BotEpoch..BotMaxTime /\ maxHandlerRetries - 1 \in 0..maxHandlerRetries
        BY <1>1, <2>1, OpNumbers
    <2> QED BY <2>2, OpNumbers DEF NodeOps!Blocks
<1>3. chain' \in [NodeOps!Blocks -> Said] /\ opRetries' \in [NodeOps!Blocks -> 0..maxHandlerRetries]
    BY <1>1, <1>2 DEF OpTypes, NodeOps!TypeOK, Said, StatsSaid
<1>4. pending' \subseteq NodeOps!Request /\ \A p \in pending' : SaysOfKind(p)
    BY <1>1, <1>2, CallsTyped DEF OpTypes, NodeOps!TypeOK
<1> QED BY <1>1, <1>2, <1>3, <1>4 DEF OpTypes, NodeOps!TypeOK, Said, StatsSaid, SaysOfKind

(* The findings a request of each kind brings.                                *)
LEMMA FindsTyped ==
    ASSUME OpTypes, NEW p \in pending, NEW said, said \subseteq NodeOps!Findings, NodeOps!finds(p, said)
    PROVE  found' \subseteq NodeOps!Findings
BY DEF NodeOps!finds, OpTypes, NodeOps!TypeOK

LEMMA OpTypesAnswer ==
    ASSUME OpTypes, NEW p \in pending,
           NodeOps!statsAnswered(p) \/ NodeOps!idsAnswered(p) \/ NodeOps!infoAnswered(p)
               \/ NodeOps!ownerAnswered(p) \/ NodeOps!activeSetAnswered(p)
    PROVE  OpTypes'
<1>1. /\ p \in NodeOps!Request /\ SaysOfKind(p) /\ p.block \in 0..BotMaxTime
      /\ lidoValidatorGoesInactiveReport \subseteq Validators
    <2>1. /\ p \in NodeOps!Request /\ SaysOfKind(p)
          /\ lidoValidatorGoesInactiveReport \subseteq Validators
        BY DEF OpTypes, NodeOps!TypeOK
    <2>2. p.block \in BotEpoch..BotMaxTime
        BY <2>1 DEF NodeOps!Request, NodeOps!Blocks
    <2> QED BY <2>1, <2>2, OpNumbers
<1>2. CASE NodeOps!statsAnswered(p)
    <2>1. /\ p.kind = "stats" /\ pending' = pending \ {p}
          /\ UNCHANGED <<opNow, chain, opStatus, opRetries, lidoValidatorGoesInactiveReport, news, untold>>
        BY <1>2 DEF NodeOps!statsAnswered
    <2>2. lastReported' \in [{"stats", "nfts"} -> 0..BotMaxTime]
        BY <1>1, <1>2 DEF NodeOps!statsAnswered, OpTypes, NodeOps!TypeOK
    <2>3. found' \subseteq NodeOps!Findings
        <3> DEFINE told1 == {x \in p.says : x = "bad state" => ~NodeOps!throttled("stats", p.block)}
        <3>1. {"stats"} \X told1 \subseteq NodeOps!Findings
            BY <1>1, <2>1 DEF SaysOfKind, StatsSaid, NodeOps!Findings
        <3>2. NodeOps!finds(p, {"stats"} \X told1)
            BY <1>2 DEF NodeOps!statsAnswered
        <3> QED BY <3>1, <3>2, FindsTyped
    <2> QED BY <2>1, <2>2, <2>3 DEF OpTypes, NodeOps!TypeOK, SaysOfKind
<1>3. CASE NodeOps!idsAnswered(p)
    <2>1. ASSUME NEW o \in Operators
          PROVE  LET q == [p EXCEPT !.kind = "info", !.of = o, !.says = @ \intersect {o}]
                 IN  q \in NodeOps!Request /\ SaysOfKind(q)
        <3>1. p.says \intersect {o} \subseteq Operators
            OBVIOUS
        <3> QED BY <1>1, <3>1 DEF NodeOps!Request, SaysOfKind
    <2> QED BY <1>3, <2>1, ZenonT(60) DEF NodeOps!idsAnswered, OpTypes, NodeOps!TypeOK, SaysOfKind
<1>4. CASE NodeOps!infoAnswered(p)
    <2>1. [p EXCEPT !.kind = "owner"] \in NodeOps!Request /\ SaysOfKind([p EXCEPT !.kind = "owner"])
        BY <1>1, <1>4 DEF NodeOps!infoAnswered, NodeOps!Request, SaysOfKind
    <2> QED BY <1>4, <2>1 DEF NodeOps!infoAnswered, OpTypes, NodeOps!TypeOK, SaysOfKind
<1>5. CASE NodeOps!ownerAnswered(p)
    <2>1. p.says \X {"bad owner"} \subseteq NodeOps!Findings
        BY <1>1, <1>5 DEF NodeOps!ownerAnswered, SaysOfKind, NodeOps!Findings
    <2>2. found' \subseteq NodeOps!Findings
        BY <1>5, <2>1, FindsTyped DEF NodeOps!ownerAnswered
    <2>3. lastReported' \in [{"stats", "nfts"} -> 0..BotMaxTime]
        BY <1>1, <1>5 DEF NodeOps!ownerAnswered, OpTypes, NodeOps!TypeOK
    <2> QED BY <1>5, <2>2, <2>3 DEF NodeOps!ownerAnswered, OpTypes, NodeOps!TypeOK, SaysOfKind
<1>6. CASE NodeOps!activeSetAnswered(p)
    <2> DEFINE gone == {v \in p.says : NodeOps!mayFire(v, p.block)}
               back == lidoValidatorGoesInactiveReport \ p.says
    <2>1. p.says \subseteq Validators /\ gone \subseteq Validators /\ back \subseteq Validators
        BY <1>1, <1>6 DEF NodeOps!activeSetAnswered, SaysOfKind
    <2>2. (gone \X {"gone"}) \union (back \X {"back"}) \subseteq NodeOps!Findings
        BY <2>1 DEF NodeOps!Findings
    <2>3. /\ pending' = pending \ {p}
          /\ NodeOps!finds(p, (gone \X {"gone"}) \union (back \X {"back"}))
          /\ lidoValidatorGoesInactiveReport' = p.says
          /\ untold' = IF NodeOps!seen(p) THEN untold \ (gone \union back) ELSE untold \union gone \union back
          /\ UNCHANGED <<opNow, chain, opStatus, opRetries, lastReported, news>>
        BY <1>6 DEF NodeOps!activeSetAnswered, NodeOps!popFromReported
    <2> HIDE DEF gone, back
    <2>4. found' \subseteq NodeOps!Findings
        BY <2>2, <2>3, FindsTyped
    <2>5. untold' \subseteq Validators
        BY <2>1, <2>3 DEF OpTypes, NodeOps!TypeOK
    <2> QED BY <2>1, <2>3, <2>4, <2>5 DEF OpTypes, NodeOps!TypeOK, SaysOfKind
<1> QED BY <1>2, <1>3, <1>4, <1>5, <1>6

LEMMA OpTypesFailure ==
    ASSUME OpTypes, NEW p \in pending,
           NodeOps!requestFails(p) \/ NodeOps!ownerFails(p)
    PROVE  OpTypes'
<1>1. untold \union lidoValidatorGoesInactiveReport \union NodeOps!toldOf(found) \subseteq Validators
    BY DEF NodeOps!toldOf, OpTypes, NodeOps!TypeOK
<1>2. pending \ {p} \subseteq NodeOps!Request /\ \A q \in pending \ {p} : SaysOfKind(q)
    BY DEF OpTypes, NodeOps!TypeOK
<1>3. p.block \in NodeOps!Blocks /\ chain[p.block] \in Said
    BY DEF OpTypes, NodeOps!TypeOK, NodeOps!Request, Said, StatsSaid
<1>4. CASE NodeOps!requestFails(p)
    <2>1. /\ UNCHANGED <<opNow, chain, lidoValidatorGoesInactiveReport, lastReported, news>>
          /\ found' \subseteq found /\ untold' \subseteq untold \union NodeOps!toldOf(found)
          /\ opStatus' \in {opStatus, "errored"}
          /\ \/ opRetries[p.block] > 0
                /\ opRetries' = [opRetries EXCEPT ![p.block] = @ - 1]
             \/ UNCHANGED opRetries
          /\ pending' \subseteq (pending \ {p}) \union NodeOps!orphaned(p.block, pending \ {p})
                                \union NodeOps!calls(p.block, chain[p.block])
        BY <1>4 DEF NodeOps!requestFails
    <2>2. opRetries' \in [NodeOps!Blocks -> 0..maxHandlerRetries]
        <3>1. opRetries[p.block] \in 0..maxHandlerRetries
            BY <1>3 DEF OpTypes, NodeOps!TypeOK
        <3>2. opRetries[p.block] > 0 => opRetries[p.block] - 1 \in 0..maxHandlerRetries
            BY <3>1, OpNumbers
        <3> QED BY <2>1, <3>2 DEF OpTypes, NodeOps!TypeOK
    <2>3. pending' \subseteq NodeOps!Request /\ \A q \in pending' : SaysOfKind(q)
        <3>1. /\ NodeOps!orphaned(p.block, pending \ {p}) \subseteq NodeOps!Request
              /\ \A q \in NodeOps!orphaned(p.block, pending \ {p}) : SaysOfKind(q)
            BY <1>2, <1>3, OrphansTyped
        <3>2. /\ NodeOps!calls(p.block, chain[p.block]) \subseteq NodeOps!Request
              /\ \A q \in NodeOps!calls(p.block, chain[p.block]) : SaysOfKind(q)
            BY <1>3, CallsTyped
        <3> QED BY <1>2, <2>1, <3>1, <3>2
    <2> QED BY <1>1, <2>1, <2>2, <2>3 DEF OpTypes, NodeOps!TypeOK, SaysOfKind
<1>5. CASE NodeOps!ownerFails(p)
    <2>1. CASE pending' = pending \ {p} /\ UNCHANGED <<opStatus, opRetries, found,
                    lidoValidatorGoesInactiveReport, lastReported, untold>>
        BY <1>2, <1>5, <2>1 DEF NodeOps!ownerFails, OpTypes, NodeOps!TypeOK, SaysOfKind
    <2>2. CASE /\ pending' = {} /\ found' = {} /\ opStatus' = "none"
               /\ opRetries' = [b \in NodeOps!Blocks |-> 0]
               /\ lidoValidatorGoesInactiveReport' = {}
               /\ lastReported' = [k \in {"stats", "nfts"} |-> 0]
               /\ untold' = untold \union lidoValidatorGoesInactiveReport \union NodeOps!toldOf(found)
        <3>1. opRetries' \in [NodeOps!Blocks -> 0..maxHandlerRetries]
            BY <2>2, OpNumbers
        <3>2. lastReported' \in [{"stats", "nfts"} -> 0..BotMaxTime]
            BY <2>2, OpNumbers
        <3> QED BY <1>1, <1>5, <2>2, <3>1, <3>2 DEF NodeOps!ownerFails, OpTypes, NodeOps!TypeOK, SaysOfKind
    <2> QED BY <1>5, <2>1, <2>2 DEF NodeOps!ownerFails
<1> QED BY <1>4, <1>5

LEMMA OpTypesNext == OpTypes /\ [NodeOps!Next]_(NodeOps!vars) => OpTypes'
<1> SUFFICES ASSUME OpTypes, [NodeOps!Next]_(NodeOps!vars) PROVE OpTypes'
    OBVIOUS
<1>1. CASE NodeOps!callReturns
    <2>1. news' \in [Validators -> {"none", "gone", "back"}]
        BY <1>1 DEF NodeOps!callReturns, OpTypes, NodeOps!TypeOK
    <2> QED BY <1>1, <2>1 DEF NodeOps!callReturns, OpTypes, NodeOps!TypeOK, SaysOfKind
<1>2. CASE NodeOps!timeout
    <2>1. untold' \subseteq Validators
        BY <1>2 DEF NodeOps!timeout, NodeOps!toldOf, OpTypes, NodeOps!TypeOK
    <2> QED BY <1>2, <2>1 DEF NodeOps!timeout, OpTypes, NodeOps!TypeOK, SaysOfKind
<1>3. CASE UNCHANGED NodeOps!vars
    BY <1>3 DEF NodeOps!vars, OpTypes, NodeOps!TypeOK, SaysOfKind
<1> QED BY <1>1, <1>2, <1>3, OpTypesBlock, OpTypesAnswer, OpTypesFailure DEF NodeOps!Next

-----------------------------------------------------------------------------
(* The call that is waited for asks for the active set once.                  *)
AskedActive == [kind |-> "active", of |-> "all", live |-> TRUE, block |-> opNow,
                says |-> chain[opNow].active]

Asked(p) == /\ p.block <= opNow
            /\ NodeOps!seen(p) /\ p.kind = "active" => p = AskedActive

(* What has been told of a validator when the current call is answered.       *)
latest(v) == IF <<v, "gone">> \in found THEN "gone"
             ELSE IF <<v, "back">> \in found THEN "back" ELSE news[v]

(* What was told, the sub-agent has noted; and, once the call that is waited  *)
(* for has asked, it has noted what is so on the chain: for the validators of *)
(* which no later news was lost.                                              *)
ToldIsNoted == \A v \in Validators \ untold : latest(v) = "gone" <=> v \in lidoValidatorGoesInactiveReport
NotedIsTrue == \A v \in Validators \ untold : v \in lidoValidatorGoesInactiveReport <=> v \in chain[opNow].active

NodeOpsInv ==
    /\ \A p \in pending : Asked(p)
    /\ opStatus # "running" => found = {}
    /\ opStatus = "running" /\ AskedActive \in pending => NodeOps!toldOf(found) = {}
    /\ opStatus = "running" => AskedActive \in pending \/ NotedIsTrue
    /\ opStatus = "answered" => NotedIsTrue
    /\ ToldIsNoted

LEMMA NodeOpsInit == NodeOps!Init => NodeOpsInv
BY DEF NodeOps!Init, NodeOpsInv, ToldIsNoted, latest

LEMMA OpBlockStep == OpTypes /\ NodeOpsInv /\ NodeOps!handleBlock => NodeOpsInv'
<1> SUFFICES ASSUME OpTypes, NodeOpsInv, NodeOps!handleBlock PROVE NodeOpsInv'
    OBVIOUS
<1>1. PICK at \in NodeOps!Chain :
          /\ opStatus # "running" /\ opNow < BotMaxTime /\ opNow' = opNow + 1 /\ opStatus' = "running"
          /\ chain' = [chain EXCEPT ![opNow + 1] = at]
          /\ pending' = pending \union NodeOps!calls(opNow + 1, at)
          /\ found' = {}
          /\ UNCHANGED <<lidoValidatorGoesInactiveReport, news, untold>>
    BY DEF NodeOps!handleBlock
<1>2. opNow \in Nat /\ opNow + 1 \in NodeOps!Blocks /\ at \in Said /\ chain'[opNow + 1] = at
    <2>1. opNow \in BotEpoch..BotMaxTime
        BY DEF OpTypes, NodeOps!TypeOK, NodeOps!Blocks
    <2>2. opNow \in Nat /\ opNow + 1 \in BotEpoch..BotMaxTime
        BY <1>1, <2>1, OpNumbers
    <2>3. chain'[opNow + 1] = at
        BY <1>1, <2>2 DEF OpTypes, NodeOps!TypeOK, NodeOps!Blocks
    <2> QED BY <2>2, <2>3, OpNumbers DEF NodeOps!Blocks
<1>3. AskedActive' = [kind |-> "active", of |-> "all", live |-> TRUE, block |-> opNow + 1, says |-> at.active]
    BY <1>1, <1>2 DEF AskedActive
<1>4. AskedActive' \in pending' /\ \A p \in NodeOps!calls(opNow + 1, at) : Asked(p)'
    BY <1>1, <1>2, <1>3, CallsTyped DEF Asked
<1>5. \A p \in pending : p.block \in Nat /\ p.block <= opNow
    <2>1. \A p \in pending : p.block \in BotEpoch..BotMaxTime
        BY DEF OpTypes, NodeOps!TypeOK, NodeOps!Request, NodeOps!Blocks
    <2> QED BY <2>1, OpNumbers DEF NodeOpsInv, Asked
<1>6. \A p \in pending : Asked(p)'
    BY <1>1, <1>2, <1>5 DEF Asked, NodeOps!seen, NodeOps!current
<1>7. ToldIsNoted' /\ NodeOps!toldOf(found)' = {}
    BY <1>1 DEF NodeOpsInv, ToldIsNoted, latest, NodeOps!toldOf
<1> QED BY <1>1, <1>4, <1>6, <1>7 DEF NodeOpsInv

(* The answers that are not about the active set: they tell of no validator.  *)
LEMMA OtherAnswer ==
    ASSUME OpTypes, NodeOpsInv, NEW p \in pending,
           NodeOps!statsAnswered(p) \/ NodeOps!idsAnswered(p) \/ NodeOps!infoAnswered(p)
               \/ NodeOps!ownerAnswered(p)
    PROVE  NodeOpsInv'
<1>1. /\ UNCHANGED <<opNow, chain, opStatus, lidoValidatorGoesInactiveReport, news, untold>>
      /\ p.kind \in {"stats", "nfts", "info", "owner"}
    BY DEF NodeOps!statsAnswered, NodeOps!idsAnswered, NodeOps!infoAnswered, NodeOps!ownerAnswered
<1>2. Asked(p) /\ p \in NodeOps!Request /\ SaysOfKind(p)
    BY DEF NodeOpsInv, OpTypes, NodeOps!TypeOK
<1>3. \A q \in pending' : Asked(q)' /\ (q \in pending \/ q.kind # "active")
    <2>1. \A q \in pending : Asked(q)'
        BY <1>1 DEF NodeOpsInv, Asked, AskedActive, NodeOps!seen, NodeOps!current
    <2>2. CASE pending' = pending \ {p}
        BY <2>1, <2>2
    <2>3. ASSUME NEW o \in Operators, NEW q,
                 q = [p EXCEPT !.kind = "info", !.of = o, !.says = p.says \intersect {o}]
          PROVE  Asked(q)' /\ q.kind # "active"
        <3>1. q.kind = "info" /\ q.block = p.block
            BY <1>2, <2>3 DEF NodeOps!Request
        <3> QED BY <1>1, <1>2, <3>1 DEF Asked
    <2>4. ASSUME NEW q, q = [p EXCEPT !.kind = "owner"]
          PROVE  Asked(q)' /\ q.kind # "active"
        <3>1. q.kind = "owner" /\ q.block = p.block
            BY <1>2, <2>4 DEF NodeOps!Request
        <3> QED BY <1>1, <1>2, <3>1 DEF Asked
    <2>5. CASE NodeOps!idsAnswered(p)
        BY <2>1, <2>3, <2>5 DEF NodeOps!idsAnswered
    <2>6. CASE NodeOps!infoAnswered(p)
        BY <2>1, <2>4, <2>6 DEF NodeOps!infoAnswered
    <2> QED BY <2>2, <2>5, <2>6 DEF NodeOps!statsAnswered, NodeOps!ownerAnswered
<1>4. AskedActive' = AskedActive /\ (AskedActive \in pending' <=> AskedActive \in pending)
    <2>1. AskedActive' = AskedActive /\ AskedActive # p /\ AskedActive.kind = "active"
        BY <1>1 DEF AskedActive
    <2>2. AskedActive \in pending => AskedActive \in pending'
        BY <2>1 DEF NodeOps!statsAnswered, NodeOps!idsAnswered, NodeOps!infoAnswered, NodeOps!ownerAnswered
    <2> QED BY <1>3, <2>1, <2>2
<1>5. \A v : /\ <<v, "gone">> \in found' <=> <<v, "gone">> \in found
             /\ <<v, "back">> \in found' <=> <<v, "back">> \in found
    <2>1. CASE NodeOps!statsAnswered(p)
        <3>1. PICK S \in SUBSET p.says : NodeOps!finds(p, {"stats"} \X S)
            BY <2>1 DEF NodeOps!statsAnswered
        <3>2. "gone" \notin S /\ "back" \notin S
            BY <1>2, <2>1 DEF NodeOps!statsAnswered, SaysOfKind, StatsSaid
        <3> QED BY <3>1, <3>2 DEF NodeOps!finds
    <2>2. CASE NodeOps!ownerAnswered(p)
        BY <2>2 DEF NodeOps!ownerAnswered, NodeOps!finds
    <2>3. CASE UNCHANGED found
        BY <2>3
    <2> QED BY <2>1, <2>2, <2>3 DEF NodeOps!idsAnswered, NodeOps!infoAnswered
<1>6. opStatus' # "running" => found' = {}
    <2>1. ~NodeOps!seen(p) => found' = found
        BY DEF NodeOps!statsAnswered, NodeOps!ownerAnswered, NodeOps!finds, NodeOps!idsAnswered,
               NodeOps!infoAnswered
    <2> QED BY <1>1, <2>1 DEF NodeOpsInv, NodeOps!seen, NodeOps!current
<1>7. NodeOps!toldOf(found)' = NodeOps!toldOf(found)
    BY <1>5 DEF NodeOps!toldOf
<1>8. ToldIsNoted' /\ NotedIsTrue' = NotedIsTrue
    BY <1>1, <1>5 DEF NodeOpsInv, ToldIsNoted, NotedIsTrue, latest
<1> QED BY <1>1, <1>3, <1>4, <1>6, <1>7, <1>8 DEF NodeOpsInv

(* The active set: what changes is told, or counted as untold.                *)
LEMMA ActiveAnswer ==
    ASSUME NodeOpsInv, NEW p \in pending, NodeOps!activeSetAnswered(p)
    PROVE  NodeOpsInv'
<1> DEFINE R == lidoValidatorGoesInactiveReport
           gone == {v \in p.says : NodeOps!mayFire(v, p.block)}
           back == R \ p.says
<1>1. /\ UNCHANGED <<opNow, chain, opStatus, news>>
      /\ p.kind = "active" /\ pending' = pending \ {p} /\ R' = p.says
      /\ found' = IF NodeOps!seen(p) THEN found \union ((gone \X {"gone"}) \union (back \X {"back"}))
                  ELSE found
      /\ untold' = IF NodeOps!seen(p) THEN untold \ (gone \union back) ELSE untold \union gone \union back
    BY DEF NodeOps!activeSetAnswered, NodeOps!popFromReported, NodeOps!finds
<1>2. Asked(p)
    BY DEF NodeOpsInv
<1>3. AskedActive' = AskedActive /\ \A q \in pending' : Asked(q)' /\ q \in pending
    BY <1>1 DEF NodeOpsInv, Asked, AskedActive, NodeOps!seen, NodeOps!current
<1>4. NodeOps!seen(p) => opStatus = "running"
    BY DEF NodeOps!seen, NodeOps!current
<1>5. \A v \in p.says \ gone : v \in R
    BY DEF NodeOps!mayFire
<1> HIDE DEF gone
<1>6. gone \subseteq p.says
    BY DEF gone
<1>7. CASE NodeOps!seen(p)
    <2>1. p = AskedActive /\ NodeOps!toldOf(found) = {} /\ p.says = chain[opNow].active
        <3>1. p = AskedActive
            BY <1>1, <1>2, <1>7 DEF Asked
        <3>2. NodeOps!toldOf(found) = {}
            BY <1>4, <1>7, <3>1 DEF NodeOpsInv
        <3>3. p.says = chain[opNow].active
            BY <3>1 DEF AskedActive
        <3> QED BY <3>1, <3>2, <3>3
    <2>2. AskedActive' \notin pending' /\ NotedIsTrue'
        BY <1>1, <1>3, <2>1 DEF NotedIsTrue
    <2>3. ASSUME NEW v \in Validators \ untold'
          PROVE  latest(v)' = "gone" <=> v \in R'
        <3>1. <<v, "gone">> \notin found /\ <<v, "back">> \notin found
            BY <2>1 DEF NodeOps!toldOf
        <3>2. CASE v \in gone
            BY <1>1, <1>6, <1>7, <3>2 DEF latest
        <3>3. CASE v \in back
            BY <1>1, <1>6, <1>7, <3>1, <3>3 DEF latest
        <3>4. CASE v \notin gone /\ v \notin back
            <4>1. v \notin untold /\ (v \in R <=> v \in p.says)
                BY <1>1, <1>5, <1>7, <3>4
            <4>2. latest(v)' = latest(v)
                BY <1>1, <1>7, <3>1, <3>4 DEF latest
            <4> QED BY <1>1, <4>1, <4>2 DEF NodeOpsInv, ToldIsNoted
        <3> QED BY <3>2, <3>3, <3>4
    <2> QED BY <1>1, <1>3, <1>4, <1>7, <2>2, <2>3 DEF NodeOpsInv, ToldIsNoted
<1>8. CASE ~NodeOps!seen(p)
    <2>1. opStatus = "running" => p # AskedActive
        BY <1>8 DEF AskedActive, NodeOps!seen, NodeOps!current
    <2>2. opStatus = "running" => (AskedActive' \in pending' <=> AskedActive \in pending)
        BY <1>1, <1>3, <2>1
    <2>3. \A v \in Validators \ untold' : v \notin untold /\ (v \in R' <=> v \in R)
        BY <1>1, <1>5, <1>8
    <2>4. ToldIsNoted' /\ (NotedIsTrue => NotedIsTrue')
        BY <1>1, <1>8, <2>3 DEF NodeOpsInv, ToldIsNoted, NotedIsTrue, latest
    <2> QED BY <1>1, <1>3, <1>8, <2>2, <2>4 DEF NodeOpsInv, NodeOps!toldOf
<1> QED BY <1>7, <1>8

(* When the findings of a call are dropped, what they tell of a validator is  *)
(* counted as untold.                                                         *)
LEMMA Dropped ==
    ASSUME NodeOpsInv, found' = {}, untold' = untold \union NodeOps!toldOf(found),
           UNCHANGED <<lidoValidatorGoesInactiveReport, news>>
    PROVE  ToldIsNoted'
<1> SUFFICES ASSUME NEW v \in Validators \ untold'
             PROVE  latest(v)' = "gone" <=> v \in lidoValidatorGoesInactiveReport'
    BY DEF ToldIsNoted
<1>1. v \notin untold /\ <<v, "gone">> \notin found /\ <<v, "back">> \notin found
    BY DEF NodeOps!toldOf
<1>2. latest(v)' = latest(v)
    BY <1>1 DEF latest
<1> QED BY <1>1, <1>2 DEF NodeOpsInv, ToldIsNoted

LEMMA OpFailureStep ==
    ASSUME OpTypes, NodeOpsInv, NEW p \in pending, NodeOps!requestFails(p)
    PROVE  NodeOpsInv'
<1> DEFINE b == p.block
           rest == NodeOps!orphaned(b, pending \ {p})
           again == NodeOps!calls(b, chain[b])
<1>1. /\ UNCHANGED <<opNow, chain, lidoValidatorGoesInactiveReport, news>>
      /\ found' = IF NodeOps!seen(p) THEN {} ELSE found
      /\ untold' = IF NodeOps!seen(p) THEN untold \union NodeOps!toldOf(found) ELSE untold
      /\ \/ p.live /\ pending' = rest \union again /\ opStatus' = opStatus
         \/ p.live /\ pending' = rest /\ opStatus' = IF NodeOps!current(b) THEN "errored" ELSE opStatus
         \/ ~p.live /\ pending' = pending \ {p} /\ opStatus' = opStatus
    BY DEF NodeOps!requestFails
<1>2. /\ pending \ {p} \subseteq NodeOps!Request /\ \A q \in pending \ {p} : SaysOfKind(q)
      /\ b \in NodeOps!Blocks /\ chain[b] \in Said /\ opNow \in NodeOps!Blocks
      /\ \A q \in pending : q.block <= opNow
    BY DEF OpTypes, NodeOps!TypeOK, NodeOps!Request, Said, StatsSaid, NodeOpsInv, Asked
<1>3. AskedActive' = AskedActive
    BY <1>1 DEF AskedActive
<1>4. /\ \A q \in rest : /\ q.block <= opNow
                         /\ IF q.block = b THEN ~q.live ELSE q \in pending \ {p}
      /\ \A q \in pending \ {p} : q.block # b => q \in rest
    BY <1>2, OrphansTyped
<1>5. /\ \A q \in again : /\ q.block = b /\ q.live
                          /\ q.kind = "active" => q = [kind |-> "active", of |-> "all", live |-> TRUE,
                                                       block |-> b, says |-> chain[b].active]
      /\ [kind |-> "active", of |-> "all", live |-> TRUE, block |-> b, says |-> chain[b].active] \in again
    BY <1>2, CallsTyped
<1> HIDE DEF rest, again, b
<1>6. b <= opNow
    BY <1>2 DEF b
<1>7. \A q \in pending' : Asked(q)'
    <2>1. ASSUME NEW q \in pending PROVE Asked(q)'
        BY <1>1, <1>3 DEF NodeOpsInv, Asked, NodeOps!seen, NodeOps!current
    <2>2. ASSUME NEW q \in rest PROVE Asked(q)'
        BY <1>1, <1>4, <2>1, <2>2 DEF Asked, NodeOps!seen
    <2>3. ASSUME NEW q \in again PROVE Asked(q)'
        BY <1>1, <1>5, <1>6, <2>3 DEF Asked, AskedActive, NodeOps!seen, NodeOps!current
    <2> QED BY <1>1, <2>1, <2>2, <2>3
<1>8. CASE NodeOps!seen(p)
    <2>1. ToldIsNoted' /\ NodeOps!toldOf(found)' = {} /\ found' = {}
        BY <1>1, <1>8, Dropped DEF NodeOps!toldOf
    <2>2. p.live /\ b = opNow /\ opStatus = "running" /\ NodeOps!current(b)
        BY <1>8 DEF NodeOps!seen, NodeOps!current, b
    <2>3. opStatus' = "errored" \/ AskedActive' \in pending'
        BY <1>1, <1>3, <1>5, <2>2 DEF AskedActive
    <2>4. opStatus' \in {"running", "errored"}
        BY <1>1, <2>2
    <2> QED BY <1>7, <2>1, <2>3, <2>4 DEF NodeOpsInv
<1>9. CASE ~NodeOps!seen(p)
    <2>1. UNCHANGED <<found, untold>>
        BY <1>1, <1>9
    <2>2. opStatus' = opStatus
        BY <1>1, <1>9 DEF NodeOps!seen, b
    <2>3. opStatus = "running" => (AskedActive \in pending' <=> AskedActive \in pending)
        <3> SUFFICES ASSUME opStatus = "running"
                     PROVE  AskedActive \in pending' <=> AskedActive \in pending
            OBVIOUS
        <3>1. AskedActive.block = opNow /\ AskedActive.live /\ AskedActive # p
            BY <1>9 DEF AskedActive, NodeOps!seen, NodeOps!current
        <3>2. p.live => b # opNow
            BY <1>9 DEF NodeOps!seen, NodeOps!current, b
        <3>3. p.live => (AskedActive \in rest <=> AskedActive \in pending) /\ AskedActive \notin again
            BY <1>4, <1>5, <3>1, <3>2
        <3> QED BY <1>1, <3>1, <3>3
    <2>4. ToldIsNoted' /\ NotedIsTrue' = NotedIsTrue /\ NodeOps!toldOf(found)' = NodeOps!toldOf(found)
        BY <1>1, <2>1 DEF NodeOpsInv, ToldIsNoted, NotedIsTrue, latest, NodeOps!toldOf
    <2> QED BY <1>3, <1>7, <2>1, <2>2, <2>3, <2>4 DEF NodeOpsInv
<1> QED BY <1>8, <1>9

(* When the process ends, of the validators it has noted no news is sent.     *)
LEMMA OwnerFailureStep ==
    ASSUME NodeOpsInv, NEW p \in pending, NodeOps!ownerFails(p)
    PROVE  NodeOpsInv'
<1>1. p.kind = "owner" /\ UNCHANGED <<opNow, chain, news>> /\ AskedActive' = AskedActive /\ p # AskedActive
    BY DEF NodeOps!ownerFails, AskedActive
<1>2. CASE pending' = pending \ {p} /\ UNCHANGED <<opStatus, found, lidoValidatorGoesInactiveReport, untold>>
    <2>1. \A q \in pending' : Asked(q)'
        BY <1>1, <1>2 DEF NodeOpsInv, Asked, NodeOps!seen, NodeOps!current
    <2>2. ToldIsNoted' /\ NotedIsTrue' = NotedIsTrue /\ NodeOps!toldOf(found)' = NodeOps!toldOf(found)
        BY <1>1, <1>2 DEF NodeOpsInv, ToldIsNoted, NotedIsTrue, latest, NodeOps!toldOf
    <2> QED BY <1>1, <1>2, <2>1, <2>2 DEF NodeOpsInv
<1>3. CASE /\ pending' = {} /\ found' = {} /\ opStatus' = "none" /\ lidoValidatorGoesInactiveReport' = {}
           /\ untold' = untold \union lidoValidatorGoesInactiveReport \union NodeOps!toldOf(found)
    <2>1. ASSUME NEW v \in Validators \ untold' PROVE latest(v)' # "gone"
        <3>1. /\ v \notin untold /\ v \notin lidoValidatorGoesInactiveReport
              /\ <<v, "gone">> \notin found /\ <<v, "back">> \notin found
            BY <1>3 DEF NodeOps!toldOf
        <3> QED BY <1>1, <1>3, <3>1 DEF NodeOpsInv, ToldIsNoted, latest
    <2> QED BY <1>3, <2>1 DEF NodeOpsInv, ToldIsNoted
<1> QED BY <1>2, <1>3 DEF NodeOps!ownerFails

LEMMA OpReturnStep == NodeOpsInv /\ NodeOps!callReturns => NodeOpsInv'
<1> SUFFICES ASSUME NodeOpsInv, NodeOps!callReturns PROVE NodeOpsInv'
    OBVIOUS
<1>1. /\ opStatus = "running" /\ opStatus' = "answered" /\ found' = {}
      /\ \A p \in pending : NodeOps!seen(p) => p.kind = "owner"
      /\ news' = [v \in Validators |-> latest(v)]
      /\ UNCHANGED <<opNow, chain, pending, lidoValidatorGoesInactiveReport, untold>>
    BY DEF NodeOps!callReturns, latest
<1>2. AskedActive \notin pending
    BY <1>1 DEF AskedActive, NodeOps!seen, NodeOps!current
<1>3. NotedIsTrue'
    BY <1>1, <1>2 DEF NodeOpsInv, NotedIsTrue
<1>4. \A p \in pending' : Asked(p)'
    BY <1>1 DEF NodeOpsInv, Asked, NodeOps!seen, NodeOps!current
<1>5. ToldIsNoted'
    BY <1>1 DEF NodeOpsInv, ToldIsNoted, latest
<1> QED BY <1>1, <1>3, <1>4, <1>5 DEF NodeOpsInv

LEMMA OpTimeoutStep == NodeOpsInv /\ NodeOps!timeout => NodeOpsInv'
<1> SUFFICES ASSUME NodeOpsInv, NodeOps!timeout PROVE NodeOpsInv'
    OBVIOUS
<1>1. /\ opStatus' = "errored" /\ found' = {} /\ untold' = untold \union NodeOps!toldOf(found)
      /\ UNCHANGED <<opNow, chain, pending, lidoValidatorGoesInactiveReport, news>>
    BY DEF NodeOps!timeout
<1>2. \A p \in pending' : Asked(p)'
    BY <1>1 DEF NodeOpsInv, Asked, NodeOps!seen, NodeOps!current
<1> QED BY <1>1, <1>2, Dropped DEF NodeOpsInv

LEMMA NodeOpsNext == OpTypes /\ NodeOpsInv /\ [NodeOps!Next]_(NodeOps!vars) => NodeOpsInv'
<1> SUFFICES ASSUME OpTypes, NodeOpsInv, [NodeOps!Next]_(NodeOps!vars) PROVE NodeOpsInv'
    OBVIOUS
<1>1. CASE UNCHANGED NodeOps!vars
    BY <1>1 DEF NodeOps!vars, NodeOpsInv, Asked, AskedActive, ToldIsNoted, NotedIsTrue, latest,
                NodeOps!toldOf, NodeOps!seen, NodeOps!current
<1> QED BY <1>1, OpBlockStep, OpReturnStep, OpTimeoutStep, OtherAnswer, ActiveAnswer, OpFailureStep,
           OwnerFailureStep DEF NodeOps!Next

(* The last news of a validator says whether it is active, unless later news  *)
(* was lost with a call that failed or took too long, or the process that     *)
(* told of it has ended: however requests, retries and the calls of older     *)
(* blocks overlap.                                                            *)
THEOREM NewsIsTrueCorrect == NodeOps!Spec => []NewsIsTrue
<1>1. NodeOpsInv => NewsIsTrue
    BY DEF NewsIsTrue, NodeOps!NewsIsTrue, NodeOpsInv, ToldIsNoted, NotedIsTrue, latest
<1> QED BY OpTypesInit, OpTypesNext, NodeOpsInit, NodeOpsNext, <1>1, PTL DEF NodeOps!Spec

-----------------------------------------------------------------------------
(* The proxies.  As long as no request has failed, a proxy that is not asked  *)
(* any more and that another contract administers has been found.             *)
ProxyInv ==
    /\ retries \in Nat /\ retries <= maxHandlerRetries - 1
    /\ status \in {"running", "answered", "errored"}
    /\ status = "answered" => asked = {}
    /\ retries = maxHandlerRetries - 1 /\ status # "errored" =>
           /\ \A p \in Proxies \ asked : admin[p] = "other" => p \in findings
           /\ \A p \in findings : admin[p] # "ours"

LEMMA ProxyInit == ProxyAdmin!Init => ProxyInv
BY BotsAssumption DEF ProxyAdmin!ProxyAdminAssumption, ProxyAdmin!Init, ProxyInv

LEMMA ProxyNext == ProxyInv /\ [ProxyAdmin!Next]_(ProxyAdmin!vars) => ProxyInv'
<1> SUFFICES ASSUME ProxyInv, [ProxyAdmin!Next]_(ProxyAdmin!vars) PROVE ProxyInv'
    OBVIOUS
<1>1. maxHandlerRetries \in Nat
    BY BotsAssumption DEF ProxyAdmin!ProxyAdminAssumption
<1>2. ASSUME NEW p \in Proxies, ProxyAdmin!adminAnswered(p) PROVE ProxyInv'
    BY <1>2 DEF ProxyInv, ProxyAdmin!adminAnswered, ProxyAdmin!isInvalid, ProxyAdmin!checkedValue
<1>3. ASSUME NEW p \in Proxies, ProxyAdmin!orphanAnswered(p) PROVE ProxyInv'
    BY <1>3 DEF ProxyInv, ProxyAdmin!orphanAnswered
<1>4. ASSUME NEW p \in Proxies, ProxyAdmin!requestFails(p) PROVE ProxyInv'
    BY <1>1, <1>4 DEF ProxyInv, ProxyAdmin!requestFails, ProxyAdmin!mayRetry
<1>5. CASE ProxyAdmin!callReturns
    BY <1>5 DEF ProxyInv, ProxyAdmin!callReturns
<1>6. CASE UNCHANGED ProxyAdmin!vars
    BY <1>6 DEF ProxyInv, ProxyAdmin!vars
<1> QED BY <1>2, <1>3, <1>4, <1>5, <1>6 DEF ProxyAdmin!Next

(* A block that is answered at its first attempt tells of exactly the proxies *)
(* another contract administers, and perhaps of unknown ones, in whichever    *)
(* order the answers come.                                                    *)
THEOREM AdminsAreToldCorrect == ProxyAdmin!Spec => []AdminsAreTold
<1>1. ProxyInv => AdminsAreTold
    BY DEF ProxyInv, AdminsAreTold, ProxyAdmin!AdminsAreTold
<1> QED BY ProxyInit, ProxyNext, <1>1, PTL DEF ProxyAdmin!Spec
-----------------------------------------------------------------------------
(* The voting watcher.  A vote that was in the map of an answered block still *)
(* is, or its end has been found by some run.                                 *)
VoteRun == [block : Nat, left : Nat, at : {"none", "votes", "pinger"}, found : SUBSET Voting!Notices]
VoteTyped ==
    /\ voteNow \in Nat /\ voteAnswered \in Nat
    /\ votes \in [Voting!Votes -> [from : Nat, to : Nat, many : BOOLEAN, passes : BOOLEAN]]
    /\ DOMAIN activeVotes \subseteq Voting!Votes
    /\ voteRun \in VoteRun /\ late \subseteq VoteRun
    /\ known \subseteq Voting!Votes

(* Told, dropped, or found by a run in the background; or by the current run. *)
EndKnown(k) == <<k, "over">> \in told \union dropped \union UNION {r.found : r \in late}
EndFound(k) == EndKnown(k) \/ <<k, "over">> \in voteRun.found

MapKeepsKnown == \A k \in known : k \in DOMAIN activeVotes \/ EndFound(k)
PingerHasFound ==
    voteRun.at = "pinger" => \A k \in known : voteRun.block >= votes[k].to => EndFound(k)
VoteInv == VoteTyped /\ MapKeepsKnown /\ PingerHasFound /\ EndIsTold

LEMMA VoteInit == Voting!Init => VoteInv
<1> SUFFICES ASSUME Voting!Init PROVE VoteInv
    OBVIOUS
<1>1. VoteStart \in Nat /\ VoteMaxBlock \in Nat
    BY BotsAssumption DEF Voting!VotingAssumption
<1>2. /\ voteNow = VoteStart /\ voteAnswered = VoteStart /\ voteRun = Voting!NoRun /\ late = {}
      /\ known = Voting!open(VoteStart) /\ DOMAIN activeVotes = Voting!open(VoteStart)
      /\ Voting!open(VoteStart) \subseteq Voting!Votes
    BY DEF Voting!Init, Voting!open
<1>3. votes \in [Voting!Votes -> [from : Nat, to : Nat, many : BOOLEAN, passes : BOOLEAN]]
    <2>1. VoteStart..VoteStart + 2 \subseteq Nat /\ VoteStart + 3..VoteMaxBlock \subseteq Nat
        BY <1>1
    <2>2. votes \in [Voting!Votes -> [from : VoteStart..VoteStart + 2, to : VoteStart + 3..VoteMaxBlock,
                                      many : BOOLEAN, passes : BOOLEAN]]
        BY DEF Voting!Init
    <2> QED BY <2>1, <2>2
<1>4. voteRun \in VoteRun /\ voteRun.at = "none"
    BY <1>1, <1>2 DEF Voting!NoRun, VoteRun
<1>5. VoteTyped
    BY <1>1, <1>2, <1>3, <1>4 DEF VoteTyped
<1>6. EndIsTold
    <2> SUFFICES ASSUME NEW k \in known PROVE ~(VoteStart >= votes[k].to)
        BY <1>2 DEF EndIsTold, Voting!EndIsTold
    <2>1. VoteStart < votes[k].to /\ k \in Voting!Votes
        BY <1>2 DEF Voting!open
    <2>2. votes[k].to \in Nat
        BY <1>3, <2>1
    <2> QED BY <1>1, <2>1, <2>2
<1> QED BY <1>2, <1>4, <1>5, <1>6 DEF VoteInv, MapKeepsKnown, PingerHasFound

(* What a run does with the map: it reads all votes, or goes through them.    *)
LEMMA VotesReadStep ==
    ASSUME NEW r \in VoteRun, Voting!votesRead(r), VoteTyped
    PROVE  /\ DOMAIN activeVotes' \subseteq Voting!Votes
           /\ Voting!afterVotes(r) \in VoteRun
           /\ Voting!afterVotes(r).block = r.block
           /\ r.found \subseteq Voting!afterVotes(r).found
           /\ \A k \in DOMAIN activeVotes :
                  k \in DOMAIN activeVotes' \/ <<k, "over">> \in Voting!afterVotes(r).found
           /\ \A k \in DOMAIN activeVotes :
                  r.block >= votes[k].to => <<k, "over">> \in Voting!afterVotes(r).found
<1>1. DOMAIN activeVotes' = Voting!open(r.block) /\ Voting!open(r.block) \subseteq Voting!Votes
    BY DEF Voting!votesRead, Voting!merged, Voting!open
<1>2. Voting!stateNews(r.block) \subseteq Voting!Notices
    <2>1. \A k \in Voting!knownVotes(r.block) : k \in Voting!Votes
        BY DEF Voting!knownVotes, VoteTyped
    <2> QED BY <2>1 DEF Voting!stateNews, Voting!Notices, Voting!Kinds
<1>3. \A k \in DOMAIN activeVotes : k \notin Voting!open(r.block) => <<k, "over">> \in Voting!stateNews(r.block)
    BY DEF Voting!stateNews, Voting!knownVotes
<1>4. /\ Voting!afterVotes(r) \in VoteRun
      /\ Voting!afterVotes(r).block = r.block
      /\ Voting!afterVotes(r).found = r.found \union Voting!stateNews(r.block)
    BY <1>2 DEF Voting!afterVotes, VoteRun
<1>5. ASSUME NEW k \in DOMAIN activeVotes, r.block >= votes[k].to PROVE k \notin Voting!open(r.block)
    <2>1. votes[k].to \in Nat /\ r.block \in Nat
        BY DEF VoteTyped, VoteRun
    <2> QED BY <1>5, <2>1 DEF Voting!open
<1> QED BY <1>1, <1>3, <1>4, <1>5

LEMMA RetriedRun ==
    ASSUME NEW r \in VoteRun, r.left > 0
    PROVE  Voting!retried(r) \in VoteRun /\ Voting!retried(r).at = "votes"
<1>1. r.left - 1 \in Nat
    BY DEF VoteRun
<1> QED BY <1>1 DEF VoteRun, Voting!retried

(* The steps that answer no block.                                            *)
LEMMA EndStays ==
    ASSUME VoteInv, UNCHANGED <<votes, known, voteAnswered>>,
           \A k \in known : EndKnown(k) => EndKnown(k)'
    PROVE  EndIsTold'
BY DEF VoteInv, EndIsTold, Voting!EndIsTold, EndKnown

(* The steps that leave the map alone, and the current run or its votes.      *)
LEMMA MapStays ==
    ASSUME VoteInv, UNCHANGED <<votes, known, voteAnswered>>, VoteTyped',
           DOMAIN activeVotes \subseteq DOMAIN activeVotes',
           \A k \in known : EndKnown(k) => EndKnown(k)',
           \A k \in known : EndFound(k) => EndFound(k)',
           voteRun' = voteRun \/ voteRun'.at # "pinger"
    PROVE  VoteInv'
<1>1. EndIsTold'
    BY EndStays
<1> QED BY <1>1 DEF VoteInv, MapKeepsKnown, PingerHasFound

LEMMA VoteNext == VoteInv /\ [Voting!Next]_(Voting!vars) => VoteInv'
<1> SUFFICES ASSUME VoteInv, [Voting!Next]_(Voting!vars) PROVE VoteInv'
    OBVIOUS
<1> USE DEF VoteInv
<1>1. CASE UNCHANGED Voting!vars
    BY <1>1 DEF VoteTyped, MapKeepsKnown, PingerHasFound, EndIsTold, Voting!EndIsTold, EndFound, EndKnown,
                Voting!vars
<1>2. CASE Voting!handleBlock
    <2>1. /\ voteRun = Voting!NoRun /\ UNCHANGED <<votes, activeVotes, late, voteAnswered, known, told, dropped>>
          /\ voteNow' = voteNow + 1
          /\ voteRun' = [block |-> voteNow + 1, left |-> maxHandlerRetries - 1, at |-> "votes", found |-> {}]
        BY <1>2 DEF Voting!handleBlock
    <2>2. maxHandlerRetries - 1 \in Nat
        BY BotsAssumption DEF Voting!VotingAssumption
    <2>3. voteRun' \in VoteRun /\ voteRun'.at = "votes" /\ voteNow' \in Nat
        BY <2>1, <2>2 DEF VoteRun, VoteTyped
    <2>4. VoteTyped'
        BY <2>1, <2>3 DEF VoteTyped
    <2>5. voteRun.found = {}
        BY <2>1 DEF Voting!NoRun
    <2>6. \A k \in known : (EndKnown(k) => EndKnown(k)') /\ (EndFound(k) => EndFound(k)')
        BY <2>1, <2>5 DEF EndKnown, EndFound
    <2> QED BY <2>1, <2>3, <2>4, <2>6, MapStays
<1>3. CASE Voting!runVotesRead
    <2>1. /\ Voting!votesRead(voteRun) /\ voteRun' = Voting!afterVotes(voteRun)
          /\ UNCHANGED <<voteNow, votes, late, voteAnswered, known, told, dropped>>
        BY <1>3 DEF Voting!runVotesRead
    <2>2. PICK r \in VoteRun : r = voteRun
        BY DEF VoteTyped
    <2>3. /\ DOMAIN activeVotes' \subseteq Voting!Votes
          /\ voteRun' \in VoteRun /\ voteRun'.block = r.block
          /\ r.found \subseteq voteRun'.found
          /\ \A k \in DOMAIN activeVotes : k \in DOMAIN activeVotes' \/ <<k, "over">> \in voteRun'.found
          /\ \A k \in DOMAIN activeVotes : r.block >= votes[k].to => <<k, "over">> \in voteRun'.found
        BY <2>1, <2>2, VotesReadStep
    <2>4. VoteTyped'
        BY <2>1, <2>3 DEF VoteTyped
    <2>5. \A k \in known : (EndKnown(k) => EndKnown(k)') /\ (EndFound(k) => EndFound(k)')
        BY <2>1, <2>2, <2>3 DEF EndKnown, EndFound
    <2>6. EndIsTold'
        BY <2>1, <2>5, EndStays
    <2>7. MapKeepsKnown'
        BY <2>1, <2>3, <2>5 DEF MapKeepsKnown, EndFound
    <2>8. PingerHasFound'
        BY <2>1, <2>3, <2>5 DEF MapKeepsKnown, PingerHasFound, EndFound
    <2> QED BY <2>4, <2>6, <2>7, <2>8
<1>4. CASE Voting!runReturns
    <2>1. /\ Voting!pinged(voteRun) /\ told' = told \union Voting!afterPinger(voteRun)
          /\ voteAnswered' = voteRun.block
          /\ known' = known \union (DOMAIN activeVotes \intersect Voting!open(voteRun.block))
          /\ voteRun' = Voting!NoRun /\ UNCHANGED <<voteNow, votes, late, dropped>>
        BY <1>4 DEF Voting!runReturns
    <2>2. /\ voteRun.at = "pinger" /\ DOMAIN activeVotes' = DOMAIN activeVotes
          /\ voteRun.found \subseteq told'
        BY <2>1 DEF Voting!pinged, Voting!afterPinger
    <2>3. voteRun' \in VoteRun /\ voteRun'.at = "none"
        <3>1. VoteStart \in Nat
            BY BotsAssumption DEF Voting!VotingAssumption
        <3> QED BY <2>1, <3>1 DEF Voting!NoRun, VoteRun
    <2>4. voteRun.block \in Nat
        BY DEF VoteTyped, VoteRun
    <2>5. VoteTyped'
        BY <2>1, <2>2, <2>3, <2>4 DEF VoteTyped
    <2>6. \A k : EndFound(k) => EndKnown(k)' /\ EndFound(k)'
        BY <2>1, <2>2 DEF EndKnown, EndFound
    <2>7. MapKeepsKnown'
        BY <2>1, <2>2, <2>6 DEF MapKeepsKnown
    <2>8. ASSUME NEW k \in known', voteAnswered' >= votes'[k].to PROVE EndKnown(k)'
        <3>1. CASE k \in known
            BY <2>1, <2>2, <2>6, <2>8, <3>1 DEF PingerHasFound
        <3>2. CASE k \in Voting!open(voteRun.block)
            <4>1. voteRun.block < votes[k].to /\ k \in Voting!Votes
                BY <3>2 DEF Voting!open
            <4>2. votes[k].to \in Nat
                BY <4>1 DEF VoteTyped
            <4> QED BY <2>1, <2>4, <2>8, <4>1, <4>2
        <3> QED BY <2>1, <3>1, <3>2
    <2>9. EndIsTold'
        BY <2>8 DEF EndIsTold, Voting!EndIsTold, EndKnown
    <2> QED BY <2>3, <2>5, <2>7, <2>9 DEF PingerHasFound
<1>5. CASE Voting!runFails
    <2>1. /\ voteRun' = IF voteRun.left > 0 THEN Voting!retried(voteRun) ELSE Voting!NoRun
          /\ dropped' = dropped \union voteRun.found
          /\ UNCHANGED <<voteNow, votes, activeVotes, late, voteAnswered, known, told>>
        BY <1>5 DEF Voting!runFails
    <2>2. voteRun' \in VoteRun /\ voteRun'.at # "pinger"
        <3>1. PICK r \in VoteRun : r = voteRun
            BY DEF VoteTyped
        <3>2. Voting!NoRun \in VoteRun /\ Voting!NoRun.at = "none"
            <4>1. VoteStart \in Nat
                BY BotsAssumption DEF Voting!VotingAssumption
            <4> QED BY <4>1 DEF Voting!NoRun, VoteRun
        <3>3. CASE r.left > 0
            BY <2>1, <3>1, <3>3, RetriedRun
        <3>4. CASE ~(r.left > 0)
            BY <2>1, <3>1, <3>2, <3>4
        <3> QED BY <3>3, <3>4
    <2>3. VoteTyped'
        BY <2>1, <2>2 DEF VoteTyped
    <2>4. \A k \in known : (EndKnown(k) => EndKnown(k)') /\ (EndFound(k) => EndFound(k)')
        BY <2>1 DEF EndKnown, EndFound
    <2> QED BY <2>1, <2>2, <2>3, <2>4, MapStays
<1>6. CASE Voting!runTimesOut
    <2>1. /\ late' = late \union {voteRun} /\ voteRun' = Voting!NoRun
          /\ UNCHANGED <<voteNow, votes, activeVotes, voteAnswered, known, told, dropped>>
        BY <1>6 DEF Voting!runTimesOut
    <2>2. voteRun' \in VoteRun /\ voteRun'.at = "none"
        <3>1. VoteStart \in Nat
            BY BotsAssumption DEF Voting!VotingAssumption
        <3> QED BY <2>1, <3>1 DEF Voting!NoRun, VoteRun
    <2>3. VoteTyped'
        BY <2>1, <2>2 DEF VoteTyped
    <2>4. \A k \in known : (EndKnown(k) => EndKnown(k)') /\ (EndFound(k) => EndFound(k)')
        BY <2>1 DEF EndKnown, EndFound
    <2> QED BY <2>1, <2>2, <2>3, <2>4, MapStays
<1>7. ASSUME NEW r \in late, Voting!lateVotesRead(r) PROVE VoteInv'
    <2>1. /\ Voting!votesRead(r) /\ late' = (late \ {r}) \union {Voting!afterVotes(r)}
          /\ UNCHANGED <<voteNow, votes, voteRun, voteAnswered, known, told, dropped>>
        BY <1>7 DEF Voting!lateVotesRead
    <2>2. /\ DOMAIN activeVotes' \subseteq Voting!Votes
          /\ Voting!afterVotes(r) \in VoteRun
          /\ r.found \subseteq Voting!afterVotes(r).found
          /\ \A k \in DOMAIN activeVotes :
                 k \in DOMAIN activeVotes' \/ <<k, "over">> \in Voting!afterVotes(r).found
        <3>1. r \in VoteRun
            BY DEF VoteTyped
        <3> QED BY <2>1, <3>1, VotesReadStep
    <2>3. VoteTyped'
        BY <2>1, <2>2 DEF VoteTyped
    <2>4. UNION {s.found : s \in late} \subseteq UNION {s.found : s \in late'}
          /\ Voting!afterVotes(r).found \subseteq UNION {s.found : s \in late'}
        <3>1. ASSUME NEW s \in late PROVE s.found \subseteq UNION {t.found : t \in late'}
            <4>1. CASE s = r
                BY <2>1, <2>2, <4>1
            <4>2. CASE s # r
                BY <2>1, <4>2
            <4> QED BY <4>1, <4>2
        <3> QED BY <2>1, <3>1
    <2>5. \A k \in known : (EndKnown(k) => EndKnown(k)') /\ (EndFound(k) => EndFound(k)')
        BY <2>1, <2>4 DEF EndKnown, EndFound
    <2>6. EndIsTold'
        BY <2>1, <2>5, EndStays
    <2>7. MapKeepsKnown'
        BY <2>1, <2>2, <2>4, <2>5 DEF MapKeepsKnown, EndFound, EndKnown
    <2> QED BY <2>1, <2>3, <2>5, <2>6, <2>7 DEF PingerHasFound
<1>8. ASSUME NEW r \in late, Voting!lateReturns(r) PROVE VoteInv'
    <2>1. /\ late' = late \ {r} /\ dropped' = dropped \union Voting!afterPinger(r)
          /\ DOMAIN activeVotes' = DOMAIN activeVotes /\ r.found \subseteq dropped'
          /\ UNCHANGED <<voteNow, votes, voteRun, voteAnswered, known, told>>
        BY <1>8 DEF Voting!lateReturns, Voting!pinged, Voting!afterPinger
    <2>2. VoteTyped'
        BY <2>1 DEF VoteTyped
    <2>3. \A k \in known : (EndKnown(k) => EndKnown(k)') /\ (EndFound(k) => EndFound(k)')
        BY <2>1 DEF EndKnown, EndFound
    <2> QED BY <2>1, <2>2, <2>3, MapStays
<1>9. ASSUME NEW r \in late, Voting!lateFails(r) PROVE VoteInv'
    <2>1. /\ late' = IF r.left > 0 THEN (late \ {r}) \union {Voting!retried(r)} ELSE late \ {r}
          /\ dropped' = dropped \union r.found
          /\ UNCHANGED <<voteNow, votes, activeVotes, voteRun, voteAnswered, known, told>>
        BY <1>9 DEF Voting!lateFails
    <2>2. late' \subseteq VoteRun /\ late \ {r} \subseteq late'
        BY <2>1, RetriedRun DEF VoteTyped
    <2>3. VoteTyped'
        BY <2>1, <2>2 DEF VoteTyped
    <2>4. \A k \in known : (EndKnown(k) => EndKnown(k)') /\ (EndFound(k) => EndFound(k)')
        BY <2>1, <2>2 DEF EndKnown, EndFound
    <2> QED BY <2>1, <2>3, <2>4, MapStays
<1> QED BY <1>1, <1>2, <1>3, <1>4, <1>5, <1>6, <1>7, <1>8, <1>9 DEF Voting!Next

(* The map loses a vote only with the run that finds its end: told with the   *)
(* answer of this run, dropped with it, or still with it in the background.   *)
THEOREM EndIsToldCorrect == Voting!Spec => []EndIsTold
<1>1. VoteInv => EndIsTold
    BY DEF VoteInv
<1> QED BY <1>1, VoteInit, VoteNext, PTL DEF Voting!Spec

-----------------------------------------------------------------------------
(* csm-alerts.  The instance has finite sets and cardinalities of its own,    *)
(* which are those the library's theorems speak of.                           *)
LEMMA CsmFinite == \A S : Csm!IsFiniteSet(S) = IsFiniteSet(S)
BY Zenon DEF Csm!IsFiniteSet, IsFiniteSet

LEMMA CsmCardinality == \A S : Csm!Cardinality(S) = Cardinality(S)
BY Zenon DEF Csm!Cardinality, Cardinality

(* Every operator that is recorded counts for each of its addresses: what is  *)
(* counted is never less than what is shared.                                 *)
LEMMA EventsAreFinite ==
    ASSUME IsFiniteSet(Numbers), nodeOperatorAddedEvents \in [Numbers -> Nat]
    PROVE  IsFiniteSet(Csm!Events)
<1> DEFINE eventsOf(o) == {o} \X (1..nodeOperatorAddedEvents[o])
           all == {eventsOf(o) : o \in Numbers}
           f == [o \in Numbers |-> eventsOf(o)]
<1>1. ASSUME NEW o \in Numbers PROVE IsFiniteSet(eventsOf(o))
    <2>1. IsFiniteSet({o})
        BY FS_Singleton
    <2>2. nodeOperatorAddedEvents[o] \in Int /\ 1 \in Int
        OBVIOUS
    <2>3. IsFiniteSet(1..nodeOperatorAddedEvents[o])
        BY <2>2, FS_Interval
    <2> QED BY <2>1, <2>3, FS_Product
<1>2. IsFiniteSet(all)
    <2>1. f \in Surjection(Numbers, all)
        BY DEF Surjection
    <2> HIDE DEF all, f
    <2> QED BY <2>1, FS_Surjection
<1>3. \A T \in all : IsFiniteSet(T)
    BY <1>1
<1>4. IsFiniteSet(UNION all)
    <2> HIDE DEF all
    <2> QED BY <1>2, <1>3, FS_UNION
<1> QED BY <1>4 DEF Csm!Events

LEMMA FirstEvents ==
    ASSUME NEW R, NEW X, IsFiniteSet(X), \A o \in R : <<o, 1>> \in X
    PROVE  IsFiniteSet(R) /\ Cardinality(R) \in Nat /\ Cardinality(X) \in Nat
           /\ Cardinality(R) <= Cardinality(X)
<1> DEFINE f == [o \in R |-> <<o, 1>>]
<1>1. f \in Injection(R, X)
    <2>1. f \in [R -> X]
        OBVIOUS
    <2>2. \A a, b \in R : f[a] = f[b] => a = b
        OBVIOUS
    <2> HIDE DEF f
    <2> QED BY <2>1, <2>2 DEF Injection, IsInjective
<1> HIDE DEF f
<1>2. IsFiniteSet(R) /\ Cardinality(R) <= Cardinality(X)
    BY <1>1, FS_Injection
<1> QED BY <1>2, FS_CardinalityType

LEMMA CountedIsShared ==
    ASSUME IsFiniteSet(Numbers), MaxSame \in Nat, nodeOperatorAddedEvents \in [Numbers -> Nat],
           addressCounts \in [Addresses -> Nat], NEW a \in Addresses
    PROVE  /\ Csm!counted(a) \in Nat
           /\ a \in Csm!Shared(Csm!Recorded) => Csm!counted(a) > MaxSame
<1> DEFINE M == {o \in Csm!Recorded : added[o].manager = a}
           R == {o \in Csm!Recorded : added[o].reward = a}
           X == {e \in Csm!Events : added[e[1]].manager = a}
           Y == {e \in Csm!Events : added[e[1]].reward = a}
<1>1. IsFiniteSet(X) /\ IsFiniteSet(Y)
    BY EventsAreFinite, FS_Subset
<1>2. \A o \in Csm!Recorded : <<o, 1>> \in Csm!Events
    <2> SUFFICES ASSUME NEW o \in Csm!Recorded PROVE <<o, 1>> \in {o} \X (1..nodeOperatorAddedEvents[o])
        BY DEF Csm!Events, Csm!Recorded
    <2>1. nodeOperatorAddedEvents[o] \in Nat /\ nodeOperatorAddedEvents[o] > 0
        BY DEF Csm!Recorded
    <2>2. 1 \in 1..nodeOperatorAddedEvents[o]
        BY <2>1
    <2> QED BY <2>2
<1>3. /\ IsFiniteSet(M) /\ Cardinality(M) \in Nat /\ Cardinality(X) \in Nat
      /\ Cardinality(M) <= Cardinality(X)
    <2>1. \A o \in M : <<o, 1>> \in X
        BY <1>2
    <2> HIDE DEF M, X
    <2> QED BY <1>1, <2>1, FirstEvents
<1>4. /\ IsFiniteSet(R) /\ Cardinality(R) \in Nat /\ Cardinality(Y) \in Nat
      /\ Cardinality(R) <= Cardinality(Y)
    <2>1. \A o \in R : <<o, 1>> \in Y
        BY <1>2
    <2> HIDE DEF R, Y
    <2> QED BY <1>1, <2>1, FirstEvents
<1>5. Csm!counted(a) = addressCounts[a] + Cardinality(X) + Cardinality(Y) /\ addressCounts[a] \in Nat
    BY CsmCardinality DEF Csm!counted
<1>6. Csm!OperatorsOf(a) \intersect Csm!Recorded = M \union R
    BY DEF Csm!OperatorsOf, Csm!Recorded
<1>7. a \in Csm!Shared(Csm!Recorded) => Cardinality(M \union R) > MaxSame
    BY <1>6, CsmCardinality DEF Csm!Shared
<1> HIDE DEF M, R, X, Y
<1>8. Cardinality(M \union R) \in Nat /\ Cardinality(M \union R) <= Cardinality(M) + Cardinality(R)
    <2>1. /\ IsFiniteSet(M \union R)
          /\ Cardinality(M \union R) = Cardinality(M) + Cardinality(R) - Cardinality(M \intersect R)
        BY <1>3, <1>4, FS_Union
    <2>2. Cardinality(M \intersect R) \in Nat
        BY <1>3, FS_Intersection, FS_CardinalityType
    <2>3. Cardinality(M \union R) \in Nat
        BY <2>1, FS_CardinalityType
    <2> QED BY <1>3, <1>4, <2>1, <2>2, <2>3
<1> QED BY <1>3, <1>4, <1>5, <1>7, <1>8

(* More recorded operators share the address with no fewer.                   *)
LEMMA SharedGrows ==
    ASSUME IsFiniteSet(Numbers), MaxSame \in Nat, NEW S, NEW T, S \subseteq T, NEW a \in Csm!Shared(S)
    PROVE  a \in Csm!Shared(T)
<1> DEFINE s == Csm!OperatorsOf(a) \intersect S
           t == Csm!OperatorsOf(a) \intersect T
<1>1. IsFiniteSet(t)
    <2>1. t \in SUBSET Numbers
        BY DEF Csm!OperatorsOf
    <2> QED BY <2>1, FS_Subset
<1>2. s \in SUBSET t
    OBVIOUS
<1>3. a \in Addresses /\ Cardinality(s) > MaxSame
    BY CsmCardinality DEF Csm!Shared
<1> HIDE DEF s, t
<1>4. IsFiniteSet(s) /\ Cardinality(s) <= Cardinality(t)
    BY <1>1, <1>2, FS_Subset
<1>5. Cardinality(s) \in Nat /\ Cardinality(t) \in Nat
    BY <1>1, <1>4, FS_CardinalityType
<1>6. Cardinality(t) > MaxSame
    BY <1>3, <1>4, <1>5
<1> QED BY <1>3, <1>6, CsmCardinality DEF t, Csm!Shared

(* Only operators of the chain are recorded; the list loses none of them, and *)
(* the process reads all of them again when it starts.                        *)
CsmTyped ==
    /\ head \in Nat /\ csmDelivered \in Nat /\ csmAnswered \in Nat
    /\ lastDuplicateAddressesAlertTimestamp \in Nat
    /\ added \in [Numbers -> [in : Nat, manager : Addresses, reward : Addresses]]
    /\ nodeOperatorAddedEvents \in [Numbers -> Nat] /\ addressCounts \in [Addresses -> Nat]
    /\ calls \subseteq [at : {"summary", "checks"}, number : Nat, found : SUBSET Addresses]
    /\ toldAt \in [Addresses -> Nat] /\ sharedFrom \in [Addresses -> Nat]
RecordedIsAdded ==
    /\ \A n \in txs : n \in Nat /\ n <= head
    /\ \A o \in Numbers : nodeOperatorAddedEvents[o] > 0 => added[o].in <= head
SharedIsRecorded == \A a \in Addresses : sharedFrom[a] # 0 => a \in Csm!Shared(Csm!Recorded)

(* All that is remembered is of the blocks given to handleBlock.              *)
NothingIsAhead ==
    /\ lastDuplicateAddressesAlertTimestamp <= csmDelivered /\ csmAnswered <= csmDelivered
    /\ csmDelivered <= head
    /\ \A c \in calls : c.number <= csmDelivered /\ (c.at = "summary" => c.found = {})

(* An address was alerted no more than d blocks before n, or the alert is     *)
(* under way.                                                                 *)
Covered(a, n, d) == toldAt[a] + d >= n \/ \E c \in calls : a \in c.found /\ c.number + d >= n

(* The one throttle: when it was set after an address was counted as shared,  *)
(* the address was found with the others.                                     *)
ThrottleTold ==
    \A a \in Addresses :
        sharedFrom[a] # 0 /\ lastDuplicateAddressesAlertTimestamp > sharedFrom[a] =>
            Covered(a, lastDuplicateAddressesAlertTimestamp, 0)
ChecksTell ==
    \A c \in calls : c.at = "checks" =>
        \A a \in Addresses : sharedFrom[a] # 0 /\ c.number > sharedFrom[a] + OneDay =>
            Covered(a, c.number, OneDay)
AnswersTold ==
    \A a \in Addresses :
        sharedFrom[a] # 0 /\ csmAnswered > sharedFrom[a] + OneDay => Covered(a, csmAnswered, OneDay)

CsmInv == CsmTyped /\ RecordedIsAdded /\ SharedIsRecorded /\ NothingIsAhead /\ ThrottleTold /\ ChecksTell
          /\ AnswersTold

LEMMA CsmNumbers == {MaxSame, OneDay, CsmStart, CsmMaxBlock} \subseteq Nat /\ IsFiniteSet(Numbers)
BY BotsAssumption, CsmFinite DEF Csm!CsmAssumption

LEMMA CsmInit == Csm!Init => CsmInv
<1> SUFFICES ASSUME Csm!Init PROVE CsmInv
    OBVIOUS
<1> USE CsmNumbers
<1>1. /\ head = CsmStart /\ csmDelivered = CsmStart /\ csmAnswered = 0
      /\ lastDuplicateAddressesAlertTimestamp = 0 /\ txs = {} /\ calls = {}
      /\ nodeOperatorAddedEvents = Csm!eventsTo(CsmStart)
      /\ addressCounts = [a \in Addresses |-> 0]
      /\ toldAt = [a \in Addresses |-> 0] /\ sharedFrom = [a \in Addresses |-> 0]
    BY DEF Csm!Init, Csm!Never
<1>2. added \in [Numbers -> [in : Nat, manager : Addresses, reward : Addresses]]
    <2>1. added \in [Numbers -> [in : Csm!Blocks, manager : Addresses, reward : Addresses]]
        BY DEF Csm!Init
    <2>2. Csm!Blocks \subseteq Nat
        BY DEF Csm!Blocks
    <2> QED BY <2>1, <2>2
<1>3. CsmTyped
    BY <1>1, <1>2 DEF CsmTyped, Csm!eventsTo
<1>4. RecordedIsAdded
    BY <1>1 DEF RecordedIsAdded, Csm!eventsTo
<1>5. NothingIsAhead
    BY <1>1 DEF NothingIsAhead
<1>6. SharedIsRecorded /\ ThrottleTold /\ ChecksTell /\ AnswersTold
    BY <1>1 DEF SharedIsRecorded, ThrottleTold, ChecksTell, AnswersTold
<1> QED BY <1>3, <1>4, <1>5, <1>6 DEF CsmInv

(* The steps that keep the records, or add to them, and only forget what is   *)
(* shared.                                                                    *)
LEMMA RecordsStay ==
    ASSUME CsmInv, UNCHANGED added, Csm!Recorded \subseteq Csm!Recorded',
           \A a \in Addresses : sharedFrom'[a] # 0 => sharedFrom[a] # 0
    PROVE  SharedIsRecorded'
<1>1. Csm!Shared(Csm!Recorded') = Csm!Shared(Csm!Recorded)'
    BY DEF Csm!Shared, Csm!OperatorsOf
<1> SUFFICES ASSUME NEW a \in Addresses, sharedFrom[a] # 0 PROVE a \in Csm!Shared(Csm!Recorded')
    BY <1>1 DEF SharedIsRecorded
<1>2. a \in Csm!Shared(Csm!Recorded)
    BY DEF CsmInv, SharedIsRecorded
<1>3. PICK T : T = Csm!Recorded'
    OBVIOUS
<1>4. a \in Csm!Shared(T)
    BY <1>2, <1>3, CsmNumbers, SharedGrows
<1> QED BY <1>3, <1>4

(* What is told stays covered while no alert under way is lost.               *)
LEMMA TellsStay ==
    ASSUME CsmInv, UNCHANGED <<lastDuplicateAddressesAlertTimestamp, sharedFrom, csmAnswered>>,
           \A c \in calls' : c \in calls \/ c.at = "summary",
           \A a \in Addresses, n \in Nat, d \in Nat : Covered(a, n, d) => Covered(a, n, d)'
    PROVE  ThrottleTold' /\ ChecksTell' /\ AnswersTold'
<1> USE CsmNumbers DEF CsmInv
<1>1. lastDuplicateAddressesAlertTimestamp \in Nat /\ csmAnswered \in Nat /\ \A c \in calls : c.number \in Nat
    BY DEF CsmTyped
<1>2. ThrottleTold'
    BY <1>1 DEF ThrottleTold
<1>3. ChecksTell'
    BY <1>1 DEF ChecksTell
<1>4. AnswersTold'
    BY <1>1 DEF AnswersTold
<1> QED BY <1>2, <1>3, <1>4

(* A summary is answered.                                                     *)
LEMMA SummaryStep == ASSUME CsmInv, NEW c \in calls, Csm!summaryAnswered(c) PROVE CsmInv'
<1> USE CsmNumbers DEF CsmInv
<1> DEFINE n == c.number
           L == lastDuplicateAddressesAlertTimestamp
           F == IF n > L + OneDay THEN {a \in Addresses : Csm!counted(a) > MaxSame} ELSE {}
           r == [at |-> "checks", number |-> n, found |-> F]
<1>1. /\ c.at = "summary"
      /\ addressCounts' = [a \in Addresses |-> Csm!counted(a)]
      /\ L' = IF F = {} THEN L ELSE n
      /\ calls' = (calls \ {c}) \union {r}
      /\ sharedFrom' = [a \in Addresses |-> IF a \in Csm!Shared(Csm!Recorded) /\ sharedFrom[a] = 0
                                            THEN csmDelivered ELSE sharedFrom[a]]
      /\ UNCHANGED <<head, added, nodeOperatorAddedEvents, csmDelivered, txs, csmAnswered, toldAt>>
    BY DEF Csm!summaryAnswered, Csm!setWhenFound, Csm!chainVars, Csm!Never
<1>2. /\ n \in Nat /\ L \in Nat /\ csmAnswered \in Nat /\ csmDelivered \in Nat
      /\ n <= csmDelivered /\ csmAnswered <= csmDelivered /\ L <= csmDelivered /\ c.found = {}
      /\ \A a \in Addresses : toldAt[a] \in Nat /\ sharedFrom[a] \in Nat
      /\ \A k \in calls : k.number \in Nat /\ k.number <= csmDelivered
    BY <1>1 DEF CsmTyped, NothingIsAhead
<1>3. \A a \in Addresses : /\ Csm!counted(a) \in Nat
                           /\ a \in Csm!Shared(Csm!Recorded) => Csm!counted(a) > MaxSame
    BY CountedIsShared DEF CsmTyped
<1>4. F \subseteq Addresses
    OBVIOUS
<1>5. \A a \in Addresses : a \in Csm!Shared(Csm!Recorded) /\ n > L + OneDay => a \in F
    BY <1>3
<1>6. n > L + OneDay \/ F = {}
    OBVIOUS
<1>7. r.at = "checks" /\ r.found = F /\ r.number = n /\ r \in calls'
      /\ r \in [at : {"summary", "checks"}, number : Nat, found : SUBSET Addresses]
    BY <1>1, <1>2, <1>4
<1>8. ASSUME NEW a \in Addresses
      PROVE  /\ sharedFrom'[a] \in Nat
             /\ sharedFrom'[a] = sharedFrom[a] \/ sharedFrom'[a] = csmDelivered
             /\ sharedFrom'[a] # 0 => a \in Csm!Shared(Csm!Recorded)
    BY <1>1, <1>2 DEF SharedIsRecorded
<1> HIDE DEF F, r
<1>9. CsmTyped'
    BY <1>1, <1>2, <1>3, <1>7, <1>8 DEF CsmTyped
<1>10. RecordedIsAdded'
    BY <1>1 DEF RecordedIsAdded
<1>11. SharedIsRecorded'
    BY <1>1, <1>8 DEF SharedIsRecorded, Csm!Shared, Csm!Recorded, Csm!OperatorsOf
<1>12. L' \in Nat /\ L' <= csmDelivered
    BY <1>1, <1>2
<1>13. NothingIsAhead'
    BY <1>1, <1>2, <1>7, <1>12 DEF NothingIsAhead
<1>14. \A a, m, d : Covered(a, m, d) => Covered(a, m, d)'
    BY <1>1, <1>2 DEF Covered
<1>15. \A a \in F, m \in Nat, d \in Nat : n + d >= m => Covered(a, m, d)'
    BY <1>7 DEF Covered
<1>16. PICK last, next, said : last = L /\ next = L' /\ said = csmAnswered
    OBVIOUS
<1>17. ASSUME NEW a \in Addresses, sharedFrom'[a] # 0, L' > sharedFrom'[a]
       PROVE  Covered(a, next, 0)'
    <2>1. sharedFrom'[a] = sharedFrom[a]
        BY <1>2, <1>8, <1>12, <1>17
    <2>2. CASE F = {}
        <3>1. next = last
            BY <1>1, <1>16, <2>2
        <3>2. Covered(a, last, 0)
            BY <1>1, <1>16, <1>17, <2>1, <2>2 DEF ThrottleTold
        <3> QED BY <1>14, <3>1, <3>2
    <2>3. CASE F # {}
        <3>1. a \in F /\ next = n
            BY <1>1, <1>5, <1>6, <1>8, <1>16, <1>17, <2>3
        <3> QED BY <1>2, <1>15, <3>1
    <2> QED BY <2>2, <2>3
<1>18. ThrottleTold'
    BY <1>16, <1>17 DEF ThrottleTold, Covered
<1>19. ASSUME NEW a \in Addresses, sharedFrom'[a] # 0, n > sharedFrom'[a] + OneDay
       PROVE  Covered(a, n, OneDay)'
    <2>1. CASE n > L + OneDay
        BY <1>2, <1>5, <1>8, <1>15, <1>19, <2>1
    <2>2. CASE ~(n > L + OneDay)
        <3>1. sharedFrom'[a] = sharedFrom[a] /\ L > sharedFrom[a]
            BY <1>2, <1>8, <1>19, <2>2
        <3>2. Covered(a, last, 0)
            BY <1>16, <1>19, <3>1 DEF ThrottleTold
        <3>3. last \in Nat /\ n <= last + OneDay
            BY <1>2, <1>16, <2>2
        <3>4. toldAt[a] \in Nat /\ \A k \in calls : k.number \in Nat
            BY <1>2
        <3>5. Covered(a, n, OneDay)
            BY <1>2, <3>2, <3>3, <3>4 DEF Covered
        <3> QED BY <1>14, <3>5
    <2> QED BY <2>1, <2>2
<1>20. ASSUME NEW k \in calls, k # c, k.at = "checks", NEW a \in Addresses, sharedFrom'[a] # 0,
              k.number > sharedFrom'[a] + OneDay
       PROVE  Covered(a, k.number, OneDay)'
    <2>1. sharedFrom'[a] = sharedFrom[a]
        BY <1>2, <1>8, <1>20
    <2> QED BY <1>14, <1>20, <2>1 DEF ChecksTell
<1>21. ChecksTell'
    <2> SUFFICES ASSUME NEW k \in calls', k.at = "checks", NEW a \in Addresses, sharedFrom'[a] # 0,
                        k.number > sharedFrom'[a] + OneDay
                 PROVE  Covered(a, k.number, OneDay)'
        BY DEF ChecksTell
    <2>1. k = r \/ (k \in calls /\ k # c)
        BY <1>1
    <2> QED BY <1>7, <1>19, <1>20, <2>1
<1>22. AnswersTold'
    <2>1. ASSUME NEW a \in Addresses, sharedFrom'[a] # 0, csmAnswered > sharedFrom'[a] + OneDay
          PROVE  Covered(a, said, OneDay)'
        <3>1. sharedFrom'[a] = sharedFrom[a]
            BY <1>2, <1>8, <2>1
        <3>2. Covered(a, said, OneDay)
            BY <1>16, <2>1, <3>1 DEF AnswersTold
        <3> QED BY <1>14, <3>2
    <2> QED BY <1>1, <1>16, <2>1 DEF AnswersTold, Covered
<1> QED BY <1>9, <1>10, <1>11, <1>13, <1>18, <1>21, <1>22

LEMMA CsmAnswerStep == ASSUME CsmInv, NEW c \in calls, Csm!checksAnswered(c) PROVE CsmInv'
<1> USE CsmNumbers DEF CsmInv
<1>1. /\ c.at = "checks" /\ csmAnswered' = c.number /\ calls' = calls \ {c}
      /\ toldAt' = [a \in Addresses |-> IF a \in c.found /\ toldAt[a] < c.number THEN c.number
                                        ELSE toldAt[a]]
      /\ UNCHANGED <<head, added, nodeOperatorAddedEvents, addressCounts, csmDelivered, txs,
                     lastDuplicateAddressesAlertTimestamp, sharedFrom>>
    BY DEF Csm!checksAnswered, Csm!serviceVars, Csm!chainVars
<1>2. /\ c.number \in Nat /\ c.number <= csmDelivered /\ csmDelivered \in Nat
      /\ \A a \in Addresses : toldAt[a] \in Nat
      /\ \A k \in calls : k.number \in Nat /\ k.found \subseteq Addresses
      /\ lastDuplicateAddressesAlertTimestamp \in Nat
    BY DEF CsmTyped, NothingIsAhead
<1>3. \A a \in Addresses : /\ toldAt'[a] \in Nat /\ toldAt'[a] >= toldAt[a]
                           /\ a \in c.found => toldAt'[a] >= c.number
    BY <1>1, <1>2
<1>4. ASSUME NEW a \in Addresses, NEW n \in Nat, NEW d \in Nat, Covered(a, n, d)
      PROVE  Covered(a, n, d)'
    <2>1. CASE toldAt[a] + d >= n
        BY <1>2, <1>3, <2>1 DEF Covered
    <2>2. ASSUME NEW k \in calls, a \in k.found, k.number + d >= n
          PROVE  Covered(a, n, d)'
        <3>1. CASE k = c
            BY <1>2, <1>3, <2>2, <3>1 DEF Covered
        <3>2. CASE k # c
            BY <1>1, <2>2, <3>2 DEF Covered
        <3> QED BY <3>1, <3>2
    <2> QED BY <1>4, <2>1, <2>2 DEF Covered
<1>5. CsmTyped'
    BY <1>1, <1>2, <1>3 DEF CsmTyped
<1>6. NothingIsAhead'
    BY <1>1, <1>2 DEF NothingIsAhead
<1>7. ThrottleTold'
    BY <1>1, <1>2, <1>4 DEF ThrottleTold, Covered
<1>8. ChecksTell'
    <2> SUFFICES ASSUME NEW k \in calls', k.at = "checks", NEW a \in Addresses, sharedFrom'[a] # 0,
                        k.number > sharedFrom'[a] + OneDay
                 PROVE  Covered(a, k.number, OneDay)'
        BY DEF ChecksTell
    <2>1. Covered(a, k.number, OneDay)
        BY <1>1 DEF ChecksTell
    <2> QED BY <1>1, <1>2, <1>4, <2>1
<1>9. AnswersTold'
    <2> SUFFICES ASSUME NEW a \in Addresses, sharedFrom'[a] # 0, c.number > sharedFrom'[a] + OneDay
                 PROVE  Covered(a, c.number, OneDay)'
        BY <1>1 DEF AnswersTold, Covered
    <2>1. Covered(a, c.number, OneDay)
        BY <1>1 DEF ChecksTell
    <2> QED BY <1>2, <1>4, <2>1
<1> QED BY <1>1, <1>5, <1>6, <1>7, <1>8, <1>9 DEF RecordedIsAdded, SharedIsRecorded, Csm!Shared,
           Csm!Recorded, Csm!OperatorsOf

LEMMA CsmNext == CsmInv /\ [Csm!Next]_(Csm!vars) => CsmInv'
<1> SUFFICES ASSUME CsmInv, [Csm!Next]_(Csm!vars) PROVE CsmInv'
    OBVIOUS
<1> USE CsmNumbers DEF CsmInv
<1>1. CASE UNCHANGED Csm!vars
    BY <1>1 DEF CsmTyped, RecordedIsAdded, SharedIsRecorded, NothingIsAhead, ThrottleTold, ChecksTell,
                AnswersTold, Covered, Csm!Shared, Csm!Recorded, Csm!OperatorsOf, Csm!vars,
                Csm!chainVars, Csm!serviceVars, Csm!history
<1>2. CASE Csm!newBlock
    <2>1. /\ head' = head + 1 /\ head \in Nat /\ head + 1 \in Nat
          /\ UNCHANGED <<added, nodeOperatorAddedEvents, addressCounts, csmDelivered, calls, txs, csmAnswered,
                         lastDuplicateAddressesAlertTimestamp, toldAt, sharedFrom>>
        BY <1>2 DEF Csm!newBlock, Csm!serviceVars, Csm!history, CsmTyped
    <2>2. CsmTyped'
        BY <2>1 DEF CsmTyped
    <2>3. RecordedIsAdded'
        BY <2>1 DEF CsmTyped, RecordedIsAdded
    <2>4. NothingIsAhead'
        BY <2>1 DEF CsmTyped, NothingIsAhead
    <2> QED BY <2>1, <2>2, <2>3, <2>4
            DEF SharedIsRecorded, ThrottleTold, ChecksTell, AnswersTold, Covered,
                Csm!Shared, Csm!Recorded, Csm!OperatorsOf
<1>3. CASE Csm!handleTransaction
    <2>1. PICK k \in CsmStart..head : txs' = txs \union {k}
        BY <1>3 DEF Csm!handleTransaction
    <2>2. UNCHANGED <<head, added, nodeOperatorAddedEvents, addressCounts, csmDelivered, calls, csmAnswered,
                      lastDuplicateAddressesAlertTimestamp, toldAt, sharedFrom>>
        BY <1>3 DEF Csm!handleTransaction, Csm!serviceVars, Csm!history, Csm!chainVars
    <2>3. k \in Nat /\ k <= head
        BY DEF CsmTyped
    <2>4. RecordedIsAdded'
        BY <2>1, <2>2, <2>3 DEF RecordedIsAdded
    <2> QED BY <2>2, <2>4
            DEF CsmTyped, SharedIsRecorded, NothingIsAhead, ThrottleTold, ChecksTell, AnswersTold,
                Covered, Csm!Shared, Csm!Recorded, Csm!OperatorsOf
<1>4. ASSUME NEW k \in txs, Csm!logsAnswered(k) PROVE CsmInv'
    <2>1. /\ txs' = txs \ {k}
          /\ nodeOperatorAddedEvents' =
                [o \in Numbers |-> nodeOperatorAddedEvents[o] + IF o \in Csm!firstOf(k) THEN 1 ELSE 0]
          /\ UNCHANGED <<head, added, addressCounts, csmDelivered, calls, csmAnswered,
                         lastDuplicateAddressesAlertTimestamp, toldAt, sharedFrom>>
        BY <1>4 DEF Csm!logsAnswered, Csm!history, Csm!chainVars
    <2>2. ASSUME NEW o \in Numbers
          PROVE  /\ nodeOperatorAddedEvents'[o] \in Nat
                 /\ nodeOperatorAddedEvents[o] > 0 => nodeOperatorAddedEvents'[o] > 0
                 /\ nodeOperatorAddedEvents'[o] > 0 => added[o].in <= head
        <3>1. nodeOperatorAddedEvents[o] \in Nat /\ k <= head
            BY DEF CsmTyped, RecordedIsAdded
        <3>2. CASE o \in Csm!firstOf(k)
            <4>1. added[o].in = k
                BY <3>2 DEF Csm!firstOf
            <4>2. nodeOperatorAddedEvents'[o] = nodeOperatorAddedEvents[o] + 1
                BY <2>1, <3>2
            <4> QED BY <3>1, <4>1, <4>2
        <3>3. CASE o \notin Csm!firstOf(k)
            <4>1. nodeOperatorAddedEvents'[o] = nodeOperatorAddedEvents[o]
                BY <2>1, <3>1, <3>3
            <4> QED BY <3>1, <4>1 DEF RecordedIsAdded
        <3> QED BY <3>2, <3>3
    <2>3. nodeOperatorAddedEvents' \in [Numbers -> Nat]
        BY <2>1, <2>2
    <2>4. CsmTyped' /\ RecordedIsAdded'
        BY <2>1, <2>2, <2>3 DEF CsmTyped, RecordedIsAdded
    <2>5. SharedIsRecorded'
        <3>1. Csm!Recorded \subseteq Csm!Recorded'
            BY <2>2 DEF Csm!Recorded
        <3> QED BY <2>1, <3>1, RecordsStay
    <2> QED BY <2>1, <2>4, <2>5 DEF NothingIsAhead, ThrottleTold, ChecksTell, AnswersTold, Covered
<1>5. CASE Csm!handleBlock
    <2>1. PICK k \in csmDelivered + 1..head :
              /\ csmDelivered' = k
              /\ calls' = calls \union {[at |-> "summary", number |-> k, found |-> {}]}
        BY <1>5 DEF Csm!handleBlock
    <2>2. UNCHANGED <<head, added, nodeOperatorAddedEvents, addressCounts, txs, csmAnswered,
                      lastDuplicateAddressesAlertTimestamp, toldAt, sharedFrom>>
        BY <1>5 DEF Csm!handleBlock, Csm!serviceVars, Csm!history, Csm!chainVars
    <2>3. k \in Nat /\ k > csmDelivered /\ k <= head
        BY DEF CsmTyped
    <2>4. CsmTyped'
        BY <2>1, <2>2, <2>3 DEF CsmTyped
    <2>5. NothingIsAhead'
        BY <2>1, <2>2, <2>3 DEF CsmTyped, NothingIsAhead
    <2>6. \A a, n, d : Covered(a, n, d) => Covered(a, n, d)'
        BY <2>1, <2>2 DEF Covered
    <2>7. ThrottleTold' /\ ChecksTell' /\ AnswersTold'
        BY <2>1, <2>2, <2>6, TellsStay
    <2> QED BY <2>2, <2>4, <2>5, <2>7 DEF RecordedIsAdded, SharedIsRecorded, Csm!Shared, Csm!Recorded,
                Csm!OperatorsOf
<1>6. CASE Csm!processEnds
    <2>1. /\ nodeOperatorAddedEvents' = Csm!eventsTo(head) /\ addressCounts' = [a \in Addresses |-> 0]
          /\ lastDuplicateAddressesAlertTimestamp' = 0 /\ csmDelivered' = head /\ txs' = {} /\ calls' = {}
          /\ sharedFrom' = [a \in Addresses |-> IF \E c \in calls : a \in c.found THEN 0 ELSE sharedFrom[a]]
          /\ UNCHANGED <<head, added, csmAnswered, toldAt>>
        BY <1>6 DEF Csm!processEnds, Csm!Never, Csm!chainVars
    <2>2. \A o \in Numbers : nodeOperatorAddedEvents'[o] = IF added[o].in <= head THEN 1 ELSE 0
        BY <2>1 DEF Csm!eventsTo
    <2>3. \A a \in Addresses : /\ sharedFrom'[a] \in Nat
                               /\ sharedFrom'[a] # 0 => /\ sharedFrom'[a] = sharedFrom[a]
                                                        /\ \A c \in calls : a \notin c.found
        BY <2>1 DEF CsmTyped
    <2>4. CsmTyped' /\ RecordedIsAdded'
        BY <2>1, <2>2, <2>3 DEF CsmTyped, RecordedIsAdded, Csm!eventsTo
    <2>5. SharedIsRecorded'
        <3>1. Csm!Recorded \subseteq Csm!Recorded'
            BY <2>2 DEF Csm!Recorded, RecordedIsAdded
        <3> QED BY <2>1, <2>3, <3>1, RecordsStay
    <2>6. NothingIsAhead'
        BY <2>1 DEF CsmTyped, NothingIsAhead
    <2>7. ThrottleTold' /\ ChecksTell'
        BY <2>1, <2>4 DEF CsmTyped, ThrottleTold, ChecksTell
    <2>8. AnswersTold'
        BY <2>1, <2>3 DEF AnswersTold, Covered
    <2> QED BY <2>4, <2>5, <2>6, <2>7, <2>8
<1> QED BY <1>1, <1>2, <1>3, <1>4, <1>5, <1>6, SummaryStep, CsmAnswerStep DEF Csm!Next

(* An address that was counted as shared stays shared, and is counted with    *)
(* every block: it is in the alert that sets the throttle, and the throttle   *)
(* holds for a day, however the calls overlap.                                *)
THEOREM SharedIsToldCorrect == Csm!Spec => []SharedIsTold
<1>1. CsmInv => SharedIsTold
    BY DEF CsmInv, AnswersTold, Covered, SharedIsTold, Csm!SharedIsTold, Csm!Never
<1> QED BY <1>1, CsmInit, CsmNext, PTL DEF Csm!Spec

-----------------------------------------------------------------------------
(* The types of the other bots.  The proxy admin check.                       *)
LEMMA ProxyTypesInit == ProxyAdmin!Init => ProxyAdmin!TypeOK
<1> SUFFICES ASSUME ProxyAdmin!Init PROVE ProxyAdmin!TypeOK
    OBVIOUS
<1>1. maxHandlerRetries \in Nat /\ maxHandlerRetries > 0
    BY OpNumbers
<1>2. retries \in 0..(maxHandlerRetries - 1)
    BY <1>1 DEF ProxyAdmin!Init
<1> QED BY <1>2 DEF ProxyAdmin!Init, ProxyAdmin!TypeOK, ProxyAdmin!Admin

LEMMA ProxyTypesNext == ProxyAdmin!TypeOK /\ [ProxyAdmin!Next]_(ProxyAdmin!vars) => ProxyAdmin!TypeOK'
<1> SUFFICES ASSUME ProxyAdmin!TypeOK, [ProxyAdmin!Next]_(ProxyAdmin!vars) PROVE ProxyAdmin!TypeOK'
    OBVIOUS
<1> USE DEF ProxyAdmin!TypeOK
<1>1. maxHandlerRetries \in Nat
    BY BotsAssumption DEF ProxyAdmin!ProxyAdminAssumption
<1>2. ASSUME NEW p \in Proxies, ProxyAdmin!adminAnswered(p) PROVE ProxyAdmin!TypeOK'
    <2>1. throttled' \in BOOLEAN
        BY <1>2 DEF ProxyAdmin!adminAnswered, ProxyAdmin!isInvalid, ProxyAdmin!checkedValue
    <2> QED BY <1>2, <2>1 DEF ProxyAdmin!adminAnswered
<1>3. ASSUME NEW p \in Proxies, ProxyAdmin!orphanAnswered(p) PROVE ProxyAdmin!TypeOK'
    <2>1. throttled' \in BOOLEAN
        BY <1>3 DEF ProxyAdmin!orphanAnswered
    <2> QED BY <1>3, <2>1 DEF ProxyAdmin!orphanAnswered
<1>4. ASSUME NEW p \in Proxies, ProxyAdmin!requestFails(p) PROVE ProxyAdmin!TypeOK'
    BY <1>1, <1>4 DEF ProxyAdmin!requestFails, ProxyAdmin!mayRetry, ProxyAdmin!Admin
<1>5. CASE ProxyAdmin!callReturns
    BY <1>5 DEF ProxyAdmin!callReturns
<1>6. CASE UNCHANGED ProxyAdmin!vars
    BY <1>6 DEF ProxyAdmin!vars
<1> QED BY <1>2, <1>3, <1>4, <1>5, <1>6 DEF ProxyAdmin!Next

-----------------------------------------------------------------------------
(* The types of the voting watcher.                                           *)
LEMMA VoteBounds ==
    /\ VoteStart \in Nat /\ VoteMaxBlock \in Nat /\ VoteStart <= VoteMaxBlock
    /\ maxHandlerRetries \in Nat /\ maxHandlerRetries > 0
BY BotsAssumption DEF Voting!VotingAssumption

LEMMA RunsAreTyped ==
    ASSUME Voting!TypeOK, NEW n \in Voting!Blocks
    PROVE  /\ voteRun # Voting!NoRun => voteRun \in Voting!Run
           /\ voteRun.at \in {"votes", "pinger"} => voteRun \in Voting!Run
           /\ \A k \in Voting!Votes : Voting!cast(k, n) \in 0..1 /\ Voting!passed(k, n) \in BOOLEAN
           /\ Voting!open(n) \subseteq Voting!Votes
           /\ \A k \in DOMAIN activeVotes : Voting!level(k, n) \in 0..2
<1>1. voteRun \in Voting!Run \union {Voting!NoRun} /\ Voting!NoRun.at = "none"
    BY DEF Voting!TypeOK, Voting!NoRun
<1>2. \A k \in Voting!Votes : Voting!cast(k, n) \in 0..1
    BY DEF Voting!cast
<1>3. \A k \in Voting!Votes : Voting!passed(k, n) \in BOOLEAN
    BY DEF Voting!passed, Voting!TypeOK
<1>4. \A k \in DOMAIN activeVotes : Voting!level(k, n) \in 0..2
    <2> SUFFICES ASSUME NEW k \in DOMAIN activeVotes PROVE Voting!level(k, n) \in 0..2
        OBVIOUS
    <2>1. activeVotes[k].alertLevel \in 0..2
        BY DEF Voting!TypeOK, Voting!Info
    <2> QED BY <2>1 DEF Voting!level
<1>5. Voting!open(n) \subseteq Voting!Votes
    BY DEF Voting!open
<1>6. voteRun.at \in {"votes", "pinger"} => voteRun # Voting!NoRun
    BY <1>1
<1> QED BY <1>1, <1>2, <1>3, <1>4, <1>5, <1>6

LEMMA VoteTypesInit == Voting!Init => Voting!TypeOK
<1> SUFFICES ASSUME Voting!Init PROVE Voting!TypeOK
    OBVIOUS
<1>1. /\ voteNow = VoteStart /\ voteAnswered = VoteStart /\ voteRun = Voting!NoRun /\ late = {}
      /\ activeVotes = [k \in Voting!open(VoteStart) |->
                           Voting!read(k, VoteStart, Voting!cast(k, VoteStart))]
      /\ known = Voting!open(VoteStart) /\ told = {} /\ dropped = {}
      /\ votes \in [Voting!Votes -> [from : VoteStart..VoteStart + 2, to : VoteStart + 3..VoteMaxBlock,
                                     many : BOOLEAN, passes : BOOLEAN]]
      /\ Voting!open(VoteStart) \subseteq Voting!Votes
    BY DEF Voting!Init, Voting!open
<1>2. VoteStart \in Voting!Blocks
    BY VoteBounds DEF Voting!Blocks
<1>3. votes \in [Voting!Votes -> [from : Voting!Blocks, to : VoteStart..VoteMaxBlock + 3,
                                  many : BOOLEAN, passes : BOOLEAN]]
    <2> SUFFICES ASSUME NEW k \in Voting!Votes
                 PROVE  votes[k] \in [from : Voting!Blocks, to : VoteStart..VoteMaxBlock + 3,
                                      many : BOOLEAN, passes : BOOLEAN]
        BY <1>1
    <2>1. votes[k] \in [from : VoteStart..VoteStart + 2, to : VoteStart + 3..VoteMaxBlock,
                        many : BOOLEAN, passes : BOOLEAN]
        BY <1>1
    <2>2. votes[k].from \in VoteStart..VoteStart + 2 /\ votes[k].to \in VoteStart + 3..VoteMaxBlock
        BY <2>1
    <2>3. votes[k].from \in Voting!Blocks /\ votes[k].to \in VoteStart..VoteMaxBlock + 3
        BY <2>2, VoteBounds DEF Voting!Blocks
    <2> QED BY <2>1, <2>3
<1>4. \A k \in Voting!open(VoteStart) : activeVotes[k] \in Voting!Info
    <2> SUFFICES ASSUME NEW k \in Voting!open(VoteStart)
                 PROVE  Voting!read(k, VoteStart, Voting!cast(k, VoteStart)) \in Voting!Info
        BY <1>1
    <2>1. Voting!cast(k, VoteStart) \in 0..1
        BY DEF Voting!cast
    <2>2. Voting!passed(k, VoteStart) \in BOOLEAN
        BY <1>1 DEF Voting!passed
    <2> QED BY <2>1, <2>2 DEF Voting!read, Voting!Info
<1> QED BY <1>1, <1>2, <1>3, <1>4 DEF Voting!TypeOK

(* What a run makes of the map, and what it finds.                            *)
LEMMA VotesReadTyped ==
    ASSUME Voting!TypeOK, NEW r \in Voting!Run, Voting!votesRead(r)
    PROVE  /\ DOMAIN activeVotes' \subseteq Voting!Votes
           /\ \A k \in DOMAIN activeVotes' : activeVotes'[k] \in Voting!Info
           /\ Voting!afterVotes(r) \in Voting!Run
<1> DEFINE n == r.block
<1>1. n \in Voting!Blocks
    BY DEF Voting!Run
<1>2. /\ \A k \in Voting!Votes : Voting!cast(k, n) \in 0..1 /\ Voting!passed(k, n) \in BOOLEAN
      /\ Voting!open(n) \subseteq Voting!Votes
      /\ \A k \in DOMAIN activeVotes : Voting!level(k, n) \in 0..2
      /\ DOMAIN activeVotes \subseteq Voting!Votes
    BY <1>1, RunsAreTyped DEF Voting!TypeOK
<1>3. ASSUME NEW k \in Voting!open(n), k \notin DOMAIN activeVotes
      PROVE  Voting!read(k, n, 0) \in Voting!Info
    BY <1>2 DEF Voting!read, Voting!Info
<1>4. ASSUME NEW k \in Voting!open(n), k \in DOMAIN activeVotes
      PROVE  [activeVotes[k] EXCEPT !.alertLevel = Voting!level(k, n), !.total = Voting!cast(k, n),
                                    !.passed = Voting!passed(k, n)] \in Voting!Info
    BY <1>2, <1>4 DEF Voting!Info, Voting!TypeOK
<1>5. activeVotes' = Voting!merged(n)
    BY DEF Voting!votesRead
<1>6. /\ DOMAIN activeVotes' = Voting!open(n)
      /\ \A k \in DOMAIN activeVotes' : activeVotes'[k] \in Voting!Info
    BY <1>3, <1>4, <1>5 DEF Voting!merged
<1>7. Voting!stateNews(n) \subseteq Voting!Notices
    BY <1>2 DEF Voting!stateNews, Voting!knownVotes, Voting!Notices, Voting!Kinds
<1>8. Voting!afterVotes(r) \in Voting!Run
    BY <1>7 DEF Voting!afterVotes, Voting!Run
<1> QED BY <1>2, <1>6, <1>8

LEMMA PingedTyped ==
    ASSUME Voting!TypeOK, NEW r \in Voting!Run, Voting!pinged(r)
    PROVE  /\ DOMAIN activeVotes' = DOMAIN activeVotes
           /\ \A k \in DOMAIN activeVotes' : activeVotes'[k] \in Voting!Info
           /\ Voting!afterPinger(r) \subseteq Voting!Notices
<1>1. DOMAIN activeVotes \subseteq Voting!Votes /\ \A k \in DOMAIN activeVotes : activeVotes[k] \in Voting!Info
    BY DEF Voting!TypeOK
<1>2. ASSUME NEW k \in DOMAIN activeVotes
      PROVE  [activeVotes[k] EXCEPT !.lastReportedTotal = activeVotes[k].total,
                                    !.noMorePing = activeVotes[k].passed] \in Voting!Info
    BY <1>1 DEF Voting!Info
<1>3. Voting!afterPinger(r) \subseteq Voting!Notices
    BY <1>1 DEF Voting!afterPinger, Voting!pings, Voting!hugeNews, Voting!Notices, Voting!Kinds, Voting!Run
<1> QED BY <1>1, <1>2, <1>3 DEF Voting!pinged

LEMMA RetriedTyped ==
    ASSUME NEW r \in Voting!Run, r.left > 0
    PROVE  Voting!retried(r) \in Voting!Run
<1>1. r.left \in 0..maxHandlerRetries
    BY DEF Voting!Run
<1>2. r.left - 1 \in 0..maxHandlerRetries
    BY <1>1, VoteBounds
<1> QED BY <1>2 DEF Voting!retried, Voting!Run

LEMMA VoteTypesNext == Voting!TypeOK /\ [Voting!Next]_(Voting!vars) => Voting!TypeOK'
<1> SUFFICES ASSUME Voting!TypeOK, [Voting!Next]_(Voting!vars) PROVE Voting!TypeOK'
    OBVIOUS
<1>1. /\ voteRun # Voting!NoRun => voteRun \in Voting!Run
      /\ voteRun.at \in {"votes", "pinger"} => voteRun \in Voting!Run
      /\ voteNow \in Voting!Blocks
    BY RunsAreTyped DEF Voting!TypeOK
<1>2. CASE Voting!handleBlock
    <2>1. /\ voteNow' = voteNow + 1 /\ voteNow < VoteMaxBlock
          /\ voteRun' = [block |-> voteNow + 1, left |-> maxHandlerRetries - 1, at |-> "votes", found |-> {}]
          /\ UNCHANGED <<votes, activeVotes, late, voteAnswered, known, told, dropped>>
        BY <1>2 DEF Voting!handleBlock
    <2>2. voteNow + 1 \in Voting!Blocks /\ maxHandlerRetries - 1 \in 0..maxHandlerRetries
        BY <1>1, <2>1, VoteBounds DEF Voting!Blocks
    <2>3. voteRun' \in Voting!Run
        BY <2>1, <2>2 DEF Voting!Run
    <2> QED BY <2>1, <2>2, <2>3 DEF Voting!TypeOK
<1>3. CASE Voting!runVotesRead
    <2>1. voteRun \in Voting!Run /\ Voting!votesRead(voteRun)
        BY <1>1, <1>3 DEF Voting!runVotesRead, Voting!votesRead
    <2> QED BY <1>3, <2>1, VotesReadTyped DEF Voting!runVotesRead, Voting!TypeOK
<1>4. CASE Voting!runReturns
    <2>1. voteRun \in Voting!Run /\ Voting!pinged(voteRun)
        BY <1>1, <1>4 DEF Voting!runReturns, Voting!pinged
    <2>2. voteRun.block \in Voting!Blocks
        BY <2>1 DEF Voting!Run
    <2> QED BY <1>4, <2>1, <2>2, PingedTyped DEF Voting!runReturns, Voting!TypeOK
<1>5. CASE Voting!runFails
    <2>1. voteRun \in Voting!Run
        BY <1>1, <1>5 DEF Voting!runFails
    <2>2. voteRun' \in Voting!Run \union {Voting!NoRun}
        BY <1>5, <2>1, RetriedTyped DEF Voting!runFails
    <2>3. dropped' \subseteq Voting!Notices
        BY <1>5, <2>1 DEF Voting!runFails, Voting!Run, Voting!TypeOK
    <2> QED BY <1>5, <2>2, <2>3 DEF Voting!runFails, Voting!TypeOK
<1>6. CASE Voting!runTimesOut
    BY <1>1, <1>6 DEF Voting!runTimesOut, Voting!TypeOK
<1>7. ASSUME NEW r \in late, Voting!lateVotesRead(r) PROVE Voting!TypeOK'
    <2>1. r \in Voting!Run
        BY DEF Voting!TypeOK
    <2> QED BY <1>7, <2>1, VotesReadTyped DEF Voting!lateVotesRead, Voting!TypeOK
<1>8. ASSUME NEW r \in late, Voting!lateReturns(r) PROVE Voting!TypeOK'
    <2>1. r \in Voting!Run
        BY DEF Voting!TypeOK
    <2> QED BY <1>8, <2>1, PingedTyped DEF Voting!lateReturns, Voting!TypeOK
<1>9. ASSUME NEW r \in late, Voting!lateFails(r) PROVE Voting!TypeOK'
    <2>1. r \in Voting!Run
        BY DEF Voting!TypeOK
    <2>2. late' \subseteq Voting!Run
        BY <1>9, <2>1, RetriedTyped DEF Voting!lateFails, Voting!TypeOK
    <2>3. dropped' \subseteq Voting!Notices
        BY <1>9, <2>1 DEF Voting!lateFails, Voting!Run, Voting!TypeOK
    <2> QED BY <1>9, <2>2, <2>3 DEF Voting!lateFails, Voting!TypeOK
<1>10. CASE UNCHANGED Voting!vars
    BY <1>10 DEF Voting!vars, Voting!TypeOK
<1> QED BY <1>2, <1>3, <1>4, <1>5, <1>6, <1>7, <1>8, <1>9, <1>10 DEF Voting!Next

-----------------------------------------------------------------------------
(* The types of csm-alerts.  An event is added to the list by initialize, or  *)
(* by a transaction whose logs are no longer awaited.                         *)
EventsAreOfTxs ==
    /\ IsFiniteSet(txs)
    /\ \A o \in Numbers : nodeOperatorAddedEvents[o] + Cardinality(txs) <= 1 + txCount
CsmTypes == Csm!TypeOK /\ EventsAreOfTxs

LEMMA CsmBounds ==
    /\ CsmStart \in Nat /\ CsmMaxBlock \in Nat /\ CsmStart <= CsmMaxBlock
    /\ MaxSame \in Nat /\ MaxTxs \in Nat /\ MaxCrashes \in Nat /\ IsFiniteSet(Numbers)
BY BotsAssumption, CsmFinite DEF Csm!CsmAssumption

LEMMA EventsToTyped ==
    ASSUME NEW n PROVE \A o \in Numbers : Csm!eventsTo(n)[o] \in 0..1
BY DEF Csm!eventsTo

LEMMA CsmTypesInit == Csm!Init => CsmTypes
<1> SUFFICES ASSUME Csm!Init PROVE CsmTypes
    OBVIOUS
<1>1. /\ head = CsmStart /\ csmDelivered = CsmStart /\ csmAnswered = Csm!Never
      /\ added \in [Numbers -> [in : Csm!Blocks, manager : Addresses, reward : Addresses]]
      /\ lastDuplicateAddressesAlertTimestamp = Csm!Never /\ txs = {} /\ txCount = 0 /\ crashes = 0
      /\ calls = {}
      /\ nodeOperatorAddedEvents = Csm!eventsTo(CsmStart)
      /\ addressCounts = [a \in Addresses |-> 0] /\ falseAlerts = {}
      /\ toldAt = [a \in Addresses |-> Csm!Never] /\ sharedFrom = [a \in Addresses |-> Csm!Never]
    BY DEF Csm!Init
<1>2. CsmStart \in Csm!Blocks /\ 0 \in 0..MaxTxs /\ 0 \in 0..MaxCrashes
    BY CsmBounds DEF Csm!Blocks
<1>3. \A o \in Numbers : nodeOperatorAddedEvents[o] \in 0..1 /\ nodeOperatorAddedEvents[o] \in 0..1 + MaxTxs
    BY <1>1, EventsToTyped, CsmBounds
<1>4. nodeOperatorAddedEvents \in [Numbers -> 0..1 + MaxTxs]
    BY <1>1, <1>3 DEF Csm!eventsTo
<1>5. IsFiniteSet(txs) /\ Cardinality(txs) = 0
    BY <1>1, FS_EmptySet
<1>6. EventsAreOfTxs
    BY <1>1, <1>3, <1>5 DEF EventsAreOfTxs
<1>7. Csm!TypeOK
    BY <1>1, <1>2, <1>4 DEF Csm!TypeOK, Csm!Times
<1> QED BY <1>6, <1>7 DEF CsmTypes

LEMMA CsmTypesTransaction == CsmTypes /\ Csm!handleTransaction => CsmTypes'
<1> SUFFICES ASSUME CsmTypes, Csm!handleTransaction PROVE CsmTypes'
    OBVIOUS
<1>1. PICK k \in CsmStart..head : k \notin txs /\ txs' = txs \union {k}
    BY DEF Csm!handleTransaction
<1>2. /\ txCount < MaxTxs /\ txCount' = txCount + 1
      /\ UNCHANGED <<head, added, nodeOperatorAddedEvents, addressCounts,
                     lastDuplicateAddressesAlertTimestamp, csmDelivered, calls, crashes, csmAnswered,
                     toldAt, sharedFrom, falseAlerts>>
    BY DEF Csm!handleTransaction, Csm!chainVars, Csm!serviceVars, Csm!history
<1>3. txCount \in 0..MaxTxs /\ head \in CsmStart..CsmMaxBlock
      /\ nodeOperatorAddedEvents \in [Numbers -> 0..1 + MaxTxs]
    BY DEF CsmTypes, Csm!TypeOK, Csm!Blocks
<1>4. IsFiniteSet(txs') /\ Cardinality(txs') = Cardinality(txs) + 1 /\ Cardinality(txs) \in Nat
    BY <1>1, FS_AddElement, FS_CardinalityType DEF CsmTypes, EventsAreOfTxs
<1>5. EventsAreOfTxs'
    <2> SUFFICES ASSUME NEW o \in Numbers
                 PROVE  nodeOperatorAddedEvents[o] + Cardinality(txs') <= 1 + txCount'
        BY <1>2, <1>4 DEF EventsAreOfTxs
    <2>1. nodeOperatorAddedEvents[o] + Cardinality(txs) <= 1 + txCount
          /\ nodeOperatorAddedEvents[o] \in 0..1 + MaxTxs
        BY <1>3 DEF CsmTypes, EventsAreOfTxs
    <2> QED BY <1>2, <1>3, <1>4, <2>1, CsmBounds
<1>6. k \in Csm!Blocks
    BY <1>3, CsmBounds DEF Csm!Blocks
<1>7. txCount' \in 0..MaxTxs
    BY <1>2, <1>3, CsmBounds
<1>8. txs' \subseteq Csm!Blocks
    BY <1>1, <1>6 DEF CsmTypes, Csm!TypeOK
<1>9. Csm!TypeOK'
    BY <1>2, <1>7, <1>8 DEF CsmTypes, Csm!TypeOK
<1> QED BY <1>5, <1>9 DEF CsmTypes

LEMMA CsmTypesLogs == ASSUME CsmTypes, NEW k \in txs, Csm!logsAnswered(k) PROVE CsmTypes'
<1>1. /\ txs' = txs \ {k}
      /\ nodeOperatorAddedEvents' =
            [o \in Numbers |-> nodeOperatorAddedEvents[o] + IF o \in Csm!firstOf(k) THEN 1 ELSE 0]
      /\ UNCHANGED <<head, added, addressCounts, lastDuplicateAddressesAlertTimestamp, csmDelivered, calls,
                     txCount, crashes, csmAnswered, toldAt, sharedFrom, falseAlerts>>
    BY DEF Csm!logsAnswered, Csm!chainVars, Csm!history
<1>2. IsFiniteSet(txs') /\ Cardinality(txs') = Cardinality(txs) - 1 /\ Cardinality(txs') \in Nat
      /\ Cardinality(txs) \in Nat
    BY <1>1, FS_RemoveElement, FS_CardinalityType DEF CsmTypes, EventsAreOfTxs
<1>3. txCount \in 0..MaxTxs /\ nodeOperatorAddedEvents \in [Numbers -> 0..1 + MaxTxs]
    BY DEF CsmTypes, Csm!TypeOK
<1>4. ASSUME NEW o \in Numbers
      PROVE  /\ nodeOperatorAddedEvents'[o] + Cardinality(txs') <= 1 + txCount
             /\ nodeOperatorAddedEvents'[o] \in 0..1 + MaxTxs
    <2>1. nodeOperatorAddedEvents[o] + Cardinality(txs) <= 1 + txCount
          /\ nodeOperatorAddedEvents[o] \in 0..1 + MaxTxs
        BY <1>3 DEF CsmTypes, EventsAreOfTxs
    <2>2. nodeOperatorAddedEvents'[o] = nodeOperatorAddedEvents[o]
          \/ nodeOperatorAddedEvents'[o] = nodeOperatorAddedEvents[o] + 1
        BY <1>1, <2>1
    <2> QED BY <1>2, <1>3, <2>1, <2>2, CsmBounds
<1>5. nodeOperatorAddedEvents' \in [Numbers -> 0..1 + MaxTxs]
    BY <1>1, <1>4
<1>6. txs' \subseteq Csm!Blocks
    BY <1>1 DEF CsmTypes, Csm!TypeOK
<1>7. Csm!TypeOK'
    BY <1>1, <1>5, <1>6 DEF CsmTypes, Csm!TypeOK
<1> QED BY <1>1, <1>2, <1>4, <1>7 DEF CsmTypes, EventsAreOfTxs

LEMMA CsmTypesSummary == ASSUME CsmTypes, NEW c \in calls, Csm!summaryAnswered(c) PROVE CsmTypes'
<1> DEFINE n == c.number
           shared == IF n > lastDuplicateAddressesAlertTimestamp + OneDay
                    THEN {a \in Addresses : Csm!counted(a) > MaxSame} ELSE {}
           checked == [at |-> "checks", number |-> n, found |-> shared]
<1>1. /\ addressCounts' = [a \in Addresses |-> Csm!counted(a)]
      /\ lastDuplicateAddressesAlertTimestamp' = Csm!setWhenFound(n, shared)
      /\ calls' = (calls \ {c}) \union {checked}
      /\ sharedFrom' = [a \in Addresses |->
            IF a \in Csm!Shared(Csm!Recorded) /\ sharedFrom[a] = Csm!Never
            THEN csmDelivered ELSE sharedFrom[a]]
      /\ UNCHANGED <<head, added, nodeOperatorAddedEvents, csmDelivered, txs, txCount, crashes,
                     csmAnswered, toldAt, falseAlerts>>
    BY DEF Csm!summaryAnswered, Csm!chainVars
<1>2. shared \subseteq Addresses
    OBVIOUS
<1> HIDE DEF shared
<1>3. /\ calls \subseteq Csm!Call /\ csmDelivered \in Csm!Times
      /\ nodeOperatorAddedEvents \in [Numbers -> 0..1 + MaxTxs] /\ addressCounts \in [Addresses -> Nat]
      /\ sharedFrom \in [Addresses -> Csm!Times]
      /\ lastDuplicateAddressesAlertTimestamp \in Csm!Times
    BY DEF CsmTypes, Csm!TypeOK, Csm!Times
<1>4. nodeOperatorAddedEvents \in [Numbers -> Nat]
    BY <1>3, CsmBounds
<1>5. \A a \in Addresses : Csm!counted(a) \in Nat
    BY <1>3, <1>4, CsmBounds, CountedIsShared
<1>6. addressCounts' \in [Addresses -> Nat]
    BY <1>1, <1>5
<1>7. n \in Csm!Blocks
    BY <1>3 DEF Csm!Call
<1>8. checked \in Csm!Call
    BY <1>2, <1>7 DEF Csm!Call
<1>9. calls' \subseteq Csm!Call
    BY <1>1, <1>3, <1>8
<1>10. sharedFrom' \in [Addresses -> Csm!Times]
    BY <1>1, <1>3
<1>11. lastDuplicateAddressesAlertTimestamp' \in Csm!Times
    BY <1>1, <1>3, <1>7 DEF Csm!setWhenFound, Csm!Times
<1>12. Csm!TypeOK'
    BY <1>1, <1>6, <1>9, <1>10, <1>11 DEF CsmTypes, Csm!TypeOK
<1> QED BY <1>1, <1>12 DEF CsmTypes, EventsAreOfTxs

LEMMA CsmTypesChecks == ASSUME CsmTypes, NEW c \in calls, Csm!checksAnswered(c) PROVE CsmTypes'
<1>1. /\ csmAnswered' = c.number
      /\ toldAt' = [a \in Addresses |->
            IF a \in c.found /\ toldAt[a] < c.number THEN c.number ELSE toldAt[a]]
      /\ falseAlerts' = falseAlerts \union (c.found \ Csm!Shared(Numbers))
      /\ calls' = calls \ {c}
      /\ UNCHANGED <<head, added, nodeOperatorAddedEvents, addressCounts,
                     lastDuplicateAddressesAlertTimestamp, csmDelivered, txs, txCount, crashes, sharedFrom>>
    BY DEF Csm!checksAnswered, Csm!serviceVars, Csm!chainVars
<1>2. c \in Csm!Call /\ toldAt \in [Addresses -> Csm!Times] /\ falseAlerts \subseteq Addresses
    BY DEF CsmTypes, Csm!TypeOK
<1>3. c.number \in Csm!Times /\ c.found \subseteq Addresses
    BY <1>2 DEF Csm!Call, Csm!Times
<1>4. toldAt' \in [Addresses -> Csm!Times] /\ falseAlerts' \subseteq Addresses
    BY <1>1, <1>2, <1>3
<1> QED BY <1>1, <1>3, <1>4 DEF CsmTypes, EventsAreOfTxs, Csm!TypeOK

LEMMA CsmTypesEnds == CsmTypes /\ Csm!processEnds => CsmTypes'
<1> SUFFICES ASSUME CsmTypes, Csm!processEnds PROVE CsmTypes'
    OBVIOUS
<1>1. /\ crashes < MaxCrashes /\ crashes' = crashes + 1
      /\ nodeOperatorAddedEvents' = Csm!eventsTo(head) /\ addressCounts' = [a \in Addresses |-> 0]
      /\ lastDuplicateAddressesAlertTimestamp' = Csm!Never /\ csmDelivered' = head /\ txs' = {}
      /\ calls' = {}
      /\ sharedFrom' = [a \in Addresses |->
            IF \E c \in calls : a \in c.found THEN Csm!Never ELSE sharedFrom[a]]
      /\ UNCHANGED <<head, added, txCount, csmAnswered, toldAt, falseAlerts>>
    BY DEF Csm!processEnds, Csm!chainVars
<1>2. txCount \in 0..MaxTxs /\ crashes \in 0..MaxCrashes
    BY DEF CsmTypes, Csm!TypeOK
<1>3. \A o \in Numbers : nodeOperatorAddedEvents'[o] \in 0..1 /\ nodeOperatorAddedEvents'[o] \in 0..1 + MaxTxs
    BY <1>1, EventsToTyped, CsmBounds
<1>4. nodeOperatorAddedEvents' \in [Numbers -> 0..1 + MaxTxs]
    BY <1>1, <1>3 DEF Csm!eventsTo
<1>5. IsFiniteSet(txs') /\ Cardinality(txs') = 0
    BY <1>1, FS_EmptySet
<1>6. EventsAreOfTxs'
    BY <1>1, <1>2, <1>3, <1>5, CsmBounds DEF EventsAreOfTxs
<1>7. crashes' \in 0..MaxCrashes
    BY <1>1, <1>2, CsmBounds
<1>8. sharedFrom' \in [Addresses -> Csm!Times]
    BY <1>1 DEF CsmTypes, Csm!TypeOK, Csm!Times
<1>9. Csm!TypeOK'
    BY <1>1, <1>4, <1>7, <1>8 DEF CsmTypes, Csm!TypeOK, Csm!Times
<1> QED BY <1>6, <1>9 DEF CsmTypes

LEMMA CsmTypesNext == CsmTypes /\ [Csm!Next]_(Csm!vars) => CsmTypes'
<1> SUFFICES ASSUME CsmTypes, [Csm!Next]_(Csm!vars) PROVE CsmTypes'
    OBVIOUS
<1>1. CASE Csm!newBlock
    <2>1. /\ head' = head + 1 /\ head < CsmMaxBlock
          /\ UNCHANGED <<added, nodeOperatorAddedEvents, addressCounts, lastDuplicateAddressesAlertTimestamp,
                         csmDelivered, calls, txs, txCount, crashes, csmAnswered, toldAt, sharedFrom,
                         falseAlerts>>
        BY <1>1 DEF Csm!newBlock, Csm!serviceVars, Csm!history
    <2>2. head \in Csm!Blocks
        BY DEF CsmTypes, Csm!TypeOK
    <2>3. head' \in Csm!Blocks
        BY <2>1, <2>2, CsmBounds DEF Csm!Blocks
    <2> QED BY <2>1, <2>3 DEF CsmTypes, EventsAreOfTxs, Csm!TypeOK
<1>2. CASE Csm!handleBlock
    <2>1. PICK k \in csmDelivered + 1..head :
              /\ csmDelivered' = k
              /\ calls' = calls \union {[at |-> "summary", number |-> k, found |-> {}]}
        BY <1>2 DEF Csm!handleBlock
    <2>2. UNCHANGED <<head, added, nodeOperatorAddedEvents, addressCounts, lastDuplicateAddressesAlertTimestamp,
                      txs, txCount, crashes, csmAnswered, toldAt, sharedFrom, falseAlerts>>
        BY <1>2 DEF Csm!handleBlock, Csm!serviceVars, Csm!history, Csm!chainVars
    <2>3. csmDelivered \in Csm!Blocks /\ head \in Csm!Blocks /\ calls \subseteq Csm!Call
        BY DEF CsmTypes, Csm!TypeOK
    <2>4. k \in Csm!Blocks
        BY <2>3, CsmBounds DEF Csm!Blocks
    <2>5. calls' \subseteq Csm!Call
        BY <2>1, <2>3, <2>4 DEF Csm!Call
    <2> QED BY <2>1, <2>2, <2>4, <2>5 DEF CsmTypes, EventsAreOfTxs, Csm!TypeOK
<1>3. CASE UNCHANGED Csm!vars
    BY <1>3 DEF CsmTypes, EventsAreOfTxs, Csm!TypeOK, Csm!vars, Csm!chainVars, Csm!serviceVars, Csm!history
<1> QED BY <1>1, <1>2, <1>3, CsmTypesTransaction, CsmTypesLogs, CsmTypesSummary, CsmTypesChecks, CsmTypesEnds
        DEF Csm!Next

-----------------------------------------------------------------------------
(* The DAO operations, with the constants of their throttled checks and with  *)
(* those of the buffer: what is proved of them for any constants holds of     *)
(* both.                                                                      *)
ChecksProofs == INSTANCE DaoOps_proofs WITH
    now <- daoNow, pending <- daoPending, lastReported <- daoReported,
    Checks <- DOMAIN DaoCadence, Cadence <- DaoCadence, Window <- DaoWindow,
    Epoch <- BotEpoch, MaxTime <- BotMaxTime, Levels <- DaoLevels, MaxOpen <- DaoOpen

BufferProofs == INSTANCE DaoOps_proofs WITH
    now <- daoNow, pending <- daoPending, lastReported <- daoReported,
    Checks <- DOMAIN DaoCadence, Cadence <- [c \in DOMAIN DaoCadence |-> 7], Window <- DaoWindow,
    Epoch <- BotEpoch, MaxTime <- BotMaxTime, Levels <- {"normal", "huge"}, MaxOpen <- 1

(* Their definitions are those of the module they are about.                  *)
LEMMA ChecksProofsSame ==
    /\ DaoChecks!DaoOpsAssumption <=> ChecksProofs!DaoOpsAssumption
    /\ DaoChecks!Init <=> ChecksProofs!Init
    /\ [DaoChecks!Next]_(DaoChecks!vars) <=> [ChecksProofs!Next]_(ChecksProofs!vars)
    /\ DaoChecks!TypeOK <=> ChecksProofs!TypeOK
    /\ DaoChecks!DueIsReported <=> ChecksProofs!DueIsReported
    /\ DaoChecks!StartIsSustained <=> ChecksProofs!StartIsSustained
<1> USE DEF DaoChecks!Kinds, DaoChecks!Blocks, DaoChecks!Time, DaoChecks!Level,
           DaoChecks!NoRun, DaoChecks!timers, DaoChecks!rewards, DaoChecks!vars,
           DaoChecks!Over, DaoChecks!throttled, DaoChecks!delayed, DaoChecks!asking,
           DaoChecks!orphaned, DaoChecks!calls, DaoChecks!finds, DaoChecks!reports,
           DaoChecks!startOf, DaoChecks!lasts, DaoChecks!mayRetry, DaoChecks!Since,
           DaoChecks!Smooth, ChecksProofs!Kinds, ChecksProofs!Blocks, ChecksProofs!Time,
           ChecksProofs!Level, ChecksProofs!NoRun, ChecksProofs!timers,
           ChecksProofs!rewards, ChecksProofs!vars, ChecksProofs!Over,
           ChecksProofs!throttled, ChecksProofs!delayed, ChecksProofs!asking,
           ChecksProofs!orphaned, ChecksProofs!calls, ChecksProofs!finds,
           ChecksProofs!reports, ChecksProofs!startOf, ChecksProofs!lasts,
           ChecksProofs!mayRetry, ChecksProofs!Since, ChecksProofs!Smooth
<1>1. DaoChecks!handleBlock <=> ChecksProofs!handleBlock
    BY DEF DaoChecks!handleBlock, ChecksProofs!handleBlock
<1>2. DaoChecks!handleRewardDistributionEvent <=> ChecksProofs!handleRewardDistributionEvent
    BY DEF DaoChecks!handleRewardDistributionEvent, ChecksProofs!handleRewardDistributionEvent,
           DaoChecks!Cardinality, ChecksProofs!Cardinality
<1>3. ASSUME NEW p \in daoPending PROVE DaoChecks!checkAnswered(p) <=> ChecksProofs!checkAnswered(p)
    BY DEF DaoChecks!checkAnswered, ChecksProofs!checkAnswered
<1>4. ASSUME NEW p \in daoPending PROVE DaoChecks!bufferedAnswered(p) <=> ChecksProofs!bufferedAnswered(p)
    BY DEF DaoChecks!bufferedAnswered, ChecksProofs!bufferedAnswered
<1>5. ASSUME NEW p \in daoPending PROVE DaoChecks!requestFails(p) <=> ChecksProofs!requestFails(p)
    BY DEF DaoChecks!requestFails, ChecksProofs!requestFails
<1>6. ASSUME NEW b \in DaoChecks!Blocks PROVE DaoChecks!callReturns(b) <=> ChecksProofs!callReturns(b)
    BY DEF DaoChecks!callReturns, ChecksProofs!callReturns
<1>7. ASSUME NEW b \in DaoChecks!Blocks PROVE DaoChecks!timeout(b) <=> ChecksProofs!timeout(b)
    BY DEF DaoChecks!timeout, ChecksProofs!timeout
<1>8. ASSUME NEW t \in distribution PROVE DaoChecks!checkpointsCounted(t) <=> ChecksProofs!checkpointsCounted(t)
    BY DEF DaoChecks!checkpointsCounted, ChecksProofs!checkpointsCounted
<1>9. DaoChecks!Next <=> ChecksProofs!Next
    BY <1>1, <1>2, <1>3, <1>4, <1>5, <1>6, <1>7, <1>8 DEF DaoChecks!Next, ChecksProofs!Next
<1>10. [DaoChecks!Next]_(DaoChecks!vars) <=> [ChecksProofs!Next]_(ChecksProofs!vars)
    BY <1>9
<1>11. DaoChecks!DaoOpsAssumption <=> ChecksProofs!DaoOpsAssumption
    BY DEF DaoChecks!DaoOpsAssumption, ChecksProofs!DaoOpsAssumption
<1>12. DaoChecks!Init <=> ChecksProofs!Init
    BY DEF DaoChecks!Init, ChecksProofs!Init
<1>13. DaoChecks!TypeOK <=> ChecksProofs!TypeOK
    BY DEF DaoChecks!TypeOK, ChecksProofs!TypeOK
<1>14. DaoChecks!DueIsReported <=> ChecksProofs!DueIsReported
    BY DEF DaoChecks!DueIsReported, ChecksProofs!DueIsReported
<1>15. DaoChecks!StartIsSustained <=> ChecksProofs!StartIsSustained
    BY DEF DaoChecks!StartIsSustained, ChecksProofs!StartIsSustained
<1> QED BY <1>10, <1>11, <1>12, <1>13, <1>14, <1>15, Zenon

LEMMA BufferProofsSame ==
    /\ DaoBuffer!DaoOpsAssumption <=> BufferProofs!DaoOpsAssumption
    /\ DaoBuffer!Init <=> BufferProofs!Init
    /\ [DaoBuffer!Next]_(DaoBuffer!vars) <=> [BufferProofs!Next]_(BufferProofs!vars)
    /\ DaoChecks!TypeOK <=> BufferProofs!TypeOK
    /\ DaoChecks!DueIsReported <=> BufferProofs!DueIsReported
    /\ DaoChecks!StartIsSustained <=> BufferProofs!StartIsSustained
<1> USE DEF DaoBuffer!Kinds, DaoBuffer!Blocks, DaoBuffer!Time, DaoBuffer!Level,
           DaoBuffer!NoRun, DaoBuffer!timers, DaoBuffer!rewards, DaoBuffer!vars,
           DaoBuffer!Over, DaoBuffer!throttled, DaoBuffer!delayed, DaoBuffer!asking,
           DaoBuffer!orphaned, DaoBuffer!calls, DaoBuffer!finds, DaoBuffer!reports,
           DaoBuffer!startOf, DaoBuffer!lasts, DaoBuffer!mayRetry, DaoBuffer!Since,
           DaoBuffer!Smooth, BufferProofs!Kinds, BufferProofs!Blocks, BufferProofs!Time,
           BufferProofs!Level, BufferProofs!NoRun, BufferProofs!timers,
           BufferProofs!rewards, BufferProofs!vars, BufferProofs!Over,
           BufferProofs!throttled, BufferProofs!delayed, BufferProofs!asking,
           BufferProofs!orphaned, BufferProofs!calls, BufferProofs!finds,
           BufferProofs!reports, BufferProofs!startOf, BufferProofs!lasts,
           BufferProofs!mayRetry, BufferProofs!Since, BufferProofs!Smooth,
           DaoChecks!Kinds, DaoChecks!Blocks, DaoChecks!Time, DaoChecks!Level,
           DaoChecks!NoRun, DaoChecks!timers, DaoChecks!rewards, DaoChecks!vars,
           DaoChecks!Over, DaoChecks!throttled, DaoChecks!delayed, DaoChecks!asking,
           DaoChecks!orphaned, DaoChecks!calls, DaoChecks!finds, DaoChecks!reports,
           DaoChecks!startOf, DaoChecks!lasts, DaoChecks!mayRetry, DaoChecks!Since,
           DaoChecks!Smooth
<1>1. DaoBuffer!handleBlock <=> BufferProofs!handleBlock
    BY DEF DaoBuffer!handleBlock, BufferProofs!handleBlock
<1>2. DaoBuffer!handleRewardDistributionEvent <=> BufferProofs!handleRewardDistributionEvent
    BY DEF DaoBuffer!handleRewardDistributionEvent, BufferProofs!handleRewardDistributionEvent,
           DaoBuffer!Cardinality, BufferProofs!Cardinality
<1>3. ASSUME NEW p \in daoPending PROVE DaoBuffer!checkAnswered(p) <=> BufferProofs!checkAnswered(p)
    BY DEF DaoBuffer!checkAnswered, BufferProofs!checkAnswered
<1>4. ASSUME NEW p \in daoPending PROVE DaoBuffer!bufferedAnswered(p) <=> BufferProofs!bufferedAnswered(p)
    BY DEF DaoBuffer!bufferedAnswered, BufferProofs!bufferedAnswered
<1>5. ASSUME NEW p \in daoPending PROVE DaoBuffer!requestFails(p) <=> BufferProofs!requestFails(p)
    BY DEF DaoBuffer!requestFails, BufferProofs!requestFails
<1>6. ASSUME NEW b \in DaoBuffer!Blocks PROVE DaoBuffer!callReturns(b) <=> BufferProofs!callReturns(b)
    BY DEF DaoBuffer!callReturns, BufferProofs!callReturns
<1>7. ASSUME NEW b \in DaoBuffer!Blocks PROVE DaoBuffer!timeout(b) <=> BufferProofs!timeout(b)
    BY DEF DaoBuffer!timeout, BufferProofs!timeout
<1>8. ASSUME NEW t \in distribution PROVE DaoBuffer!checkpointsCounted(t) <=> BufferProofs!checkpointsCounted(t)
    BY DEF DaoBuffer!checkpointsCounted, BufferProofs!checkpointsCounted
<1>9. DaoBuffer!Next <=> BufferProofs!Next
    BY <1>1, <1>2, <1>3, <1>4, <1>5, <1>6, <1>7, <1>8 DEF DaoBuffer!Next, BufferProofs!Next
<1>10. [DaoBuffer!Next]_(DaoBuffer!vars) <=> [BufferProofs!Next]_(BufferProofs!vars)
    BY <1>9
<1>11. DaoBuffer!DaoOpsAssumption <=> BufferProofs!DaoOpsAssumption
    BY DEF DaoBuffer!DaoOpsAssumption, BufferProofs!DaoOpsAssumption
<1>12. DaoBuffer!Init <=> BufferProofs!Init
    BY DEF DaoBuffer!Init, BufferProofs!Init
<1>13. DaoChecks!TypeOK <=> BufferProofs!TypeOK
    BY DEF DaoChecks!TypeOK, BufferProofs!TypeOK
<1>14. DaoChecks!DueIsReported <=> BufferProofs!DueIsReported
    BY DEF DaoChecks!DueIsReported, BufferProofs!DueIsReported
<1>15. DaoChecks!StartIsSustained <=> BufferProofs!StartIsSustained
    BY DEF DaoChecks!StartIsSustained, BufferProofs!StartIsSustained
<1> QED BY <1>10, <1>11, <1>12, <1>13, <1>14, <1>15, Zenon

(* What an answered block gave reason for is reported within the window of    *)
(* its throttle, unless a call of that window failed or timed out.            *)
THEOREM DueIsReportedCorrect == DaoChecks!Spec \/ DaoBuffer!Spec => []DueIsReported
<1>1. ChecksProofs!Spec => []ChecksProofs!DueIsReported
    BY BotsAssumption, ChecksProofsSame, ChecksProofs!DueIsReportedCorrect
<1>2. BufferProofs!Spec => []BufferProofs!DueIsReported
    BY BotsAssumption, BufferProofsSame, BufferProofs!DueIsReportedCorrect
<1>3. DueIsReported <=> DaoChecks!DueIsReported
    BY DEF DueIsReported
<1> QED BY <1>1, <1>2, <1>3, ChecksProofsSame, BufferProofsSame, PTL
        DEF DaoChecks!Spec, DaoBuffer!Spec, ChecksProofs!Spec, BufferProofs!Spec

(* A timer of the buffer starts after the last block that was seen at a lower *)
(* level, as long as no check was overtaken.                                  *)
THEOREM StartIsSustainedCorrect == DaoChecks!Spec \/ DaoBuffer!Spec => []StartIsSustained
<1>1. ChecksProofs!Spec => []ChecksProofs!StartIsSustained
    BY BotsAssumption, ChecksProofsSame, ChecksProofs!StartIsSustainedCorrect
<1>2. BufferProofs!Spec => []BufferProofs!StartIsSustained
    BY BotsAssumption, BufferProofsSame, BufferProofs!StartIsSustainedCorrect
<1>3. StartIsSustained <=> DaoChecks!StartIsSustained
    BY DEF StartIsSustained
<1> QED BY <1>1, <1>2, <1>3, ChecksProofsSame, BufferProofsSame, PTL
        DEF DaoChecks!Spec, DaoBuffer!Spec, ChecksProofs!Spec, BufferProofs!Spec

(* The DAO operations keep their types, with either constants.               *)
THEOREM DaoOpsAreTyped == DaoChecks!Spec \/ DaoBuffer!Spec => []DaoChecks!TypeOK
<1>1. ChecksProofs!Spec => []ChecksProofs!TypeOK
    BY BotsAssumption, ChecksProofsSame, ChecksProofs!DaoOpsAreTyped
<1>2. BufferProofs!Spec => []BufferProofs!TypeOK
    BY BotsAssumption, BufferProofsSame, BufferProofs!DaoOpsAreTyped
<1> QED BY <1>1, <1>2, ChecksProofsSame, BufferProofsSame, PTL
        DEF DaoChecks!Spec, DaoBuffer!Spec, ChecksProofs!Spec, BufferProofs!Spec

-----------------------------------------------------------------------------
(* The bots side by side.                                                     *)
allVars == <<part, vars, opVars, proxyVars, daoVars, voteVars, csmVars>>

LEMMA InitsAreTheirOwn ==
    MCInit => /\ Init /\ NodeOps!Init /\ ProxyAdmin!Init /\ DaoChecks!Init /\ DaoBuffer!Init
              /\ Voting!Init /\ Csm!Init /\ part \in Part
BY DEF MCInit, DaoBuffer!Init, DaoChecks!Init, DaoBuffer!NoRun, DaoChecks!NoRun, DaoBuffer!Kinds,
       DaoChecks!Kinds, DaoBuffer!Level, DaoChecks!Level, DaoBuffer!Blocks, DaoChecks!Blocks

LEMMA StepsAreTheirOwn ==
    [MCNext]_allVars =>
        /\ UNCHANGED part
        /\ [Next]_vars /\ [NodeOps!Next]_(NodeOps!vars) /\ [ProxyAdmin!Next]_(ProxyAdmin!vars)
        /\ [Voting!Next]_(Voting!vars) /\ [Csm!Next]_(Csm!vars)
        /\ part # "buffer" => [DaoChecks!Next]_(DaoChecks!vars)
        /\ part = "buffer" => [DaoBuffer!Next]_(DaoBuffer!vars)
<1> SUFFICES ASSUME [MCNext]_allVars
             PROVE  /\ UNCHANGED part
                    /\ [Next]_vars /\ [NodeOps!Next]_(NodeOps!vars) /\ [ProxyAdmin!Next]_(ProxyAdmin!vars)
                    /\ [Voting!Next]_(Voting!vars) /\ [Csm!Next]_(Csm!vars)
                    /\ part # "buffer" => [DaoChecks!Next]_(DaoChecks!vars)
                    /\ part = "buffer" => [DaoBuffer!Next]_(DaoBuffer!vars)
    OBVIOUS
<1>1. /\ UNCHANGED part
      /\ Next \/ UNCHANGED vars
      /\ NodeOps!Next \/ UNCHANGED opVars
      /\ ProxyAdmin!Next \/ UNCHANGED proxyVars
      /\ Voting!Next \/ UNCHANGED voteVars
      /\ Csm!Next \/ UNCHANGED csmVars
      /\ (part # "buffer" /\ DaoChecks!Next) \/ (part = "buffer" /\ DaoBuffer!Next) \/ UNCHANGED daoVars
    BY Zenon DEF MCNext, allVars
<1>2. UNCHANGED opVars => UNCHANGED NodeOps!vars
    BY DEF opVars, NodeOps!vars
<1>3. UNCHANGED proxyVars => UNCHANGED ProxyAdmin!vars
    BY DEF proxyVars, ProxyAdmin!vars
<1>4. UNCHANGED voteVars => UNCHANGED Voting!vars
    BY DEF voteVars, Voting!vars
<1>5. UNCHANGED csmVars => UNCHANGED Csm!vars
    BY DEF csmVars, Csm!vars, Csm!chainVars, Csm!serviceVars, Csm!history
<1>6. UNCHANGED daoVars => UNCHANGED DaoChecks!vars /\ UNCHANGED DaoBuffer!vars
    BY DEF daoVars, DaoChecks!vars, DaoChecks!timers, DaoChecks!rewards, DaoBuffer!vars, DaoBuffer!timers,
           DaoBuffer!rewards
<1> QED BY <1>1, <1>2, <1>3, <1>4, <1>5, <1>6

(* Side by side the bots do what each does by itself: the composition adds no *)
(* step to a bot and takes none of its steps' conditions away.  The DAO       *)
(* operations have the constants of the part that is taken.                   *)
THEOREM PartsAreTheirOwn ==
    MCSpec => /\ Spec /\ NodeOps!Spec /\ ProxyAdmin!Spec /\ Voting!Spec /\ Csm!Spec
              /\ part # "buffer" => DaoChecks!Spec
              /\ part = "buffer" => DaoBuffer!Spec
<1>1. part # "buffer" /\ [MCNext]_allVars => (part # "buffer")'
    BY StepsAreTheirOwn
<1>2. part = "buffer" /\ [MCNext]_allVars => (part = "buffer")'
    BY StepsAreTheirOwn
<1>3. MCSpec <=> (MCInit /\ [][MCNext]_allVars)
    BY DEF MCSpec, allVars
<1> QED BY <1>1, <1>2, <1>3, InitsAreTheirOwn, StepsAreTheirOwn, PTL
        DEF Spec, NodeOps!Spec, ProxyAdmin!Spec, Voting!Spec, Csm!Spec, DaoChecks!Spec, DaoBuffer!Spec

(* Every variable of the run keeps its type: those of the part that is taken  *)
(* by its steps, the others by staying as they are.                           *)
BotTypes == IInv /\ OpTypes /\ ProxyAdmin!TypeOK /\ Voting!TypeOK /\ CsmTypes

THEOREM PartsAreTyped == MCSpec => []TypesOK
<1>1. MCInit => BotTypes /\ part \in Part
    BY InitsAreTheirOwn, InitIInv, OpTypesInit, ProxyTypesInit, VoteTypesInit, CsmTypesInit DEF BotTypes
<1>2. (BotTypes /\ part \in Part) /\ [MCNext]_allVars => (BotTypes /\ part \in Part)'
    BY StepsAreTheirOwn, NextIInv, OpTypesNext, ProxyTypesNext, VoteTypesNext, CsmTypesNext DEF BotTypes
<1>3. (BotTypes /\ part \in Part) /\ DaoChecks!TypeOK => TypesOK
    <2> SUFFICES ASSUME BotTypes, part \in Part, DaoChecks!TypeOK PROVE TypesOK
        OBVIOUS
    <2>1. TypeOK /\ NodeOps!TypeOK /\ ProxyAdmin!TypeOK /\ Voting!TypeOK /\ Csm!TypeOK
        BY DEF BotTypes, IInv, OpTypes, CsmTypes
    <2>2. part \in {"withdrawals", "operators", "proxies", "throttles", "buffer", "voting", "csm"}
        BY BotsAssumption
    <2> QED BY <2>1, <2>2 DEF TypesOK
<1>4. MCSpec <=> (MCInit /\ [][MCNext]_allVars)
    BY DEF MCSpec, allVars
<1>5. part # "buffer" <=> ~(part = "buffer")
    OBVIOUS
<1> QED BY <1>1, <1>2, <1>3, <1>4, <1>5, PartsAreTheirOwn, DaoOpsAreTyped, PTL

(* What is proved of the bots one by one holds of the run that puts them side *)
(* by side.                                                                   *)
THEOREM RunIsCorrect ==
    MCSpec => /\ [](/\ NothingIsLost /\ BurstIsReported /\ NewsIsTrue /\ AdminsAreTold
                    /\ DueIsReported /\ StartIsSustained /\ EndIsTold /\ SharedIsTold)
              /\ CountedInPeriod
<1>1. part # "buffer" <=> ~(part = "buffer")
    OBVIOUS
<1> QED BY <1>1, PartsAreTheirOwn, NoLoss, BurstCorrect, NewsIsTrueCorrect, AdminsAreToldCorrect,
           EndIsToldCorrect, SharedIsToldCorrect, DueIsReportedCorrect,
           StartIsSustainedCorrect, CountedCorrect, PTL
=============================================================================
