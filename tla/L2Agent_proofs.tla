---------------------------- MODULE L2Agent_proofs ----------------------------
(***************************************************************************)
(* The proof that the agent of an L2 bot passes over no block without a     *)
(* cause and that its cursor goes back no further than a node is behind,    *)
(* for any number of calls, blocks and any lag.  Both rest on the flag: at  *)
(* most one call is under way (OneCallRuns), so that what a call has read   *)
(* of the cursor is still true when its answer comes (WaitsForCursor).      *)
(* Then the proof that its proxy watcher tells what it records, what a call *)
(* of the withdrawals monitor computes for any batch of blocks, and that a  *)
(* behaviour of MCL2Bridge is one of each of the three.                     *)
(***************************************************************************)
EXTENDS MCL2Bridge, Sequences, WellFoundedInduction, TLAPS

(* A call that is not idle, even one that has thrown, holds the flag.         *)
OneCallRuns ==
    /\ \A c \in Calls : call[c].at # "idle" => isHandleBLockRunning
    /\ \A c, d \in Calls : call[c].at # "idle" /\ call[d].at # "idle" => c = d

(* What a call waits for; one that waits for blocks has them asked for from   *)
(* the cursor, which has not moved since.                                     *)
WaitsForCursor ==
    \A c \in Calls :
        /\ call[c].at \notin {"blocks", "logs"} => call[c].from = Undefined /\ call[c].to = Undefined
        /\ call[c].at = "blocks" => /\ call[c].from = cachedBlockDto
                                    /\ cachedBlockDto # Undefined
                                    /\ call[c].to \in Blocks
                                    /\ call[c].to <= head
                                    /\ call[c].to >= cachedBlockDto - Lag
        /\ call[c].at = "logs" => call[c].from \in Blocks /\ call[c].to \in Blocks

(* The cursor is at a block that it has passed, and that exists.              *)
CursorIsPassed == cachedBlockDto <= passed /\ passed <= head

IInv == TypeOK /\ OneCallRuns /\ WaitsForCursor /\ CursorIsPassed

-----------------------------------------------------------------------------
(* A set of naturals with a member has a least one.                           *)
LEMMA LeastExists ==
    ASSUME NEW S \in SUBSET Nat, S # {}
    PROVE  \E x \in S : \A y \in S : x <= y
<1>1. PICK x \in S : \A y \in S : ~(<<y, x>> \in OpToRel(<, Nat))
    BY NatLessThanWellFounded, WFMin
<1>2. \A y \in S : ~(y < x)
    BY <1>1 DEF OpToRel
<1> QED BY <1>2

(* firstOf is the least of the fetched blocks and the latest one.             *)
LEMMA FirstIsLeast ==
    ASSUME NEW got \in SUBSET Nat, NEW n \in Nat
    PROVE  /\ firstOf(got, n) \in got \union {n}
           /\ \A a \in got \union {n} : firstOf(got, n) <= a
<1>1. \E x \in got \union {n} : \A y \in got \union {n} : x <= y
    <2>1. got \union {n} \in SUBSET Nat /\ got \union {n} # {}
        OBVIOUS
    <2> QED BY <2>1, LeastExists
<1> QED BY <1>1 DEF firstOf

-----------------------------------------------------------------------------
LEMMA InitIInv == Init => IInv
<1> SUFFICES ASSUME Init PROVE IInv
    OBVIOUS
<1>1. TypeOK
    <2>1. 1 \in Blocks
        BY AgentAssumption DEF Blocks
    <2>2. Idle \in [at : {"idle", "findings", "latest", "blocks", "logs", "watchers", "thrown"},
                    from : Blocks \union {Undefined}, to : Blocks \union {Undefined}]
        BY DEF Idle
    <2> QED BY <2>1, <2>2 DEF Init, TypeOK
<1>2. OneCallRuns /\ WaitsForCursor
    BY DEF Init, OneCallRuns, WaitsForCursor, Idle
<1>3. CursorIsPassed
    BY DEF Init, CursorIsPassed, Undefined
<1> QED BY <1>1, <1>2, <1>3 DEF IInv

(* handleBlock takes the flag, so no other call is under way.                 *)
LEMMA HandleBlockIInv ==
    ASSUME IInv, NEW c \in Calls, handleBlock(c)
    PROVE  IInv'
<1> USE DEF IInv
<1>1. TypeOK'
    BY DEF handleBlock, TypeOK
<1>2. OneCallRuns'
    BY DEF handleBlock, TypeOK, OneCallRuns, mayEnter
<1>3. WaitsForCursor' /\ CursorIsPassed'
    BY DEF handleBlock, TypeOK, WaitsForCursor, CursorIsPassed
<1> QED BY <1>1, <1>2, <1>3

LEMMA FindingsReadIInv ==
    ASSUME IInv, NEW c \in Calls, findingsRead(c)
    PROVE  IInv'
<1> USE DEF IInv
<1>1. TypeOK'
    BY DEF findingsRead, TypeOK
<1>2. OneCallRuns'
    BY DEF findingsRead, TypeOK, OneCallRuns
<1>3. WaitsForCursor' /\ CursorIsPassed'
    BY DEF findingsRead, TypeOK, WaitsForCursor, CursorIsPassed
<1> QED BY <1>1, <1>2, <1>3

(* The latest block that was answered exists and is Lag behind at most.       *)
LEMMA LatestAnsweredIInv ==
    ASSUME IInv, NEW c \in Calls, latestAnswered(c)
    PROVE  IInv'
<1> USE DEF IInv
<1>1. PICK n \in Blocks \intersect (head - Lag..head) : startsOver(c, n) \/ goesOn(c, n)
    BY DEF latestAnswered
<1>2. n \in Nat /\ n >= 1 /\ n <= head /\ n >= head - Lag /\ head \in Nat /\ passed \in Nat
    <2>1. head \in Nat /\ passed \in Nat /\ n \in Nat /\ n >= 1
        BY <1>1, AgentAssumption DEF TypeOK, Blocks, Undefined
    <2>2. n \in head - Lag..head
        BY <1>1
    <2> QED BY <2>1, <2>2, AgentAssumption
<1>3. call[c].at = "latest" /\ UNCHANGED <<head, isHandleBLockRunning, findingsRW, looked, missed>>
    BY DEF latestAnswered
<1>4. CASE startsOver(c, n)
    <2>1. passed' = (IF n > passed THEN n ELSE passed) /\ passedOver' = passedOver \union (passed + 1..n - 1)
        BY <1>4 DEF startsOver, newest
    <2>2. passed' \in Blocks \union {Undefined} /\ passed' >= n /\ passed' <= head
        BY <1>1, <1>2, <2>1 DEF TypeOK, CursorIsPassed
    <2>8. passedOver' \subseteq Blocks
        <3>1. passed + 1..n - 1 \subseteq Blocks
            BY <1>1, <1>2, AgentAssumption DEF Blocks
        <3> QED BY <2>1, <3>1 DEF TypeOK
    <2>3. TypeOK'
        BY <1>1, <1>3, <1>4, <2>2, <2>8 DEF startsOver, TypeOK, cursorAt
    <2>4. OneCallRuns'
        BY <1>3, <1>4 DEF startsOver, TypeOK, OneCallRuns
    <2>5. WaitsForCursor'
        BY <1>1, <1>3, <1>4 DEF startsOver, TypeOK, WaitsForCursor, OneCallRuns
    <2>6. CursorIsPassed'
        BY <1>3, <1>4, <2>2 DEF startsOver, CursorIsPassed, cursorAt
    <2> QED BY <2>3, <2>4, <2>5, <2>6
<1>5. CASE goesOn(c, n)
    <2>1. TypeOK'
        BY <1>1, <1>3, <1>5 DEF goesOn, TypeOK
    <2>2. OneCallRuns'
        BY <1>3, <1>5 DEF goesOn, TypeOK, OneCallRuns
    <2>3. n >= cachedBlockDto - Lag
        BY <1>2, AgentAssumption DEF CursorIsPassed, TypeOK, Blocks, Undefined
    <2>4. WaitsForCursor'
        BY <1>1, <1>2, <1>3, <1>5, <2>3 DEF goesOn, TypeOK, WaitsForCursor
    <2>5. CursorIsPassed'
        BY <1>3, <1>5 DEF goesOn, CursorIsPassed
    <2> QED BY <2>1, <2>2, <2>4, <2>5
<1> QED BY <1>1, <1>4, <1>5

LEMMA LatestFailsIInv ==
    ASSUME IInv, NEW c \in Calls, latestFails(c)
    PROVE  IInv'
<1> USE DEF IInv
<1>1. TypeOK'
    BY DEF latestFails, returns, TypeOK, Idle
<1>2. OneCallRuns'
    BY DEF latestFails, returns, TypeOK, OneCallRuns, Idle
<1>3. WaitsForCursor'
    BY DEF latestFails, returns, TypeOK, WaitsForCursor, OneCallRuns, Idle
<1>4. CursorIsPassed'
    BY AgentAssumption DEF latestFails, TypeOK, CursorIsPassed, Undefined, Blocks
<1> QED BY <1>1, <1>2, <1>3, <1>4

(* What blocksFetched does, for the first block that was fetched.             *)
LEMMA BlocksFetchedStep ==
    ASSUME IInv, NEW c \in Calls, blocksFetched(c)
    PROVE  \E got \in SUBSET (call[c].from..call[c].to - 1), first \in Blocks :
              /\ first = firstOf(got, call[c].to)
              /\ first >= call[c].from \/ first = call[c].to
              /\ first <= call[c].to
              /\ \A a \in got : first <= a
              /\ call' = [call EXCEPT ![c] = [at |-> "logs", from |-> first, to |-> call[c].to]]
              /\ missed' = missed \union {b \in (call[c].from..call[c].to - 1) \ got : b < first}
<1> DEFINE n == call[c].to
           before == call[c].from..n - 1
<1>1. PICK got \in SUBSET before :
          /\ call' = [call EXCEPT ![c] = [at |-> "logs", from |-> firstOf(got, n), to |-> n]]
          /\ missed' = missed \union {b \in before \ got : b < firstOf(got, n)}
    BY DEF blocksFetched
<1>2. call[c].from \in Blocks /\ n \in Blocks
    BY DEF IInv, WaitsForCursor, blocksFetched, TypeOK, Undefined
<1>3. Blocks \subseteq Nat /\ before \subseteq Blocks
    BY <1>2, AgentAssumption DEF Blocks
<1>4. /\ firstOf(got, n) \in got \union {n}
      /\ \A a \in got \union {n} : firstOf(got, n) <= a
    <2>1. got \in SUBSET Nat /\ n \in Nat
        BY <1>2, <1>3
    <2> HIDE DEF n
    <2> QED BY <2>1, FirstIsLeast
<1>5. firstOf(got, n) \in Blocks
    BY <1>2, <1>3, <1>4
<1>6. firstOf(got, n) >= call[c].from \/ firstOf(got, n) = n
    <2>1. \A b \in before : b >= call[c].from
        BY <1>2, <1>3
    <2> HIDE DEF n, before
    <2> QED BY <1>4, <2>1
<1> QED BY <1>1, <1>4, <1>5, <1>6

LEMMA BlocksFetchedIInv ==
    ASSUME IInv, NEW c \in Calls, blocksFetched(c)
    PROVE  IInv'
<1> USE DEF IInv
<1>1. PICK got \in SUBSET (call[c].from..call[c].to - 1), first \in Blocks :
          /\ call' = [call EXCEPT ![c] = [at |-> "logs", from |-> first, to |-> call[c].to]]
          /\ missed' = missed \union {b \in (call[c].from..call[c].to - 1) \ got : b < first}
    BY BlocksFetchedStep
<1>2. call[c].from \in Blocks /\ call[c].to \in Blocks /\ call[c].to <= head
    BY DEF WaitsForCursor, blocksFetched, TypeOK, Undefined
<1>3. /\ cachedBlockDto' = call[c].to
      /\ passed' = IF call[c].to > passed THEN call[c].to ELSE passed
      /\ UNCHANGED <<head, isHandleBLockRunning, findingsRW, looked, passedOver>>
    BY DEF blocksFetched, cursorAt, newest
<1>4. head \in Nat /\ passed \in Nat /\ call[c].to \in Nat
    BY <1>2, AgentAssumption DEF TypeOK, Blocks, Undefined
<1>5. passed' \in Blocks \union {Undefined} /\ call[c].to <= passed' /\ passed' <= head
    BY <1>2, <1>3, <1>4 DEF TypeOK, CursorIsPassed
<1>6. missed' \subseteq Blocks
    <2>1. call[c].from..call[c].to - 1 \subseteq Blocks
        BY <1>2, AgentAssumption DEF Blocks
    <2> QED BY <1>1, <2>1 DEF TypeOK
<1>7. TypeOK'
    BY <1>1, <1>2, <1>3, <1>5, <1>6 DEF TypeOK
<1>8. OneCallRuns'
    BY <1>1, <1>3 DEF blocksFetched, TypeOK, OneCallRuns
<1>9. WaitsForCursor'
    BY <1>1, <1>2 DEF blocksFetched, TypeOK, WaitsForCursor, OneCallRuns
<1>10. CursorIsPassed'
    BY <1>3, <1>5 DEF CursorIsPassed
<1> QED BY <1>7, <1>8, <1>9, <1>10

LEMMA LogsFetchedIInv ==
    ASSUME IInv, NEW c \in Calls, logsFetched(c)
    PROVE  IInv'
<1> USE DEF IInv
<1>1. call[c].from..call[c].to \subseteq Blocks
    <2>1. call[c].from \in Blocks /\ call[c].to \in Blocks
        BY DEF logsFetched, WaitsForCursor
    <2> QED BY <2>1, AgentAssumption DEF Blocks
<1>2. TypeOK'
    BY <1>1 DEF logsFetched, TypeOK, Idle
<1>3. OneCallRuns'
    BY DEF logsFetched, TypeOK, OneCallRuns, Idle
<1>4. WaitsForCursor' /\ CursorIsPassed'
    BY DEF logsFetched, TypeOK, WaitsForCursor, CursorIsPassed, Idle
<1> QED BY <1>2, <1>3, <1>4

LEMMA WatchedIInv ==
    ASSUME IInv, NEW c \in Calls, watched(c)
    PROVE  IInv'
<1> USE DEF IInv
<1>1. TypeOK'
    BY DEF watched, returns, TypeOK, Idle
<1>2. OneCallRuns'
    BY DEF watched, returns, TypeOK, OneCallRuns, Idle
<1>3. WaitsForCursor' /\ CursorIsPassed'
    BY DEF watched, returns, TypeOK, WaitsForCursor, CursorIsPassed, Idle
<1> QED BY <1>1, <1>2, <1>3

(* A call that has thrown keeps the flag, so that no other call ever runs.    *)
LEMMA ThrowsIInv ==
    ASSUME IInv, NEW c \in Calls, throws(c)
    PROVE  IInv'
<1> USE DEF IInv
<1>1. passedOver' \subseteq Blocks
    <2>1. CASE call[c].at = "logs"
        <3>1. call[c].from \in Blocks /\ call[c].to \in Blocks
            BY <2>1 DEF WaitsForCursor
        <3>2. call[c].from..call[c].to \subseteq Blocks
            BY <3>1, AgentAssumption DEF Blocks
        <3> QED BY <2>1, <3>2 DEF throws, TypeOK
    <2>2. CASE call[c].at # "logs"
        BY <2>2 DEF throws, TypeOK
    <2> QED BY <2>1, <2>2
<1>2. TypeOK'
    BY <1>1 DEF throws, TypeOK, Idle
<1>3. OneCallRuns'
    BY DEF throws, TypeOK, OneCallRuns, Idle
<1>4. WaitsForCursor' /\ CursorIsPassed'
    BY DEF throws, TypeOK, WaitsForCursor, CursorIsPassed, Idle
<1> QED BY <1>1, <1>2, <1>3, <1>4

LEMMA NewL2BlockIInv == IInv /\ newL2Block => IInv'
<1> SUFFICES ASSUME IInv, newL2Block PROVE IInv'
    OBVIOUS
<1> USE DEF IInv
<1>1. head \in Nat /\ passed \in Nat /\ head + 1 \in Blocks
    BY AgentAssumption DEF newL2Block, TypeOK, Blocks, Undefined
<1>2. TypeOK' /\ OneCallRuns'
    BY <1>1 DEF newL2Block, TypeOK, OneCallRuns
<1>3. WaitsForCursor'
    <2>1. \A c \in Calls : call[c].at = "blocks" => call[c].to <= head + 1
        <3>1. \A n \in Blocks : n <= head => n <= head + 1
            BY <1>1, AgentAssumption DEF Blocks
        <3> QED BY <3>1 DEF WaitsForCursor
    <2> QED BY <2>1 DEF newL2Block, WaitsForCursor
<1>4. CursorIsPassed'
    BY <1>1 DEF newL2Block, CursorIsPassed
<1> QED BY <1>2, <1>3, <1>4

LEMMA NextIInv == IInv /\ [Next]_vars => IInv'
<1> SUFFICES ASSUME IInv, [Next]_vars PROVE IInv'
    OBVIOUS
<1>1. CASE UNCHANGED vars
    BY <1>1 DEF vars, IInv, TypeOK, OneCallRuns, WaitsForCursor, CursorIsPassed
<1>2. CASE newL2Block
    BY <1>2, NewL2BlockIInv
<1>3. ASSUME NEW c \in Calls, handleBlock(c) \/ continues(c) \/ throws(c) PROVE IInv'
    BY <1>3, HandleBlockIInv, FindingsReadIInv, LatestAnsweredIInv, LatestFailsIInv,
       BlocksFetchedIInv, LogsFetchedIInv, WatchedIInv, ThrowsIInv DEF continues
<1> QED BY <1>1, <1>2, <1>3 DEF Next

(* The variables have their types, and the flag keeps the calls apart.        *)
THEOREM TypeCorrect == Spec => []TypeOK
<1>1. IInv => TypeOK
    BY DEF IInv
<1> QED BY InitIInv, NextIInv, <1>1, PTL DEF Spec

-----------------------------------------------------------------------------
(* The cursor goes back no further than a node may be behind.                 *)
LEMMA CursorStep == IInv /\ [Next]_vars =>
    (cachedBlockDto # Undefined /\ cachedBlockDto' # Undefined
        => cachedBlockDto' >= cachedBlockDto - Lag)
<1> SUFFICES ASSUME IInv, [Next]_vars, cachedBlockDto # Undefined, cachedBlockDto' # Undefined
             PROVE  cachedBlockDto' >= cachedBlockDto - Lag
    OBVIOUS
<1>1. cachedBlockDto \in Nat /\ Lag \in Nat
    BY AgentAssumption DEF IInv, TypeOK, Blocks, Undefined
<1>2. CASE UNCHANGED cachedBlockDto
    BY <1>1, <1>2
<1>3. ASSUME NEW c \in Calls, blocksFetched(c) PROVE cachedBlockDto' >= cachedBlockDto - Lag
    BY <1>3 DEF IInv, WaitsForCursor, blocksFetched, cursorAt
<1>4. ASSUME NEW c \in Calls, latestAnswered(c) PROVE UNCHANGED cachedBlockDto
    BY <1>4 DEF latestAnswered, startsOver, goesOn
<1>5. ASSUME NEW c \in Calls, latestFails(c) PROVE FALSE
    BY <1>5 DEF latestFails
<1>6. ASSUME NEW c \in Calls,
             handleBlock(c) \/ findingsRead(c) \/ logsFetched(c) \/ watched(c) \/ throws(c)
      PROVE  UNCHANGED cachedBlockDto
    BY <1>6 DEF handleBlock, findingsRead, logsFetched, watched, throws
<1>7. CASE newL2Block \/ UNCHANGED vars
    BY <1>2, <1>7 DEF newL2Block, vars
<1> QED BY <1>2, <1>3, <1>4, <1>5, <1>6, <1>7 DEF Next, continues

(* Calls do not disturb each other's cursor.                                  *)
THEOREM CursorCorrect == Spec => CursorKeepsUp
BY InitIInv, NextIInv, CursorStep, PTL DEF Spec, CursorKeepsUp

-----------------------------------------------------------------------------
(* Why a block is accounted for.                                              *)
Accounted(b) == b \in looked \union UnderWay \union passedOver \union missed

(* A step that changes one call leaves the segments of the others under way.  *)
LEMMA UnderWayStep ==
    ASSUME NEW c \in Calls, \A d \in Calls \ {c} : call'[d] = call[d]
    PROVE  /\ \A b \in UnderWay : b \in UnderWay' \/ b \in call[c].from..call[c].to
           /\ \A b \in (call[c].from..call[c].to)' : b \in UnderWay'
BY DEF UnderWay

(* A step that changes the call c in some field other than its segment.       *)
LEMMA SameSegmentsStep ==
    ASSUME \A d \in Calls : call'[d].from = call[d].from /\ call'[d].to = call[d].to
    PROVE  UnderWay' = UnderWay
BY DEF UnderWay

(* The segment of a call that is not asking is that of no block.              *)
LEMMA RestStep ==
    ASSUME IInv, NEW c \in Calls, call[c].at \notin {"blocks", "logs"}
    PROVE  \A b \in Nat \ {0} : b \notin call[c].from..call[c].to
BY DEF IInv, WaitsForCursor, Undefined

(* What is accounted for stays so, and what the cursor passes becomes so.     *)
LEMMA StartsOverAccounted ==
    ASSUME IInv, EveryBlockIsAccounted, NEW c \in Calls, NEW n \in Blocks,
           call[c].at = "latest", startsOver(c, n), UNCHANGED <<looked, missed>>
    PROVE  EveryBlockIsAccounted'
<1> SUFFICES ASSUME NEW b \in 1..passed' PROVE Accounted(b)'
    BY DEF EveryBlockIsAccounted, Accounted
<1>1. passed \in Nat /\ n \in Nat
    BY AgentAssumption DEF IInv, TypeOK, Blocks, Undefined
<1>2. /\ passed' = (IF n > passed THEN n ELSE passed)
      /\ passedOver' = passedOver \union (passed + 1..n - 1)
      /\ call' = [call EXCEPT ![c] = [at |-> "logs", from |-> n, to |-> n]]
    BY DEF startsOver, newest
<1>3. call'[c] = [at |-> "logs", from |-> n, to |-> n] /\ \A d \in Calls \ {c} : call'[d] = call[d]
    BY <1>2 DEF IInv, TypeOK
<1>4. CASE b \in 1..passed
    <2>1. Accounted(b)
        BY <1>4 DEF EveryBlockIsAccounted, Accounted
    <2>2. b \in UnderWay => b \in UnderWay'
        BY <1>3, <1>4, UnderWayStep, RestStep
    <2> QED BY <1>2, <2>1, <2>2 DEF Accounted
<1>5. CASE b \in passed + 1..n - 1
    BY <1>2, <1>5 DEF Accounted
<1>6. CASE b = n
    <2>1. b \in (call[c].from..call[c].to)'
        BY <1>1, <1>3, <1>6
    <2> QED BY <1>3, <2>1, UnderWayStep DEF Accounted
<1> QED BY <1>1, <1>2, <1>4, <1>5, <1>6

LEMMA GoesOnAccounted ==
    ASSUME IInv, EveryBlockIsAccounted, NEW c \in Calls, NEW n \in Blocks,
           call[c].at = "latest", goesOn(c, n), UNCHANGED <<looked, missed>>
    PROVE  EveryBlockIsAccounted'
<1> SUFFICES ASSUME NEW b \in 1..passed' PROVE Accounted(b)'
    BY DEF EveryBlockIsAccounted, Accounted
<1>1. b \in 1..passed /\ passed \in Nat
    BY AgentAssumption DEF goesOn, IInv, TypeOK, Blocks, Undefined
<1>2. \A d \in Calls \ {c} : call'[d] = call[d]
    BY DEF goesOn, IInv, TypeOK
<1>3. b \in UnderWay => b \in UnderWay'
    BY <1>1, <1>2, UnderWayStep, RestStep
<1>4. Accounted(b)
    BY <1>1 DEF EveryBlockIsAccounted, Accounted
<1> QED BY <1>3, <1>4 DEF Accounted, goesOn

(* The blocks before the first one that was fetched become missed.            *)
LEMMA BlocksFetchedAccounted ==
    ASSUME IInv, EveryBlockIsAccounted, NEW c \in Calls, blocksFetched(c)
    PROVE  EveryBlockIsAccounted'
<1> SUFFICES ASSUME NEW b \in 1..passed' PROVE Accounted(b)'
    BY DEF EveryBlockIsAccounted, Accounted
<1>1. PICK got \in SUBSET (call[c].from..call[c].to - 1), first \in Blocks :
          /\ first <= call[c].to
          /\ \A a \in got : first <= a
          /\ call' = [call EXCEPT ![c] = [at |-> "logs", from |-> first, to |-> call[c].to]]
          /\ missed' = missed \union {a \in (call[c].from..call[c].to - 1) \ got : a < first}
    BY BlocksFetchedStep
<1>2. /\ passed' = (IF call[c].to > passed THEN call[c].to ELSE passed)
      /\ UNCHANGED <<looked, passedOver>>
    BY DEF blocksFetched, newest
<1>3. /\ call[c].from \in Nat /\ call[c].to \in Nat /\ passed \in Nat /\ first \in Nat
      /\ call[c].from <= passed
    <2>1. call[c].from \in Blocks /\ call[c].to \in Blocks /\ call[c].from = cachedBlockDto
        BY DEF blocksFetched, IInv, TypeOK, WaitsForCursor, Undefined
    <2>2. passed \in Blocks \union {0} /\ cachedBlockDto <= passed
        BY DEF IInv, TypeOK, CursorIsPassed, Undefined
    <2> QED BY <2>1, <2>2, AgentAssumption DEF Blocks
<1>4. /\ call'[c] = [at |-> "logs", from |-> first, to |-> call[c].to]
      /\ \A d \in Calls \ {c} : call'[d] = call[d]
    BY <1>1 DEF IInv, TypeOK
<1>5. CASE b \in call[c].from..call[c].to
    <2>1. CASE b < first
        <3>1. b \in (call[c].from..call[c].to - 1) \ got
            BY <1>1, <1>3, <1>5, <2>1
        <3> QED BY <1>1, <2>1, <3>1 DEF Accounted
    <2>2. CASE ~(b < first)
        <3>1. b \in (call[c].from..call[c].to)'
            BY <1>3, <1>4, <1>5, <2>2
        <3> QED BY <1>4, <3>1, UnderWayStep DEF Accounted
    <2> QED BY <2>1, <2>2
<1>6. CASE b \notin call[c].from..call[c].to
    <2>1. b \in 1..passed
        BY <1>2, <1>3, <1>6
    <2>2. Accounted(b)
        BY <2>1 DEF EveryBlockIsAccounted, Accounted
    <2>3. b \in UnderWay => b \in UnderWay'
        BY <1>4, <1>6, UnderWayStep
    <2> QED BY <1>1, <1>2, <2>2, <2>3 DEF Accounted
<1> QED BY <1>5, <1>6

(* The segment of the call becomes looked at or missed.                       *)
LEMMA LogsFetchedAccounted ==
    ASSUME IInv, EveryBlockIsAccounted, NEW c \in Calls, logsFetched(c)
    PROVE  EveryBlockIsAccounted'
<1> SUFFICES ASSUME NEW b \in 1..passed' PROVE Accounted(b)'
    BY DEF EveryBlockIsAccounted, Accounted
<1>1. b \in 1..passed
    BY DEF logsFetched
<1>2. Accounted(b)
    BY <1>1 DEF EveryBlockIsAccounted, Accounted
<1>3. \A d \in Calls \ {c} : call'[d] = call[d]
    BY DEF logsFetched, IInv, TypeOK
<1>4. PICK got \in SUBSET (call[c].from..call[c].to) :
          /\ looked' = looked \union got
          /\ missed' = missed \union ((call[c].from..call[c].to) \ got)
          /\ UNCHANGED passedOver
    BY DEF logsFetched
<1>5. b \in UnderWay => b \in UnderWay' \/ b \in call[c].from..call[c].to
    BY <1>3, UnderWayStep
<1> QED BY <1>2, <1>4, <1>5 DEF Accounted

LEMMA ThrowsAccounted ==
    ASSUME IInv, EveryBlockIsAccounted, NEW c \in Calls, throws(c)
    PROVE  EveryBlockIsAccounted'
<1> SUFFICES ASSUME NEW b \in 1..passed' PROVE Accounted(b)'
    BY DEF EveryBlockIsAccounted, Accounted
<1>1. b \in 1..passed /\ passed \in Nat
    BY AgentAssumption DEF throws, IInv, TypeOK, Blocks, Undefined
<1>2. Accounted(b)
    BY <1>1 DEF EveryBlockIsAccounted, Accounted
<1>3. \A d \in Calls \ {c} : call'[d] = call[d]
    BY DEF throws, IInv, TypeOK
<1>4. b \in UnderWay => b \in UnderWay' \/ b \in call[c].from..call[c].to
    BY <1>3, UnderWayStep
<1>5. CASE call[c].at = "logs"
    BY <1>2, <1>4, <1>5 DEF Accounted, throws
<1>6. CASE call[c].at # "logs"
    <2>1. b \notin call[c].from..call[c].to
        BY <1>1, <1>6, RestStep DEF throws
    <2> QED BY <1>2, <1>4, <1>6, <2>1 DEF Accounted, throws
<1> QED BY <1>5, <1>6

(* A step that asks for nothing and gets nothing changes no account.          *)
LEMMA OtherAccounted ==
    ASSUME IInv, EveryBlockIsAccounted, NEW c \in Calls,
           handleBlock(c) \/ findingsRead(c) \/ latestFails(c) \/ watched(c)
    PROVE  EveryBlockIsAccounted'
<1>1. UNCHANGED <<looked, passed, passedOver, missed>>
    BY DEF handleBlock, findingsRead, latestFails, watched
<1>2. \A d \in Calls : call'[d].from = call[d].from /\ call'[d].to = call[d].to
    BY DEF handleBlock, findingsRead, latestFails, watched, returns, Idle, IInv, TypeOK,
           WaitsForCursor
<1> QED BY <1>1, <1>2, SameSegmentsStep DEF EveryBlockIsAccounted

LEMMA NextAccounted == IInv /\ EveryBlockIsAccounted /\ [Next]_vars => EveryBlockIsAccounted'
<1> SUFFICES ASSUME IInv, EveryBlockIsAccounted, [Next]_vars PROVE EveryBlockIsAccounted'
    OBVIOUS
<1>1. CASE newL2Block \/ UNCHANGED vars
    BY <1>1 DEF newL2Block, vars, EveryBlockIsAccounted, UnderWay
<1>2. ASSUME NEW c \in Calls, latestAnswered(c) PROVE EveryBlockIsAccounted'
    <2>1. PICK n \in Blocks : startsOver(c, n) \/ goesOn(c, n)
        BY <1>2 DEF latestAnswered
    <2>2. call[c].at = "latest" /\ UNCHANGED <<looked, missed>>
        BY <1>2 DEF latestAnswered
    <2> QED BY <2>1, <2>2, StartsOverAccounted, GoesOnAccounted
<1>3. ASSUME NEW c \in Calls, handleBlock(c) \/ continues(c) \/ throws(c)
      PROVE  EveryBlockIsAccounted'
    BY <1>2, <1>3, BlocksFetchedAccounted, LogsFetchedAccounted, ThrowsAccounted,
       OtherAccounted DEF continues
<1> QED BY <1>1, <1>3 DEF Next

(* No block is passed over without a cause.                                   *)
THEOREM AccountCorrect == Spec => []EveryBlockIsAccounted
<1>1. Init => EveryBlockIsAccounted
    BY DEF Init, EveryBlockIsAccounted, Undefined
<1> QED BY InitIInv, NextIInv, NextAccounted, <1>1, PTL DEF Spec

-----------------------------------------------------------------------------
(* The proxy watcher.  During a check, what it has found changed is recorded, *)
(* and of the rest nothing is recorded that was not told.                     *)
FoundIsRecorded == \A c \in out : lastImpls[c] = impl[c]
RestIsTold == \A c \in Proxies!Contracts \ (dropped \union out) : told[c] = lastImpls[c]

ProxiesInv ==
    /\ Proxies!TypeOK
    /\ asked = 0 => ChangeIsTold
    /\ asked # 0 => FoundIsRecorded /\ RestIsTold

LEMMA CallersCount ==
    /\ Len(contractCallers) \in Nat \ {0} /\ MaxChecks \in Nat
    /\ \A i \in 1..Len(contractCallers) : contractCallers[i] \in Proxies!Contracts
<1>1. contractCallers \in Seq(Proxies!Contracts) /\ contractCallers # <<>> /\ MaxChecks \in Nat
    BY ProxiesAreGiven DEF Proxies!ProxiesAssumption
<1> QED BY <1>1

LEMMA ProxiesInit == Proxies!Init => ProxiesInv
BY CallersCount DEF Proxies!Init, ProxiesInv, Proxies!TypeOK, ChangeIsTold, Proxies!ChangeIsTold

LEMMA CheckBegins == ProxiesInv /\ Proxies!handleBlocks => ProxiesInv'
<1> SUFFICES ASSUME ProxiesInv, Proxies!handleBlocks PROVE ProxiesInv'
    OBVIOUS
<1>1. /\ asked = 0 /\ asked' = 1 /\ out' = {}
      /\ UNCHANGED <<lastImpls, told, dropped>>
      /\ impl' \in [Proxies!Contracts -> Impls]
    BY DEF Proxies!handleBlocks
<1>2. checks' \in 0..MaxChecks /\ 1 \in 0..Len(contractCallers)
    BY CallersCount DEF Proxies!handleBlocks, ProxiesInv, Proxies!TypeOK
<1>3. Proxies!TypeOK'
    BY <1>1, <1>2 DEF ProxiesInv, Proxies!TypeOK
<1>4. FoundIsRecorded' /\ RestIsTold'
    BY <1>1 DEF ProxiesInv, ChangeIsTold, Proxies!ChangeIsTold, FoundIsRecorded, RestIsTold
<1> QED BY <1>1, <1>3, <1>4 DEF ProxiesInv

LEMMA ImplRead == ProxiesInv /\ Proxies!implAnswered => ProxiesInv'
<1> SUFFICES ASSUME ProxiesInv, Proxies!implAnswered PROVE ProxiesInv'
    OBVIOUS
<1> DEFINE c == contractCallers[asked]
           found == IF Proxies!isChanged(c) THEN out \union {c} ELSE out
<1>1. /\ asked # 0 /\ lastImpls' = [lastImpls EXCEPT ![c] = impl[c]] /\ out' = found
      /\ UNCHANGED <<impl, checks>>
      /\ \/ /\ asked < Len(contractCallers) /\ asked' = asked + 1 /\ UNCHANGED <<told, dropped>>
         \/ /\ asked' = 0 /\ Proxies!reports(found)
    BY DEF Proxies!implAnswered
<1>2. /\ impl \in [Proxies!Contracts -> Impls] /\ lastImpls \in [Proxies!Contracts -> Impls]
      /\ told \in [Proxies!Contracts -> Impls] /\ out \subseteq Proxies!Contracts
      /\ dropped \subseteq Proxies!Contracts /\ asked \in 0..Len(contractCallers)
    BY DEF ProxiesInv, Proxies!TypeOK
<1>3. c \in Proxies!Contracts
    BY <1>1, <1>2, CallersCount
<1>4. found \subseteq Proxies!Contracts /\ out \subseteq found
    BY <1>2, <1>3
<1>5. /\ lastImpls' \in [Proxies!Contracts -> Impls] /\ lastImpls'[c] = impl[c]
      /\ \A d \in Proxies!Contracts : d # c => lastImpls'[d] = lastImpls[d]
      /\ c \notin found => impl[c] = lastImpls[c]
    BY <1>1, <1>2, <1>3 DEF Proxies!isChanged
<1> HIDE DEF c, found
<1>6. \A d \in found : lastImpls'[d] = impl[d]
    <2>1. \A d \in found : d = c \/ d \in out
        BY DEF found
    <2> QED BY <1>1, <1>2, <1>5, <2>1 DEF ProxiesInv, FoundIsRecorded
<1>7. \A d \in Proxies!Contracts \ (dropped \union found) : told[d] = lastImpls'[d]
    BY <1>1, <1>4, <1>5 DEF ProxiesInv, RestIsTold
<1>8. CASE asked < Len(contractCallers) /\ asked' = asked + 1 /\ UNCHANGED <<told, dropped>>
    <2>1. asked' \in 0..Len(contractCallers) /\ asked' # 0
        BY <1>2, <1>8, CallersCount
    <2>2. Proxies!TypeOK'
        BY <1>1, <1>2, <1>4, <1>5, <1>8, <2>1 DEF ProxiesInv, Proxies!TypeOK
    <2> QED BY <1>1, <1>6, <1>7, <1>8, <2>1, <2>2 DEF ProxiesInv, FoundIsRecorded, RestIsTold
<1>9. CASE asked' = 0 /\ Proxies!reports(found)
    <2>1. /\ told' \in [Proxies!Contracts -> Impls] /\ dropped' = dropped \ found
          /\ \A d \in Proxies!Contracts : told'[d] = IF d \in found THEN impl[d] ELSE told[d]
        BY <1>2, <1>9 DEF Proxies!reports
    <2>2. asked' \in 0..Len(contractCallers)
        BY <1>9, CallersCount
    <2>3. Proxies!TypeOK'
        BY <1>1, <1>2, <1>4, <1>5, <2>1, <2>2 DEF ProxiesInv, Proxies!TypeOK
    <2>4. ChangeIsTold'
        BY <1>6, <1>7, <2>1 DEF ChangeIsTold, Proxies!ChangeIsTold
    <2> QED BY <1>9, <2>3, <2>4 DEF ProxiesInv
<1> QED BY <1>1, <1>8, <1>9

LEMMA ImplLost == ProxiesInv /\ Proxies!implFails => ProxiesInv'
<1> SUFFICES ASSUME ProxiesInv, Proxies!implFails PROVE ProxiesInv'
    OBVIOUS
<1>1. /\ asked # 0 /\ asked' = 0 /\ dropped' = dropped \union out /\ out' = {}
      /\ UNCHANGED <<impl, lastImpls, checks, told>>
    BY DEF Proxies!implFails
<1>2. 0 \in 0..Len(contractCallers)
    BY CallersCount
<1>3. Proxies!TypeOK'
    BY <1>1, <1>2 DEF ProxiesInv, Proxies!TypeOK
<1>4. ChangeIsTold'
    BY <1>1 DEF ProxiesInv, RestIsTold, ChangeIsTold, Proxies!ChangeIsTold
<1> QED BY <1>1, <1>3, <1>4 DEF ProxiesInv

LEMMA ProxiesNext == ProxiesInv /\ [Proxies!Next]_(Proxies!vars) => ProxiesInv'
<1>1. ProxiesInv /\ UNCHANGED Proxies!vars => ProxiesInv'
    BY DEF Proxies!vars, ProxiesInv, Proxies!TypeOK, ChangeIsTold, Proxies!ChangeIsTold,
           FoundIsRecorded, RestIsTold
<1> QED BY <1>1, CheckBegins, ImplRead, ImplLost DEF Proxies!Next

(* Between two checks the implementation recorded of a proxy was told, or was *)
(* dropped with a check that failed: for any proxies and implementations.     *)
THEOREM ChangeCorrect == Proxies!Spec => []ChangeIsTold
<1>1. ProxiesInv => ChangeIsTold
    BY DEF ProxiesInv, ChangeIsTold, Proxies!ChangeIsTold
<1> QED BY ProxiesInit, ProxiesNext, <1>1, PTL DEF Proxies!Spec
-----------------------------------------------------------------------------
(* The withdrawals monitor.  What a call leaves behind is the last value of a *)
(* function that recurs from block to block; it is known in closed form.      *)
given == [store |-> withdrawalsStore, last |-> lastReportedTooManyWithdrawalsTimestamp, out |-> {}]

(* f is the function of handleBlocks for a call up to a block.                *)
IsBatch(f, last) ==
    f = [n \in number..last |-> IF n = number THEN given ELSE Withdrawals!blockHandled(f[n - 1], n)]
AfterBlock(n) == [given EXCEPT !.store = {t \in @ : n # number => t > n - Window}]

LEMMA MonitorNumbers ==
    /\ Window \in Nat /\ Cadence \in Nat /\ MaxSum \in Nat \ {0} /\ MaxNumber \in Nat
    /\ Epoch \in 1..MaxNumber
BY MonitorIsGiven DEF Withdrawals!MonitorAssumption

(* The sum is never a huge one, so a block only forgets what is too old.      *)
LEMMA BlockForgets ==
    ASSUME NEW before, NEW n, before = [store |-> before.store, last |-> before.last, out |-> before.out]
    PROVE  Withdrawals!blockHandled(before, n)
               = [store |-> {t \in before.store : t > n - Window}, last |-> before.last, out |-> before.out]
<1>1. ~(0 >= MaxSum)
    BY MonitorNumbers
<1> QED BY <1>1 DEF Withdrawals!blockHandled, Withdrawals!withdrawalsSum, Withdrawals!Recent

(* What an earlier block forgot is too old for a later one as well.           *)
LEMMA ForgetsMore ==
    ASSUME NEW n \in Nat, number \in Nat, n > number, withdrawalsStore \subseteq Nat
    PROVE  AfterBlock(n) = Withdrawals!blockHandled(AfterBlock(n - 1), n)
<1>1. AfterBlock(n - 1).store = {t \in withdrawalsStore : n - 1 # number => t > n - 1 - Window}
    BY DEF AfterBlock, given
<1>2. {t \in AfterBlock(n - 1).store : t > n - Window} = {t \in withdrawalsStore : t > n - Window}
    <2>1. ASSUME NEW t \in withdrawalsStore, t > n - Window PROVE t > n - 1 - Window
        <3>1. t \in Nat /\ Window \in Nat
            BY MonitorNumbers
        <3> QED BY <2>1, <3>1
    <2>2. AfterBlock(n - 1).store \subseteq withdrawalsStore
        BY <1>1
    <2>3. \A t \in withdrawalsStore : t > n - Window => t \in AfterBlock(n - 1).store
        BY <1>1, <2>1
    <2> HIDE DEF AfterBlock
    <2> QED BY <2>2, <2>3
<1>3. AfterBlock(n - 1) = [store |-> AfterBlock(n - 1).store, last |-> given.last, out |-> {}]
    BY DEF AfterBlock, given
<1>4. AfterBlock(n) = [store |-> {t \in withdrawalsStore : t > n - Window}, last |-> given.last, out |-> {}]
    BY DEF AfterBlock, given
<1> HIDE DEF AfterBlock
<1> QED BY <1>2, <1>3, <1>4, BlockForgets

(* There is such a function, and it has no other values: the least block of   *)
(* another value would follow one of the same.                                *)
LEMMA BatchIs ==
    ASSUME NEW last \in Nat, number \in Nat, number <= last, withdrawalsStore \subseteq Nat
    PROVE  LET after == CHOOSE f : IsBatch(f, last)
           IN  \A n \in number..last : after[n] = AfterBlock(n)
<1> DEFINE after == CHOOSE f : IsBatch(f, last)
           g == [n \in number..last |-> AfterBlock(n)]
           others == {n \in number..last : after[n] # AfterBlock(n)}
<1>1. AfterBlock(number) = given
    BY DEF AfterBlock, given
<1>2. IsBatch(g, last)
    <2>1. \A n \in number..last : AfterBlock(n) = IF n = number THEN given
                                                 ELSE Withdrawals!blockHandled(g[n - 1], n)
        <3>1. SUFFICES ASSUME NEW n \in number..last, n # number
                       PROVE  AfterBlock(n) = Withdrawals!blockHandled(g[n - 1], n)
            BY <1>1
        <3>2. n - 1 \in number..last /\ n > number /\ n \in Nat
            BY <3>1
        <3>3. g[n - 1] = AfterBlock(n - 1)
            BY <3>2
        <3> QED BY <3>2, <3>3, ForgetsMore
    <2> QED BY <2>1 DEF IsBatch
<1>3. IsBatch(after, last)
    BY <1>2
<1> HIDE DEF after
<1>4. \A n \in number..last : after[n] = IF n = number THEN given
                                         ELSE Withdrawals!blockHandled(after[n - 1], n)
    BY <1>3 DEF IsBatch
<1>5. others = {}
    <2>1. SUFFICES ASSUME others # {} PROVE FALSE
        OBVIOUS
    <2>2. others \in SUBSET Nat
        OBVIOUS
    <2>3. PICK n \in others : \A m \in others : n <= m
        BY <2>1, <2>2, LeastExists
    <2>4. n \in number..last /\ after[n] # AfterBlock(n) /\ n # number
        BY <1>1, <1>4, <2>3
    <2>5. n - 1 \in number..last /\ n \in Nat /\ n > number
        BY <2>4
    <2>6. after[n - 1] = AfterBlock(n - 1)
        BY <2>3, <2>5
    <2> QED BY <1>4, <2>4, <2>5, <2>6, ForgetsMore
<1> QED BY <1>5 DEF after

(* A call reports nothing, records nothing, and forgets what is too old.      *)
LEMMA CallForgets ==
    ASSUME NEW last \in Nat, NEW logs, Withdrawals!handleBlocks(last, logs),
           number \in Nat, number < last, withdrawalsStore \subseteq Nat
    PROVE  /\ number' = last /\ withdrawn' = withdrawn \union logs
           /\ withdrawalsStore' = {t \in withdrawalsStore : t > last - Window}
           /\ UNCHANGED lastReportedTooManyWithdrawalsTimestamp
           /\ reports' = {}
<1> DEFINE after == CHOOSE f : IsBatch(f, last)
<1>1. /\ number' = last
      /\ withdrawalsStore' = after[last].store
      /\ lastReportedTooManyWithdrawalsTimestamp' = after[last].last
      /\ reports' = after[last].out
      /\ withdrawn' = withdrawn \union logs
    <2>1. withdrawalsStore \union Withdrawals!getWithdrawalRecords(logs) = withdrawalsStore
        BY DEF Withdrawals!getWithdrawalRecords
    <2> QED BY <2>1 DEF Withdrawals!handleBlocks, IsBatch, given
<1>2. after[last] = AfterBlock(last)
    <2>1. last \in number..last /\ number <= last
        OBVIOUS
    <2> HIDE DEF after
    <2>2. \A n \in number..last : after[n] = AfterBlock(n)
        BY <2>1, BatchIs DEF after
    <2> QED BY <2>1, <2>2
<1> HIDE DEF after
<1>3. last # number
    OBVIOUS
<1> QED BY <1>1, <1>2, <1>3 DEF AfterBlock, given

(* No withdrawal is recorded after the start, and none is reported.           *)
NothingIsReported ==
    /\ reports = {} /\ lastReportedTooManyWithdrawalsTimestamp = 0
    /\ \A t \in withdrawalsStore : t < Epoch

MonitorInv == Withdrawals!TypeOK /\ Epoch <= number /\ NothingIsReported

LEMMA MonitorInit == Withdrawals!Init => MonitorInv
<1> SUFFICES ASSUME Withdrawals!Init PROVE MonitorInv
    OBVIOUS
<1>1. /\ number = Epoch /\ lastReportedTooManyWithdrawalsTimestamp = 0 /\ reports = {}
      /\ withdrawn = withdrawalsStore
      /\ withdrawalsStore \subseteq Withdrawals!Times
      /\ \A t \in withdrawalsStore : t < Epoch
    BY DEF Withdrawals!Init
<1> QED BY <1>1, MonitorNumbers DEF MonitorInv, NothingIsReported, Withdrawals!TypeOK, Withdrawals!Times

LEMMA MonitorNext == MonitorInv /\ [Withdrawals!Next]_(Withdrawals!vars) => MonitorInv'
<1> SUFFICES ASSUME MonitorInv, [Withdrawals!Next]_(Withdrawals!vars) PROVE MonitorInv'
    OBVIOUS
<1> USE DEF MonitorInv, NothingIsReported, Withdrawals!TypeOK
<1>1. CASE UNCHANGED Withdrawals!vars
    BY <1>1 DEF Withdrawals!vars
<1>2. CASE Withdrawals!Next
    <2>0. PICK last \in {n \in Withdrawals!Times : number < n /\ n <= number + MaxBatch} :
              \E logs \in SUBSET (number + 1..last) : Withdrawals!handleBlocks(last, logs)
        BY <1>2 DEF Withdrawals!Next
    <2>1. PICK logs \in SUBSET (number + 1..last) : Withdrawals!handleBlocks(last, logs)
        BY <2>0
    <2>2. /\ last \in Withdrawals!Times /\ last \in Nat /\ number < last /\ number \in Nat
          /\ withdrawalsStore \subseteq Nat
        BY <2>0, MonitorNumbers DEF Withdrawals!Times
    <2>3. /\ number' = last /\ withdrawn' = withdrawn \union logs
          /\ withdrawalsStore' = {t \in withdrawalsStore : t > last - Window}
          /\ UNCHANGED lastReportedTooManyWithdrawalsTimestamp
          /\ reports' = {}
        BY <2>1, <2>2, CallForgets
    <2>4. logs \subseteq Withdrawals!Times
        BY <2>1, <2>2, MonitorNumbers DEF Withdrawals!Times
    <2>5. withdrawalsStore' \subseteq withdrawalsStore
        BY <2>3
    <2>6. Withdrawals!TypeOK'
        BY <2>2, <2>3, <2>4, <2>5
    <2>7. Epoch <= number' /\ Epoch \in Nat
        BY <2>2, <2>3, MonitorNumbers
    <2> QED BY <2>3, <2>5, <2>6, <2>7
<1> QED BY <1>1, <1>2

(* The monitor of an L2 bot reports nothing, whatever is withdrawn, for any   *)
(* window, cadence and limit: what the run of HugeIsReported finds once.      *)
THEOREM MonitorIsDeaf == Withdrawals!Spec => []NothingIsReported
<1>1. MonitorInv => NothingIsReported
    BY DEF MonitorInv
<1> QED BY MonitorInit, MonitorNext, <1>1, PTL DEF Withdrawals!Spec

-----------------------------------------------------------------------------
(* The three parts side by side: a step is one of each part, or leaves it.    *)
LEMMA PartsStep ==
    [MCNext]_<<part, vars, proxyVars, withdrawalVars>> =>
        [Next]_vars /\ [Proxies!Next]_(Proxies!vars) /\ [Withdrawals!Next]_(Withdrawals!vars)
BY DEF MCNext, vars, proxyVars, withdrawalVars, Proxies!vars, Withdrawals!vars

(* Every behaviour of the run is one of each of its parts.                    *)
THEOREM PartsAreTheirOwn == MCSpec => Spec /\ Proxies!Spec /\ Withdrawals!Spec
<1>1. MCInit => Init /\ Proxies!Init /\ Withdrawals!Init
    BY DEF MCInit
<1> QED BY <1>1, PartsStep, PTL DEF MCSpec, Spec, Proxies!Spec, Withdrawals!Spec

(* All variables of the three parts keep their types.                         *)
THEOREM PartsAreTyped == MCSpec => []TypesOK
<1>1. ProxiesInv => Proxies!TypeOK
    BY DEF ProxiesInv
<1>2. MonitorInv => Withdrawals!TypeOK
    BY DEF MonitorInv
<1>3. Proxies!Spec => []Proxies!TypeOK
    BY ProxiesInit, ProxiesNext, <1>1, PTL DEF Proxies!Spec
<1>4. Withdrawals!Spec => []Withdrawals!TypeOK
    BY MonitorInit, MonitorNext, <1>2, PTL DEF Withdrawals!Spec
<1> QED BY PartsAreTheirOwn, TypeCorrect, <1>3, <1>4, PTL DEF TypesOK

(* So all that is proved of the parts holds of the bot as the run takes it.   *)
THEOREM RunIsCorrect ==
    MCSpec => /\ [](EveryBlockIsAccounted /\ ChangeIsTold /\ NothingIsReported)
              /\ CursorKeepsUp
BY PartsAreTheirOwn, AccountCorrect, ChangeCorrect, MonitorIsDeaf, CursorCorrect, PTL
=============================================================================
