------------------------- MODULE StethServices_proofs -------------------------
(***************************************************************************)
(* The proofs about the services of ethereum-steth that MCStethServices puts *)
(* side by side: first each for its own specification and for every value of *)
(* its constants that its assumption allows (the withdrawals are instances   *)
(* of what StethWithdrawals_proofs says), then that each behaves the same    *)
(* beside the others, and what that makes of their invariants in the run.    *)
(***************************************************************************)
EXTENDS MCStethServices, SequenceTheorems, WellFoundedInduction, TLAPS

-----------------------------------------------------------------------------
(* The storage watcher.  Its draw leaves no slot out: lastLook is never behind *)
(* the last block whose part contains the slot, and the arithmetic of the draw *)
(* (RoundTrip) says that there is such a block among any ten.                  *)
(* Every slot belongs to one of the nine parts.                               *)
LEMMA PartOfSlot ==
    ASSUME NEW s \in Slots
    PROVE  \E q \in 0..8 : s \in q * step + 1..(q + 1) * step
<1>1. NumSlots = 9 * step /\ step \in Nat
    BY StorageAssumption DEF step
<1>2. s \in 1..9 * step
    BY <1>1 DEF Slots
<1>3. CASE s \in 1..3 * step
    <2>1. \/ s \in 0 * step + 1..(0 + 1) * step
          \/ s \in 1 * step + 1..(1 + 1) * step
          \/ s \in 2 * step + 1..(2 + 1) * step
        BY <1>1, <1>2, <1>3
    <2> QED BY <2>1
<1>4. CASE s \in 3 * step + 1..6 * step
    <2>1. \/ s \in 3 * step + 1..(3 + 1) * step
          \/ s \in 4 * step + 1..(4 + 1) * step
          \/ s \in 5 * step + 1..(5 + 1) * step
        BY <1>1, <1>2, <1>4
    <2> QED BY <2>1
<1>5. CASE s \in 6 * step + 1..9 * step
    <2>1. \/ s \in 6 * step + 1..(6 + 1) * step
          \/ s \in 7 * step + 1..(7 + 1) * step
          \/ s \in 8 * step + 1..(8 + 1) * step
        BY <1>1, <1>2, <1>5
    <2> QED BY <2>1
<1> QED BY <1>1, <1>2, <1>3, <1>4, <1>5

(* Among ten consecutive block numbers each last digit occurs.                *)
LEMMA DigitOccurs ==
    ASSUME NEW n \in Nat, NEW q \in 0..9
    PROVE  \E b \in n..n + 9 : b % 10 = q
<1>1. PICK d \in Int : d = (q - n) % 10
    OBVIOUS
<1>2. d \in 0..9 /\ n + d \in n..n + 9
    BY <1>1
<1>3. (n + d) % 10 = q
    BY <1>1
<1> QED BY <1>2, <1>3

(* A block whose number ends in q reads part q.                               *)
LEMMA PartOfDigit ==
    ASSUME NEW b \in Nat, NEW q \in 0..8, b % 10 = q
    PROVE  part(b) = q * step + 1..(q + 1) * step
<1>1. NumSlots = 9 * step /\ step \in Nat
    BY StorageAssumption DEF step
<1>2. finish(b) = (q + 1) * step
    BY DEF finish, lotteryNum
<1>3. (q + 1) * step <= 9 * step
    <2>1. q = 0 \/ q = 1 \/ q = 2 \/ q = 3 \/ q = 4 \/ q = 5 \/ q = 6 \/ q = 7 \/ q = 8
        OBVIOUS
    <2> QED BY <1>1, <2>1
<1>4. (q + 1) * step - step = q * step
    <2>1. q = 0 \/ q = 1 \/ q = 2 \/ q = 3 \/ q = 4 \/ q = 5 \/ q = 6 \/ q = 7 \/ q = 8
        OBVIOUS
    <2> QED BY <1>1, <2>1
<1>5. ~(finish(b) > NumSlots)
    <2>1. (q + 1) * step \in Int
        BY <1>1
    <2> QED BY <1>1, <1>2, <1>3, <2>1
<1>6. begin(b) = q * step
    BY <1>2, <1>4 DEF begin
<1> QED BY <1>2, <1>5, <1>6 DEF part

(* Any ten consecutive blocks read every slot.                                *)
LEMMA RoundTrip ==
    ASSUME NEW n \in Nat, NEW s \in Slots
    PROVE  \E b \in n..n + 9 : s \in part(b)
<1>1. PICK q \in 0..8 : s \in q * step + 1..(q + 1) * step
    BY PartOfSlot
<1>2. PICK b \in n..n + 9 : b % 10 = q
    <2>1. q \in 0..9
        OBVIOUS
    <2> QED BY <2>1, DigitOccurs
<1>3. part(b) = q * step + 1..(q + 1) * step
    BY <1>2, PartOfDigit
<1> QED BY <1>1, <1>2, <1>3

(* Only slots are read.                                                       *)
LEMMA PartInSlots ==
    ASSUME NEW n \in Nat
    PROVE  part(n) \subseteq Slots
<1>1. step \in Nat
    BY StorageAssumption DEF step
<1>2. lotteryNum(n) \in 1..10
    BY DEF lotteryNum
<1>3. begin(n) \in Nat /\ finish(n) \in Nat
    <2>1. \A l \in 1..10 : l * step \in Nat /\ l * step - step \in Nat
        BY <1>1
    <2> QED BY <1>2, <2>1 DEF begin, finish
<1> QED BY <1>3, StorageAssumption DEF part, Slots

-----------------------------------------------------------------------------
(* lastLook is never behind the last block that read the slot.                *)
LookIsRecent ==
    \A s \in Slots : \A b \in FirstBlock + 1..number : s \in part(b) => b <= lastLook[s]

IInv == TypeOK /\ LookIsRecent

LEMMA InitIInv == Init => IInv
BY StorageAssumption DEF Init, IInv, TypeOK, LookIsRecent, Slots

LEMMA NextIInv == IInv /\ [Next]_vars => IInv'
<1> SUFFICES ASSUME IInv, [Next]_vars PROVE IInv'
    OBVIOUS
<1> USE DEF IInv
<1>1. CASE handleBlock
    <2>1. number \in Nat /\ number + 1 \in FirstBlock..FirstBlock + MaxBlocks
        BY <1>1, StorageAssumption DEF handleBlock, TypeOK
    <2>2. part(number + 1) \subseteq Slots
        BY <2>1, PartInSlots
    <2>3. number' = number + 1 /\ changed' = changed
        BY <1>1 DEF handleBlock
    <2>4. lastLook' = [s \in Slots |->
                          IF s \in part(number + 1) THEN number + 1 ELSE lastLook[s]]
        BY <1>1 DEF handleBlock
    <2>5. out' \subseteq Finding /\ noticed' \subseteq Slots
        <3>1. PICK failed \in SUBSET part(number + 1) :
              \E short \in SUBSET ((part(number + 1) \ failed) \intersect Arrays) :
                 /\ out' = UNION {networkAlert(s) : s \in failed}
                 /\ noticed' = noticed \union
                       ((part(number + 1) \ failed) \intersect (changed \union short))
            BY <1>1 DEF handleBlock
        <3>2. \A s \in failed : networkAlert(s) \subseteq Finding
            BY <2>2 DEF networkAlert, Finding
        <3>3. out' \subseteq Finding
            BY <3>1, <3>2
        <3>4. noticed' \subseteq noticed \union part(number + 1)
            BY <3>1
        <3> QED BY <2>2, <3>3, <3>4 DEF TypeOK
    <2>6. TypeOK'
        BY <2>1, <2>3, <2>4, <2>5 DEF TypeOK
    <2>7. LookIsRecent'
        <3> SUFFICES ASSUME NEW s \in Slots, NEW b \in FirstBlock + 1..number + 1,
                            s \in part(b)
                     PROVE  b <= lastLook'[s]
            BY <2>3 DEF LookIsRecent
        <3>1. b \in Int /\ lastLook[s] \in Int
            BY StorageAssumption, <2>1 DEF TypeOK
        <3>2. CASE b = number + 1
            BY <2>1, <2>4, <3>2
        <3>3. CASE b # number + 1
            <4>1. b \in FirstBlock + 1..number
                BY <2>1, <3>1, <3>3, StorageAssumption
            <4>2. b <= lastLook[s]
                BY <4>1 DEF LookIsRecent
            <4> QED BY <2>1, <2>4, <3>1, <4>1, <4>2
        <3> QED BY <3>2, <3>3
    <2> QED BY <2>6, <2>7
<1>2. ASSUME NEW s \in Slots \ changed, change(s) PROVE IInv'
    BY <1>2 DEF change, TypeOK, LookIsRecent
<1>3. CASE UNCHANGED vars
    BY <1>3 DEF vars, TypeOK, LookIsRecent
<1> QED BY <1>1, <1>2, <1>3 DEF Next

LEMMA IInvVisits == IInv => EverySlotIsVisited
<1> SUFFICES ASSUME IInv, NEW s \in Slots, number - lastLook[s] >= 10 PROVE FALSE
    BY StorageAssumption DEF IInv, TypeOK, EverySlotIsVisited
<1>1. number \in Nat /\ lastLook[s] \in Nat /\ lastLook[s] >= FirstBlock
    BY StorageAssumption DEF IInv, TypeOK
<1>2. number - 9 \in Nat /\ number - 9 >= FirstBlock + 1
    BY <1>1, StorageAssumption
<1>3. PICK b \in number - 9..(number - 9) + 9 : s \in part(b)
    BY <1>2, RoundTrip
<1>4. b \in FirstBlock + 1..number
    BY <1>1, <1>2, <1>3, StorageAssumption
<1>5. b <= lastLook[s]
    BY <1>3, <1>4 DEF IInv, LookIsRecent
<1> QED BY <1>1, <1>2, <1>3, <1>5

LEMMA InvariantIInv == Spec => []IInv
BY InitIInv, NextIInv, PTL DEF Spec

(* The storage watcher's state stays within its types.                        *)
THEOREM TypeCorrect == Spec => []TypeOK
<1>1. IInv => TypeOK
    BY DEF IInv
<1> QED BY <1>1, InvariantIInv, PTL

(* For every list whose length is a multiple of nine and every first block,   *)
(* no slot goes ten blocks without being compared or reported as unreadable.  *)
THEOREM VisitsEverySlot == Spec => []EverySlotIsVisited
BY IInvVisits, InvariantIInv, PTL

-----------------------------------------------------------------------------
(* The gate seal.  As long as no seal was created during a block call, every  *)
(* open call asks for the newest seal, also when its request is retried, and  *)
(* of a block that the chain has reached.                                     *)
CallsAskForNewest ==
    ~raced => \A c \in Calls : Seal!Busy(c) => /\ open[c].seal = newest
                                               /\ runner = newest
                                               /\ open[c].ts <= head

(* Before the start no call is open, and the default seal is watched.         *)
WatchesFromStart ==
    ~initialized => gateSealAddress # NoSeal /\ \A c \in Calls : ~Seal!Busy(c)

SealInv == Seal!TypeOK /\ CallsAskForNewest /\ WatchesFromStart /\ WatchesNewest

LEMMA SealInit == Seal!Init => SealInv
<1> SUFFICES ASSUME Seal!Init PROVE SealInv
    OBVIOUS
<1> USE ServicesAssumption DEF Seal!GateSealAssumption
<1>1. Seal!TypeOK
    <2>1. SealEpoch \in Seal!Time /\ 0 \in Seal!Time /\ SealEpoch..MaxTime \subseteq Seal!Time
        BY DEF Seal!Time
    <2>2. expiry \in [Seals -> Seal!Time]
        BY <2>1 DEF Seal!Init
    <2> QED BY <2>1, <2>2 DEF Seal!Init, Seal!TypeOK, Seal!Idle, Seal!Finding
<1>2. CallsAskForNewest /\ WatchesFromStart
    BY DEF CallsAskForNewest, WatchesFromStart, Seal!Init, Seal!Busy, Seal!Idle
<1>3. WatchesNewest
    BY DEF WatchesNewest, Seal!WatchesNewest, Seal!Init
<1> QED BY <1>1, <1>2, <1>3 DEF SealInv

LEMMA SealTypes == Seal!TypeOK /\ WatchesFromStart /\ [Seal!Next]_(Seal!vars) => Seal!TypeOK'
<1> SUFFICES ASSUME Seal!TypeOK, WatchesFromStart, [Seal!Next]_(Seal!vars) PROVE Seal!TypeOK'
    OBVIOUS
<1> USE DEF Seal!TypeOK, Seal!chain, Seal!cache
<1>1. CASE UNCHANGED Seal!vars
    BY <1>1 DEF Seal!vars
<1>2. CASE Seal!initialize
    BY <1>2 DEF Seal!initialize, WatchesFromStart
<1>3. ASSUME NEW c \in Calls, Seal!handleBlock(c) PROVE Seal!TypeOK'
    <2>1. head' \in Seal!Time /\ head + 1 \in Seal!Time
        BY <1>3, ServicesAssumption DEF Seal!handleBlock, Seal!Time, Seal!GateSealAssumption
    <2>2. CASE gateSealAddress = NoSeal
        BY <1>3, <2>1, <2>2 DEF Seal!handleBlock, Seal!isWatching
    <2>3. CASE gateSealAddress # NoSeal
        <3>1. /\ runner' = gateSealAddress
              /\ open' = [open EXCEPT ![c] = [ts |-> head + 1, seal |-> gateSealAddress,
                                             pause |-> TRUE, expiring |-> TRUE]]
            BY <1>3, <2>3 DEF Seal!handleBlock, Seal!isWatching
        <3> QED BY <1>3, <2>1, <2>3, <3>1 DEF Seal!handleBlock
    <2> QED BY <2>2, <2>3
<1>4. ASSUME NEW c \in Calls, Seal!handlePauseRole(c) PROVE Seal!TypeOK'
    BY <1>4 DEF Seal!handlePauseRole
<1>5. ASSUME NEW c \in Calls, Seal!handleExpiryGateSeal(c) PROVE Seal!TypeOK'
    <2>1. \A k \in {"Expired", "AboutToExpire"} : Seal!found(k, gateSealAddress, open[c].ts) \subseteq Seal!Finding
        BY DEF Seal!found, Seal!Finding
    <2> QED BY <1>5, <2>1 DEF Seal!handleExpiryGateSeal, Seal!expired
<1>6. ASSUME NEW seal \in Seals, NEW at \in head..MaxTime, Seal!handleNewGateSeal(seal, at) PROVE Seal!TypeOK'
    <2>1. at \in Seal!Time
        BY ServicesAssumption DEF Seal!Time, Seal!GateSealAssumption
    <2> QED BY <1>6, <2>1 DEF Seal!handleNewGateSeal, Seal!watches
<1> QED BY <1>1, <1>2, <1>3, <1>4, <1>5, <1>6 DEF Seal!Next

LEMMA SealNext == SealInv /\ [Seal!Next]_(Seal!vars) => SealInv'
<1> SUFFICES ASSUME SealInv, [Seal!Next]_(Seal!vars)
             PROVE  CallsAskForNewest' /\ WatchesFromStart' /\ WatchesNewest'
    BY SealTypes DEF SealInv
<1> USE DEF CallsAskForNewest, WatchesFromStart, WatchesNewest, Seal!WatchesNewest,
            Seal!isGateSealExpired, Seal!Busy, Seal!chain, Seal!cache
<1>1. /\ newest \in Seals /\ NoSeal \notin Seals /\ head \in Nat /\ newest # NoSeal
      /\ Seal!TypeOK /\ CallsAskForNewest /\ WatchesFromStart /\ WatchesNewest
      /\ \A s \in Seals : expiry[s] \in Nat
    BY ServicesAssumption DEF SealInv, Seal!TypeOK, Seal!Time, Seal!GateSealAssumption
<1>2. CASE UNCHANGED Seal!vars
    BY <1>1, <1>2 DEF Seal!vars
<1>3. CASE Seal!initialize
    BY <1>1, <1>3 DEF Seal!initialize
<1>4. ASSUME NEW c \in Calls, Seal!handleBlock(c)
      PROVE  CallsAskForNewest' /\ WatchesFromStart' /\ WatchesNewest'
    <2>1. head' = head + 1 /\ UNCHANGED <<raced, newest, expiry, gateSealAddress, findings>>
          /\ ~Seal!Busy(c)
        BY <1>4 DEF Seal!handleBlock
    <2>2. CallsAskForNewest'
        <3>1. CASE gateSealAddress = NoSeal
            BY <1>1, <1>4, <2>1, <3>1 DEF Seal!handleBlock, Seal!isWatching, Seal!TypeOK, Seal!Time
        <3>2. CASE gateSealAddress # NoSeal
            <4>1. /\ runner' = gateSealAddress /\ (~raced => gateSealAddress = newest)
                  /\ open' = [open EXCEPT ![c] = [ts |-> head + 1, seal |-> gateSealAddress,
                                                 pause |-> TRUE, expiring |-> TRUE]]
                BY <1>1, <1>4, <3>2 DEF Seal!handleBlock, Seal!isWatching
            <4>2. \A d \in Calls \ {c} : open'[d] = open[d] /\ open[d].ts \in Nat
                BY <1>1, <4>1 DEF Seal!TypeOK, Seal!Time
            <4>3. open'[c].ts = head + 1 /\ open'[c].seal = gateSealAddress
                BY <1>1, <4>1 DEF Seal!TypeOK
            <4> QED BY <1>1, <2>1, <4>1, <4>2, <4>3
        <3> QED BY <3>1, <3>2
    <2> QED BY <1>1, <1>4, <2>1, <2>2 DEF Seal!handleBlock
<1>5. ASSUME NEW c \in Calls, Seal!handlePauseRole(c)
      PROVE  CallsAskForNewest' /\ WatchesFromStart' /\ WatchesNewest'
    BY <1>1, <1>5 DEF Seal!handlePauseRole, Seal!TypeOK
<1>6. ASSUME NEW c \in Calls, Seal!handleExpiryGateSeal(c)
      PROVE  CallsAskForNewest' /\ WatchesFromStart' /\ WatchesNewest'
    <2>1. CallsAskForNewest' /\ WatchesFromStart'
        BY <1>1, <1>6 DEF Seal!handleExpiryGateSeal, Seal!TypeOK
    <2>2. UNCHANGED <<raced, newest, expiry, head>> /\ findings \subseteq findings'
        BY <1>6 DEF Seal!handleExpiryGateSeal, Seal!expired
    <2>3. WatchesNewest'
        <3>1. CASE gateSealAddress' = gateSealAddress
            BY <1>1, <2>2, <3>1
        <3>2. CASE gateSealAddress' # gateSealAddress
            <4>1. PICK asked \in {open[c].seal, runner} :
                      expiry[asked] <= open[c].ts /\ Seal!expired(open[c].ts)
                BY <1>6, <3>2 DEF Seal!handleExpiryGateSeal
            <4>2. gateSealAddress' = NoSeal
                BY <4>1 DEF Seal!expired
            <4>3. ~raced => asked = newest /\ open[c].ts <= head
                BY <1>1, <1>6 DEF Seal!handleExpiryGateSeal
            <4>4. open[c].ts \in Nat
                BY <1>1 DEF Seal!TypeOK, Seal!Time
            <4> QED BY <1>1, <2>2, <4>1, <4>2, <4>3, <4>4
        <3> QED BY <3>1, <3>2
    <2> QED BY <2>1, <2>3
<1>7. ASSUME NEW seal \in Seals, NEW at \in head..MaxTime, Seal!handleNewGateSeal(seal, at)
      PROVE  CallsAskForNewest' /\ WatchesFromStart' /\ WatchesNewest'
    BY <1>1, <1>7 DEF Seal!handleNewGateSeal, Seal!watches
<1> QED BY <1>2, <1>3, <1>4, <1>5, <1>6, <1>7 DEF Seal!Next

(* The bot watches the newest seal, or none once that one has expired, as     *)
(* long as no seal is created during a block call.                            *)
THEOREM WatchesNewestCorrect == Seal!Spec => []WatchesNewest
<1>1. SealInv => WatchesNewest
    BY DEF SealInv
<1> QED BY SealInit, SealNext, <1>1, PTL DEF Seal!Spec

-----------------------------------------------------------------------------
(* The depositable ether.  The timer never started later than the samples say *)
(* that the ether is huge, and no recorded time lies ahead.                   *)
TimerIsEarly ==
    /\ taken < sampleTime /\ criticalDepositableAmountTimestamp < sampleTime
    /\ hugeFrom # Depositable!Never =>
           /\ ether = "huge"
           /\ criticalDepositableAmountTimestamp # Depositable!Never
           /\ criticalDepositableAmountTimestamp <= hugeFrom
    /\ highFrom # Depositable!Never => ether # "few"

EtherInv == Depositable!TypeOK /\ TimerIsEarly /\ EtherIsTold

LEMMA EtherNumbers ==
    ASSUME Depositable!TypeOK
    PROVE  /\ sampleTime \in Nat /\ sampleTime \in SampleStart..MaxNow /\ ether \in {"few", "high", "huge"}
           /\ criticalDepositableAmountTimestamp \in Nat
           /\ lastReportedDepositableEthTimestamp \in Nat /\ lastDepositorTxTime \in Nat
           /\ taken \in Nat /\ hugeFrom \in Nat /\ highFrom \in Nat
           /\ Hour \in Nat /\ Day \in Nat /\ Days3 \in Nat /\ SampleStart \in Nat /\ MaxNow \in Nat
           /\ SampleStart > Days3 /\ SampleStart > Day
           /\ SampleStart..MaxNow \subseteq Depositable!Times
<1>1. Depositable!DepositableAssumption
    BY ServicesAssumption
<1>2. Depositable!Times \subseteq Nat /\ SampleStart..MaxNow \subseteq Depositable!Times
    BY <1>1 DEF Depositable!Times, Depositable!Never, Depositable!DepositableAssumption
<1> QED BY <1>1, <1>2 DEF Depositable!TypeOK, Depositable!Levels, Depositable!DepositableAssumption

LEMMA EtherInit == Depositable!Init => EtherInv
<1> SUFFICES ASSUME Depositable!Init PROVE EtherInv
    OBVIOUS
<1>1. Depositable!DepositableAssumption /\ MaxNow >= SampleStart
    BY ServicesAssumption DEF Depositable!DepositableAssumption
<1>2. {SampleStart - Days3, SampleStart - 1, Depositable!Never} \subseteq Depositable!Times
    BY <1>1 DEF Depositable!Times, Depositable!Never, Depositable!DepositableAssumption
<1>3. Depositable!TypeOK
    BY <1>1, <1>2 DEF Depositable!Init, Depositable!TypeOK, Depositable!DepositableAssumption
<1>4. TimerIsEarly /\ EtherIsTold
    BY <1>1, <1>3, EtherNumbers DEF TimerIsEarly, EtherIsTold, Depositable!EtherIsTold,
       Depositable!Init, Depositable!Never
<1> QED BY <1>3, <1>4 DEF EtherInv

LEMMA EtherNext == EtherInv /\ [Depositable!Next]_(Depositable!vars) => EtherInv'
<1> SUFFICES ASSUME EtherInv, [Depositable!Next]_(Depositable!vars) PROVE EtherInv'
    OBVIOUS
<1> USE DEF Depositable!Never
<1>1. Depositable!TypeOK /\ TimerIsEarly /\ EtherIsTold
    BY DEF EtherInv
<1>2. CASE UNCHANGED Depositable!vars
    BY <1>1, <1>2 DEF Depositable!vars, EtherInv, Depositable!TypeOK, TimerIsEarly, EtherIsTold,
       Depositable!EtherIsTold
<1>3. CASE Depositable!depositorTx
    <2>1. sampleTime \in Depositable!Times
        BY <1>1, EtherNumbers
    <2>2. Depositable!TypeOK' /\ TimerIsEarly'
        BY <1>1, <1>3, <2>1 DEF Depositable!depositorTx, Depositable!TypeOK, TimerIsEarly
    <2>3. EtherIsTold'
        BY <1>1, <1>3, EtherNumbers DEF Depositable!depositorTx, EtherIsTold, Depositable!EtherIsTold,
           TimerIsEarly
    <2> QED BY <2>2, <2>3 DEF EtherInv
<1>4. CASE Depositable!fails
    <2>1. /\ sampleTime < MaxNow /\ sampleTime' = sampleTime + 1 /\ ether' \in Depositable!Levels
          /\ hugeFrom' = (IF ether' = "huge" THEN hugeFrom ELSE 0)
          /\ highFrom' = (IF ether' = "few" THEN 0 ELSE highFrom)
          /\ UNCHANGED <<criticalDepositableAmountTimestamp, lastReportedDepositableEthTimestamp,
                         lastDepositorTxTime, taken>>
        BY <1>4 DEF Depositable!fails, Depositable!nextSample
    <2>2. Depositable!TypeOK'
        BY <1>1, <2>1, EtherNumbers DEF Depositable!TypeOK, Depositable!Times
    <2>3. TimerIsEarly'
        BY <1>1, <2>1, EtherNumbers DEF TimerIsEarly
    <2>4. EtherIsTold'
        BY <1>1, <2>1, EtherNumbers DEF TimerIsEarly, EtherIsTold, Depositable!EtherIsTold
    <2> QED BY <2>2, <2>3, <2>4 DEF EtherInv
<1>5. CASE Depositable!handleDepositable
    <2> DEFINE firstHuge == IF ether = "huge" /\ hugeFrom = 0 THEN sampleTime ELSE hugeFrom
               firstHigh == IF ether # "few" /\ highFrom = 0 THEN sampleTime ELSE highFrom
               since == IF ether # "huge" THEN 0
                          ELSE IF criticalDepositableAmountTimestamp = 0 THEN sampleTime
                          ELSE criticalDepositableAmountTimestamp
    <2>1. /\ sampleTime < MaxNow /\ sampleTime' = sampleTime + 1 /\ ether' \in Depositable!Levels
          /\ hugeFrom' = (IF ether' = "huge" THEN firstHuge ELSE 0)
          /\ highFrom' = (IF ether' = "few" THEN 0 ELSE firstHigh)
          /\ taken' = sampleTime /\ lastDepositorTxTime' = lastDepositorTxTime
        BY <1>5 DEF Depositable!handleDepositable, Depositable!nextSample, Depositable!firstTaken
    <2>2. criticalDepositableAmountTimestamp' = since
        BY <1>5 DEF Depositable!handleDepositable, Depositable!timer
    <2>3. \/ lastReportedDepositableEthTimestamp' = sampleTime
          \/ /\ lastReportedDepositableEthTimestamp' = lastReportedDepositableEthTimestamp
             /\ \/ lastReportedDepositableEthTimestamp + Day >= sampleTime
                \/ ~Depositable!anyOf
        BY <1>1, <1>5, EtherNumbers DEF Depositable!handleDepositable
    <2>4. ~Depositable!anyOf =>
              /\ ether = "huge" => since + Hour >= sampleTime
              /\ ether # "few" => lastDepositorTxTime = 0 \/ lastDepositorTxTime + Days3 >= sampleTime
        BY <1>1, <2>2, EtherNumbers DEF Depositable!anyOf, Depositable!HugeForAnHour,
           Depositable!HighForDays
    <2>5. Depositable!TypeOK'
        <3>1. sampleTime \in Depositable!Times /\ 0 \in Depositable!Times
            BY <1>1, EtherNumbers DEF Depositable!Times
        <3>2. since \in Depositable!Times /\ firstHuge \in Depositable!Times /\ firstHigh \in Depositable!Times
            BY <1>1, <3>1 DEF Depositable!TypeOK
        <3> HIDE DEF since, firstHuge, firstHigh
        <3>3. sampleTime' \in SampleStart..MaxNow
            BY <1>1, <2>1, EtherNumbers
        <3> QED BY <1>1, <2>1, <2>2, <2>3, <3>1, <3>2, <3>3 DEF Depositable!TypeOK
    <2>6. TimerIsEarly'
        BY <1>1, <2>1, <2>2, EtherNumbers DEF TimerIsEarly
    <2>7. EtherIsTold'
        <3>1. ASSUME hugeFrom' # 0, hugeFrom' + Hour < taken'
              PROVE  ether = "huge" /\ since + Hour < sampleTime
            BY <1>1, <2>1, <3>1, EtherNumbers DEF TimerIsEarly
        <3>2. ASSUME highFrom' # 0 PROVE ether # "few"
            BY <1>1, <2>1, <3>2, EtherNumbers DEF TimerIsEarly
        <3>3. since \in Nat
            BY <1>1, EtherNumbers
        <3> HIDE DEF since, firstHuge, firstHigh
        <3>4. ASSUME \/ hugeFrom' # 0 /\ hugeFrom' + Hour < taken'
                     \/ highFrom' # 0 /\ lastDepositorTxTime # 0 /\ lastDepositorTxTime + Days3 < taken'
              PROVE  Depositable!anyOf
            BY <1>1, <2>1, <2>4, <3>1, <3>2, <3>3, <3>4, EtherNumbers
        <3> QED BY <1>1, <2>1, <2>3, <3>4, EtherNumbers DEF EtherIsTold, Depositable!EtherIsTold
    <2> QED BY <2>5, <2>6, <2>7 DEF EtherInv
<1> QED BY <1>2, <1>3, <1>4, <1>5 DEF Depositable!Next

(* Ether that stays too much for an hour, or high for three days without a    *)
(* deposit, was alerted within the day, whichever samples are lost.           *)
THEOREM EtherIsToldCorrect == Depositable!Spec => []EtherIsTold
<1>1. EtherInv => EtherIsTold
    BY DEF EtherInv
<1> QED BY EtherInit, EtherNext, <1>1, PTL DEF Depositable!Spec

-----------------------------------------------------------------------------
(* The buffered ether, for any number of calls that overlap.  Of two blocks   *)
(* that follow each other in the cache the older is the one before the newer, *)
(* unless the newer was put there by a check that overlapped with another.    *)
Asked == [at : {"idle", "latest", "prev", "buffer", "events", "others"},
          block : Buffer!Blocks \union {<<0, 0>>}, lo : 0..MaxBlock, hi : 0..MaxBlock]

WindowFollows ==
    \A i \in 1..3 : prev4Blocks[i + 1][1] \in overlapped \/ prev4Blocks[i][1] = prev4Blocks[i + 1][1] - 1

CallsAreOfBlocks ==
    /\ bufferHead >= BufferStart /\ forkAt >= BufferStart
    /\ delivered \in BufferStart - 1..bufferHead /\ drain.block[1] >= BufferStart - 3
    /\ \A c \in Checks : LET r == bufferCall[c]
                         IN  r.at # "idle" => /\ running /\ r.block \in Buffer!Blocks
                                              /\ r.block[1] \in BufferStart..bufferHead

OverlapIsNoted ==
    \A c, d \in Checks : c # d /\ Buffer!checking(c) /\ Buffer!checking(d)
                            => bufferCall[c].block[1] \in overlapped

(* A check that is alone finds its parent still there when it ends.           *)
CheckFollows ==
    \A c \in Checks : LET r == bufferCall[c]
                      IN  r.at \in {"buffer", "events"} /\ r.block[1] \notin overlapped
                             => prev4Blocks[4][1] = r.block[1] - 1

(* What a call has read is of the two blocks it is to compare.                *)
ReadsAreTrue(r) ==
    /\ r.at \in {"buffer", "events"} => r.lo = r.block[1] - 4 /\ r.hi = r.block[1] - 3
    /\ r.at = "events" => Buffer!onChain(r.hi) = drain.block
    /\ r.at = "others" /\ r.hi # 0 => /\ r.hi = r.block[1] - 3 /\ ~drain.explained
                                      /\ drain.block = Buffer!onChain(r.hi)
ChecksAreTrue ==
    \A c \in Checks : LET r == bufferCall[c]
                      IN  r.at # "idle" => Buffer!disturbed(r.block[1] - 3) \/ ReadsAreTrue(r)

(* What was reported lies too deep for a reorganisation.                      *)
ReportedIsDeep == \A r \in reported : r[2] \in BufferStart..bufferHead

(* A drain deep enough was reported, its check is lost, or a call is at it.   *)
DrainIsChecked ==
    LET n == drain.block[1]
    IN  Buffer!onChain(n) = drain.block /\ ~drain.explained /\ delivered >= n + 3
            => \/ <<n, n + 3>> \in reported \/ n \in unchecked \/ Buffer!disturbed(n)
               \/ \E c \in Checks : LET r == bufferCall[c]
                                    IN  r.at # "idle" /\ r.block[1] = n + 3 /\ (r.at = "others" => r.hi = n)

BufferInv == /\ Buffer!TypeOK /\ WindowFollows /\ CallsAreOfBlocks /\ OverlapIsNoted /\ CheckFollows
             /\ ChecksAreTrue /\ ReportedIsDeep /\ DrainIsTrue /\ DrainIsChecked

LEMMA BufferNumbers ==
    ASSUME Buffer!TypeOK
    PROVE  /\ MaxBlock \in Nat /\ BufferStart \in Nat /\ BufferStart > 4 /\ MaxBlock >= BufferStart
           /\ MaxReorg \in 0..3
           /\ bufferHead \in 1..MaxBlock /\ forkAt \in 1..MaxBlock + 1 /\ delivered \in 0..MaxBlock
           /\ Buffer!Blocks = (1..MaxBlock) \X {0, 1}
           /\ drain.block \in Buffer!Blocks /\ drain.explained \in BOOLEAN
           /\ prev4Blocks \in [1..4 -> Buffer!Blocks] /\ bufferCall \in [Checks -> Asked]
           /\ \A i \in 1..4 : prev4Blocks[i] \in Buffer!Blocks
BY ServicesAssumption DEF Buffer!TypeOK, Buffer!BufferAssumption, Buffer!Blocks, Buffer!Depth, Asked

LEMMA AppendKeeps ==
    ASSUME NEW S, NEW s \in Seq(S), NEW e \in S
    PROVE  \A i \in 1..Len(s) : Append(s, e)[i] = s[i]
BY AppendProperties

(* The four blocks move on by one.                                            *)
LEMMA FourMoveOn ==
    ASSUME NEW S, NEW four \in [1..4 -> S], NEW b \in S
    PROVE  /\ Append(Tail(four), b) \in [1..4 -> S]
           /\ Append(Tail(four), b)[4] = b
           /\ \A i \in 1..3 : Append(Tail(four), b)[i] = four[i + 1]
<1>1. four \in Seq(S)
    <2>1. \E n \in Nat : four \in [1..n -> S]
        OBVIOUS
    <2> QED BY <2>1, SeqDef
<1>2. Len(four) = 4
    <2>1. 1..Len(four) = 1..4 /\ Len(four) \in Nat
        BY <1>1, LenProperties
    <2> QED BY <2>1
<1>3. /\ Tail(four) \in Seq(S) /\ Len(Tail(four)) = 3
      /\ \A i \in 1..3 : Tail(four)[i] = four[i + 1]
    <2>1. four # << >>
        BY <1>2
    <2>2. /\ Tail(four) \in Seq(S) /\ Len(Tail(four)) = Len(four) - 1
          /\ \A i \in 1..Len(Tail(four)) : Tail(four)[i] = four[i + 1]
        BY <1>1, <2>1, HeadTailProperties
    <2>3. Len(Tail(four)) = 3
        BY <1>2, <2>2
    <2> QED BY <2>2, <2>3
<1> DEFINE rest == Tail(four)
<1>4. /\ Append(rest, b) \in Seq(S) /\ Len(Append(rest, b)) = 4
      /\ Append(rest, b)[4] = b
      /\ \A i \in 1..3 : Append(rest, b)[i] = rest[i]
    <2> HIDE DEF rest
    <2>1. rest \in Seq(S) /\ Len(rest) = 3
        BY <1>3 DEF rest
    <2>2. /\ Append(rest, b) \in Seq(S) /\ Len(Append(rest, b)) = Len(rest) + 1
          /\ \A i \in 1..Len(rest) : Append(rest, b)[i] = rest[i]
          /\ Append(rest, b)[Len(rest) + 1] = b
        <3>1. Append(rest, b) \in Seq(S)
            BY <2>1, AppendProperties
        <3>2. Len(Append(rest, b)) = Len(rest) + 1
            BY <2>1, AppendProperties, ZenonT(60)
        <3>3. \A i \in 1..Len(rest) : Append(rest, b)[i] = rest[i]
            BY <2>1, AppendKeeps
        <3>4. Append(rest, b)[Len(rest) + 1] = b
            BY <2>1, AppendProperties, ZenonT(60)
        <3> QED BY <3>1, <3>2, <3>3, <3>4
    <2>3. Len(rest) + 1 = 4
        BY <2>1
    <2> QED BY <2>1, <2>2, <2>3
<1>5. Append(rest, b) \in [1..4 -> S]
    <2> HIDE DEF rest
    <2> QED BY <1>4, LenProperties
<1> QED BY <1>3, <1>4, <1>5

LEMMA SetPrevBlock ==
    ASSUME Buffer!TypeOK, NEW b \in Buffer!Blocks
    PROVE  /\ Buffer!setPrevBlock(b) \in [1..4 -> Buffer!Blocks]
           /\ Buffer!setPrevBlock(b)[4] = b
           /\ \A i \in 1..3 : Buffer!setPrevBlock(b)[i] = prev4Blocks[i + 1]
<1>1. prev4Blocks \in [1..4 -> Buffer!Blocks]
    BY DEF Buffer!TypeOK, Buffer!Depth
<1> QED BY <1>1, FourMoveOn, SMTT(30) DEF Buffer!setPrevBlock

(* The four blocks before one, by their hashes.                               *)
LEMMA ChainPrev ==
    ASSUME Buffer!TypeOK, NEW b \in Buffer!Blocks, b[1] >= BufferStart
    PROVE  /\ Buffer!chainPrev(b) \in [1..4 -> Buffer!Blocks]
           /\ \A i \in 1..4 : Buffer!chainPrev(b)[i][1] = b[1] - 5 + i
<1>1. b[1] \in 1..MaxBlock /\ b[1] > 4 /\ MaxBlock \in Nat
    BY BufferNumbers
<1>2. \A i \in 1..4 : /\ Buffer!ancestor(b, b[1] - 1 - 4 + i) \in Buffer!Blocks
                      /\ Buffer!ancestor(b, b[1] - 1 - 4 + i)[1] = b[1] - 5 + i
    <2> TAKE i \in 1..4
    <2>1. b[1] - 1 - 4 + i \in 1..MaxBlock /\ b[1] - 1 - 4 + i = b[1] - 5 + i
        BY <1>1
    <2>2. \A n \in 1..MaxBlock : <<n, 0>> \in Buffer!Blocks /\ <<n, 1>> \in Buffer!Blocks
        BY BufferNumbers
    <2> QED BY <2>1, <2>2 DEF Buffer!ancestor, Buffer!branchOf
<1> QED BY <1>2 DEF Buffer!chainPrev, Buffer!Depth

LEMMA BufferInit == Buffer!Init => BufferInv
<1> SUFFICES ASSUME Buffer!Init PROVE BufferInv
    OBVIOUS
<1>1. /\ MaxBlock \in Nat /\ BufferStart \in Nat /\ BufferStart > 4 /\ MaxBlock >= BufferStart
    BY ServicesAssumption DEF Buffer!BufferAssumption, Buffer!Depth
<1>2. \A i \in 1..4 : <<BufferStart - 5 + i, 0>> \in Buffer!Blocks
    BY <1>1 DEF Buffer!Blocks
<1>3. prev4Blocks = [i \in 1..4 |-> <<BufferStart - 5 + i, 0>>]
    BY <1>1 DEF Buffer!Init, Buffer!Depth
<1>4. Buffer!TypeOK
    <2>1. Buffer!Idle \in Asked
        BY <1>1 DEF Buffer!Idle, Buffer!waiting, Asked
    <2>2. (BufferStart - 4 + 1..MaxBlock) \X {0, 1} \subseteq Buffer!Blocks
        BY <1>1 DEF Buffer!Blocks
    <2>3. prev4Blocks \in [1..4 -> Buffer!Blocks]
        BY <1>2, <1>3
    <2>4. drain \in [block : Buffer!Blocks, explained : BOOLEAN]
        BY <2>2 DEF Buffer!Init, Buffer!Depth
    <2> QED BY <1>1, <2>1, <2>3, <2>4 DEF Buffer!Init, Buffer!TypeOK, Buffer!Depth, Asked
<1>5. WindowFollows
    BY <1>1, <1>3 DEF WindowFollows
<1>6. \A c \in Checks : bufferCall[c].at = "idle"
    BY DEF Buffer!Init, Buffer!Idle, Buffer!waiting
<1>7. OverlapIsNoted /\ CheckFollows /\ ChecksAreTrue /\ ReportedIsDeep /\ DrainIsTrue
    BY <1>6 DEF Buffer!Init, OverlapIsNoted, CheckFollows, ChecksAreTrue, ReportedIsDeep, DrainIsTrue,
                Buffer!DrainIsTrue, Buffer!checking
<1>8. CallsAreOfBlocks /\ DrainIsChecked
    <2>1. drain.block[1] \in BufferStart - 3..MaxBlock
        BY <1>1 DEF Buffer!Init, Buffer!Depth
    <2> QED BY <1>1, <1>6, <2>1 DEF Buffer!Init, CallsAreOfBlocks, DrainIsChecked
<1> QED BY <1>4, <1>5, <1>7, <1>8 DEF BufferInv

LEMMA NewBlockBuffer ==
    ASSUME BufferInv, Buffer!newBlock
    PROVE  BufferInv'
<1>1. /\ bufferHead' = bufferHead + 1 /\ bufferHead < MaxBlock
      /\ UNCHANGED <<forkAt, drain, delivered, running, prev4Blocks, bufferCall, reported, unchecked, overlapped>>
    BY DEF Buffer!newBlock
<1>2. /\ bufferHead \in 1..MaxBlock /\ MaxBlock \in Nat /\ BufferStart \in Nat /\ bufferHead >= BufferStart
      /\ BufferStart..bufferHead \subseteq BufferStart..bufferHead'
      /\ BufferStart - 1..bufferHead \subseteq BufferStart - 1..bufferHead'
    BY <1>1, BufferNumbers DEF BufferInv, CallsAreOfBlocks
<1>3. Buffer!TypeOK'
    BY <1>1, <1>2 DEF BufferInv, Buffer!TypeOK, Buffer!Blocks
<1>4. WindowFollows' /\ OverlapIsNoted' /\ CheckFollows' /\ ChecksAreTrue' /\ DrainIsTrue' /\ DrainIsChecked'
    BY <1>1 DEF BufferInv, WindowFollows, OverlapIsNoted, CheckFollows, ChecksAreTrue, ReadsAreTrue, DrainIsTrue,
                Buffer!DrainIsTrue, DrainIsChecked, Buffer!onChain, Buffer!branchOf, Buffer!checking,
                Buffer!disturbed
<1>5. CallsAreOfBlocks' /\ ReportedIsDeep'
    BY <1>1, <1>2 DEF BufferInv, CallsAreOfBlocks, ReportedIsDeep, Buffer!Blocks
<1> QED BY <1>3, <1>4, <1>5 DEF BufferInv

(* A reorganisation replaces only blocks that no check has reached.           *)
LEMMA ReorganisedBuffer ==
    ASSUME BufferInv, Buffer!reorganised
    PROVE  BufferInv'
<1>1. PICK d \in 1..MaxReorg : bufferHead - d + 1 >= BufferStart /\ forkAt' = bufferHead - d + 1
    BY DEF Buffer!reorganised
<1>2. /\ forkAt > MaxBlock /\ delivered' = (IF delivered < forkAt' THEN delivered ELSE forkAt' - 1)
      /\ UNCHANGED <<bufferHead, drain, running, prev4Blocks, bufferCall, reported, unchecked, overlapped>>
    BY DEF Buffer!reorganised
<1>3. /\ forkAt' \in BufferStart..bufferHead /\ forkAt' > bufferHead - 3 /\ d \in 1..3
      /\ delivered' \in BufferStart - 1..bufferHead /\ delivered' <= delivered /\ delivered' < forkAt'
      /\ bufferHead \in 1..MaxBlock /\ delivered \in 0..MaxBlock /\ MaxBlock \in Nat /\ BufferStart \in Nat
      /\ BufferStart > 4
    BY <1>1, <1>2, BufferNumbers DEF BufferInv, CallsAreOfBlocks
<1>4. Buffer!TypeOK'
    <2>1. forkAt' \in 1..MaxBlock + 1 /\ delivered' \in 0..MaxBlock
        BY <1>3
    <2> QED BY <1>2, <2>1 DEF BufferInv, Buffer!TypeOK, Buffer!Blocks
<1>5. WindowFollows' /\ OverlapIsNoted' /\ CheckFollows' /\ ReportedIsDeep' /\ CallsAreOfBlocks'
    <2>1. WindowFollows' /\ OverlapIsNoted' /\ CheckFollows' /\ ReportedIsDeep'
        BY <1>2 DEF BufferInv, WindowFollows, OverlapIsNoted, CheckFollows, ReportedIsDeep, Buffer!checking
    <2>2. /\ bufferHead' = bufferHead /\ bufferHead >= BufferStart /\ drain' = drain
          /\ drain.block[1] >= BufferStart - 3
          /\ forkAt' >= BufferStart /\ delivered' \in BufferStart - 1..bufferHead
        <3>1. bufferHead >= BufferStart /\ drain.block[1] >= BufferStart - 3
            BY DEF BufferInv, CallsAreOfBlocks
        <3>2. forkAt' >= BufferStart
            BY <1>3
        <3> QED BY <1>2, <1>3, <3>1, <3>2
    <2>3. \A c \in Checks : LET r == bufferCall[c]
                            IN  r.at # "idle" => /\ running /\ r.block \in Buffer!Blocks
                                                 /\ r.block[1] \in BufferStart..bufferHead
        BY DEF BufferInv, CallsAreOfBlocks
    <2> QED BY <1>2, <2>1, <2>2, <2>3 DEF CallsAreOfBlocks, Buffer!Blocks
<1>6. \A n \in Int : n <= bufferHead - 3 => Buffer!onChain(n) = <<n, 0>> /\ Buffer!onChain(n)' = <<n, 0>>
    BY <1>2, <1>3, BufferNumbers DEF BufferInv, Buffer!onChain, Buffer!branchOf
<1>7. ChecksAreTrue'
    <2> SUFFICES ASSUME NEW c \in Checks, bufferCall[c].at # "idle",
                        ReadsAreTrue(bufferCall[c]), ~Buffer!disturbed(bufferCall[c].block[1] - 3)
                 PROVE  ReadsAreTrue(bufferCall[c])'
        BY <1>2 DEF BufferInv, ChecksAreTrue, Buffer!disturbed, ReadsAreTrue
    <2>1. bufferCall[c].block[1] \in BufferStart..bufferHead
        BY DEF BufferInv, CallsAreOfBlocks
    <2>2. PICK n \in Int : n = bufferCall[c].block[1] - 3 /\ n <= bufferHead - 3
        BY <1>3, <2>1
    <2>3. Buffer!onChain(n)' = Buffer!onChain(n)
        BY <1>6, <2>2
    <2>4. bufferCall[c].at = "events" => bufferCall[c].hi = n
        BY <2>2 DEF ReadsAreTrue
    <2>5. bufferCall[c].at = "others" /\ bufferCall[c].hi # 0 => bufferCall[c].hi = n
        BY <2>2 DEF ReadsAreTrue
    <2> QED BY <1>2, <2>3, <2>4, <2>5 DEF ReadsAreTrue, Buffer!onChain, Buffer!branchOf
<1>8. DrainIsTrue'
    <2> SUFFICES ASSUME NEW r \in reported
                 PROVE  \/ Buffer!disturbed(r[2] - 4 + 1)
                        \/ /\ r[1] = r[2] - 4 + 1 /\ ~drain.explained
                           /\ drain.block = <<r[2] - 4 + 1, IF r[2] - 4 + 1 >= forkAt' THEN 1 ELSE 0>>
        BY <1>2 DEF DrainIsTrue, Buffer!DrainIsTrue, Buffer!disturbed, Buffer!Depth, Buffer!onChain, Buffer!branchOf
    <2>1. r[2] \in BufferStart..bufferHead
        BY DEF BufferInv, ReportedIsDeep
    <2>2. r[2] - 4 + 1 \in Int /\ r[2] - 4 + 1 <= bufferHead - 3
        BY <1>3, <2>1
    <2>3. <<r[2] - 4 + 1, IF r[2] - 4 + 1 >= forkAt' THEN 1 ELSE 0>> = Buffer!onChain(r[2] - 4 + 1)
        BY <1>2, <1>3, <2>2, BufferNumbers DEF BufferInv, Buffer!onChain, Buffer!branchOf
    <2> QED BY <2>3 DEF BufferInv, DrainIsTrue, Buffer!DrainIsTrue, Buffer!Depth
<1>9. DrainIsChecked'
    <2>1. drain.block[1] \in 1..MaxBlock
        BY BufferNumbers DEF BufferInv
    <2> SUFFICES ASSUME delivered' >= drain.block[1] + 3
                 PROVE  Buffer!onChain(drain.block[1])' = Buffer!onChain(drain.block[1])
                        /\ delivered >= drain.block[1] + 3
        BY <1>2, <2>1 DEF BufferInv, DrainIsChecked, Buffer!disturbed
    <2> QED BY <1>2, <1>3, <1>6, <2>1
<1> QED BY <1>4, <1>5, <1>7, <1>8, <1>9 DEF BufferInv

(* A block, or a later one, is given to the bot: its call, and the checks of  *)
(* those left out.                                                            *)
LEMMA GivenBuffer ==
    ASSUME BufferInv, NEW c \in Checks, Buffer!handleBlock(c)
    PROVE  BufferInv'
<1>1. PICK n \in delivered + 1..bufferHead :
          /\ bufferCall' = [bufferCall EXCEPT ![c] = Buffer!waiting("latest", Buffer!onChain(n), 0, 0)]
          /\ delivered' = n
          /\ unchecked' = unchecked \union {Buffer!checkOf(<<m, 0>>) : m \in delivered + 1..n - 1}
    BY DEF Buffer!handleBlock
<1>2. /\ running /\ bufferCall[c].at = "idle"
      /\ UNCHANGED <<bufferHead, forkAt, drain, running, prev4Blocks, reported, overlapped>>
    BY DEF Buffer!handleBlock, Buffer!chain
<1>3. /\ n \in BufferStart..bufferHead /\ n \in 5..MaxBlock /\ bufferHead \in 1..MaxBlock
      /\ delivered \in BufferStart - 1..bufferHead /\ MaxBlock \in Nat /\ BufferStart \in Nat
      /\ BufferStart > 4
    BY <1>1, BufferNumbers DEF BufferInv, CallsAreOfBlocks
<1> DEFINE b == Buffer!onChain(n)
           r == [at |-> "latest", block |-> b, lo |-> 0, hi |-> 0]
<1>4. b \in Buffer!Blocks /\ b[1] = n
    BY <1>3 DEF Buffer!onChain, Buffer!Blocks, Buffer!branchOf
<1>5. r \in Asked
    BY <1>3, <1>4 DEF Asked
<1>6. r.at = "latest" /\ r.block[1] = n /\ r.block \in Buffer!Blocks
    BY <1>4
<1>7. bufferCall' = [bufferCall EXCEPT ![c] = r]
    BY <1>1 DEF Buffer!waiting
<1> HIDE DEF b, r
<1>8. /\ bufferCall'[c] = r /\ \A d \in Checks \ {c} : bufferCall'[d] = bufferCall[d]
      /\ bufferCall' \in [Checks -> Asked]
    BY <1>5, <1>7, BufferNumbers DEF BufferInv
<1>9. Buffer!TypeOK'
    <2>1. \A m \in delivered + 1..n - 1 : Buffer!checkOf(<<m, 0>>) \in 1..MaxBlock
        BY <1>3 DEF Buffer!checkOf, Buffer!Depth
    <2>2. unchecked' \subseteq 1..MaxBlock
        BY <1>1, <2>1 DEF BufferInv, Buffer!TypeOK
    <2>3. delivered' \in 0..MaxBlock
        BY <1>1, <1>3
    <2> QED BY <1>2, <1>8, <2>2, <2>3 DEF BufferInv, Buffer!TypeOK, Buffer!Blocks, Asked
<1>10. WindowFollows' /\ ReportedIsDeep' /\ DrainIsTrue' /\ CallsAreOfBlocks'
    <2>1. WindowFollows' /\ ReportedIsDeep' /\ DrainIsTrue'
        BY <1>2 DEF BufferInv, WindowFollows, ReportedIsDeep, DrainIsTrue, Buffer!DrainIsTrue,
                    Buffer!onChain, Buffer!branchOf, Buffer!disturbed
    <2>2. delivered' \in BufferStart - 1..bufferHead
        BY <1>1, <1>3
    <2> QED BY <1>2, <1>3, <1>6, <1>8, <2>1, <2>2 DEF BufferInv, CallsAreOfBlocks, Buffer!Blocks
<1>11. OverlapIsNoted' /\ CheckFollows' /\ ChecksAreTrue'
    BY <1>2, <1>6, <1>8 DEF BufferInv, OverlapIsNoted, CheckFollows, ChecksAreTrue, ReadsAreTrue,
                Buffer!checking, Buffer!disturbed, Buffer!onChain, Buffer!branchOf
<1>12. DrainIsChecked'
    <2> DEFINE k == drain.block[1]
    <2>1. k \in 1..MaxBlock
        BY BufferNumbers DEF BufferInv
    <2> SUFFICES ASSUME Buffer!onChain(k) = drain.block, ~drain.explained, n >= k + 3
                 PROVE  \/ <<k, k + 3>> \in reported \/ k \in unchecked' \/ Buffer!disturbed(k)
                        \/ \E d \in Checks : LET s == bufferCall'[d]
                                             IN  s.at # "idle" /\ s.block[1] = k + 3 /\ (s.at = "others" => s.hi = k)
        BY <1>1, <1>2 DEF DrainIsChecked, Buffer!onChain, Buffer!branchOf, Buffer!disturbed
    <2>2. CASE delivered >= k + 3
        BY <1>1, <1>2, <1>8, <2>2 DEF BufferInv, DrainIsChecked
    <2>3. CASE n = k + 3
        BY <1>6, <1>8, <2>3
    <2>4. CASE delivered < k + 3 /\ k + 3 < n
        <3>1. k + 3 \in delivered + 1..n - 1 /\ Buffer!checkOf(<<k + 3, 0>>) = k
            BY <1>3, <2>1, <2>4 DEF Buffer!checkOf, Buffer!Depth
        <3> QED BY <1>1, <3>1
    <2> QED BY <1>3, <2>1, <2>2, <2>3, <2>4
<1> QED BY <1>9, <1>10, <1>11, <1>12 DEF BufferInv

(* The cache, for a block whose parent is its newest one: unless it was       *)
(* disturbed, it has the two blocks to compare in front.                      *)
LEMMA AsksOfWindow ==
    ASSUME NEW m \in 5..MaxBlock, MaxBlock \in Nat, Buffer!TypeOK, WindowFollows, prev4Blocks[4][1] = m - 1
    PROVE  \/ Buffer!disturbed(m - 3)
           \/ Buffer!compared(prev4Blocks).lo = m - 4 /\ Buffer!compared(prev4Blocks).hi = m - 3
<1> SUFFICES ASSUME ~Buffer!disturbed(m - 3)
             PROVE  Buffer!compared(prev4Blocks).lo = m - 4 /\ Buffer!compared(prev4Blocks).hi = m - 3
    OBVIOUS
<1>1. m - 1 \notin overlapped /\ m - 2 \notin overlapped /\ m - 3 \notin overlapped
    <2>1. m - 1 \in m - 3..m - 3 + 2 /\ m - 2 \in m - 3..m - 3 + 2 /\ m - 3 \in m - 3..m - 3 + 2
        OBVIOUS
    <2> QED BY <2>1 DEF Buffer!disturbed
<1>2. prev4Blocks[3][1] = m - 2
    BY <1>1 DEF WindowFollows
<1>3. prev4Blocks[2][1] = m - 3
    BY <1>1, <1>2 DEF WindowFollows
<1>4. prev4Blocks[1][1] = m - 4
    BY <1>1, <1>3 DEF WindowFollows
<1> QED BY <1>3, <1>4 DEF Buffer!compared

(* The check of a block begins: with the cache as it is, or by reading it.    *)
LEMMA AskedBuffer ==
    ASSUME BufferInv, NEW c \in Checks, Buffer!handleBufferedEth(c)
    PROVE  BufferInv'
<1> DEFINE b == bufferCall[c].block
           r == [at |-> "buffer", block |-> b, lo |-> Buffer!compared(prev4Blocks).lo,
                 hi |-> Buffer!compared(prev4Blocks).hi]
           s == [at |-> "prev", block |-> b, lo |-> 0, hi |-> 0]
<1>1. /\ bufferCall[c].at = "latest"
      /\ \/ Buffer!followsCache(b) /\ bufferCall' = [bufferCall EXCEPT ![c] = r]
         \/ bufferCall' = [bufferCall EXCEPT ![c] = s]
      /\ UNCHANGED <<bufferHead, forkAt, drain, delivered, running, prev4Blocks, reported, unchecked>>
    BY DEF Buffer!handleBufferedEth, Buffer!asksBuffer, Buffer!waiting, Buffer!chain
<1>2. /\ overlapped \subseteq overlapped'
      /\ overlapped' \subseteq overlapped \union {bufferCall[d].block[1] : d \in Buffer!besides(c) \union {c}}
      /\ Buffer!besides(c) # {} => \A d \in Buffer!besides(c) \union {c} : bufferCall[d].block[1] \in overlapped'
    BY DEF Buffer!handleBufferedEth
<1>3. /\ b \in Buffer!Blocks /\ b[1] \in BufferStart..bufferHead /\ b[1] \in 5..MaxBlock
      /\ MaxBlock \in Nat /\ BufferStart \in Nat /\ prev4Blocks \in [1..4 -> Buffer!Blocks]
      /\ bufferCall[c] \in Asked /\ bufferCall \in [Checks -> Asked]
    BY <1>1, BufferNumbers DEF BufferInv, CallsAreOfBlocks
<1>4. r \in Asked /\ r.at = "buffer" /\ r.block = b
    <2>1. prev4Blocks[1] \in Buffer!Blocks /\ prev4Blocks[2] \in Buffer!Blocks
        BY <1>3
    <2>2. Buffer!compared(prev4Blocks).lo \in 0..MaxBlock /\ Buffer!compared(prev4Blocks).hi \in 0..MaxBlock
        BY <1>3, <2>1 DEF Buffer!compared, Buffer!Blocks
    <2> QED BY <1>3, <2>2 DEF Asked
<1>5. s \in Asked /\ s.at = "prev" /\ s.block = b
    BY <1>3 DEF Asked
<1>6. Buffer!followsCache(b) => prev4Blocks[4][1] = b[1] - 1
    BY <1>3 DEF Buffer!followsCache, Buffer!parent, Buffer!ancestor, Buffer!Depth
<1>7. Buffer!followsCache(b) => Buffer!disturbed(b[1] - 3) \/ ReadsAreTrue(r)
    BY <1>3, <1>4, <1>6, AsksOfWindow DEF BufferInv, ReadsAreTrue
<1>8. ReadsAreTrue(s)
    BY <1>5 DEF ReadsAreTrue
<1> HIDE DEF b, r, s
<1>9. PICK q \in {r, s} : /\ bufferCall' = [bufferCall EXCEPT ![c] = q]
                          /\ q = r => Buffer!followsCache(b)
    BY <1>1, <1>4, <1>5
<1>10. /\ bufferCall' \in [Checks -> Asked] /\ bufferCall'[c] = q /\ q.block = b
       /\ q.at \in {"buffer", "prev"}
       /\ q.at = "buffer" => prev4Blocks[4][1] = b[1] - 1
       /\ Buffer!disturbed(b[1] - 3) \/ ReadsAreTrue(q)
       /\ \A d \in Checks \ {c} : bufferCall'[d] = bufferCall[d]
    BY <1>3, <1>4, <1>5, <1>6, <1>7, <1>8, <1>9
<1>11. \A n : Buffer!disturbed(n) => Buffer!disturbed(n)'
    BY <1>2 DEF Buffer!disturbed
<1>12. Buffer!TypeOK'
    <2>1. \A d \in Buffer!besides(c) \union {c} : bufferCall[d].block[1] \in 1..MaxBlock
        <3> TAKE d \in Buffer!besides(c) \union {c}
        <3>1. d \in Checks /\ bufferCall[d].at # "idle"
            BY <1>1 DEF Buffer!besides, Buffer!checking
        <3>2. bufferCall[d].block \in Buffer!Blocks
            BY <3>1 DEF BufferInv, CallsAreOfBlocks
        <3> QED BY <3>2 DEF Buffer!Blocks
    <2>2. overlapped' \subseteq 1..MaxBlock
        BY <1>2, <2>1 DEF BufferInv, Buffer!TypeOK
    <2> QED BY <1>1, <1>10, <2>2 DEF BufferInv, Buffer!TypeOK, Buffer!Blocks, Asked
<1>13. WindowFollows' /\ ReportedIsDeep' /\ DrainIsTrue' /\ CallsAreOfBlocks'
    <2>1. WindowFollows' /\ ReportedIsDeep'
        BY <1>1, <1>2 DEF BufferInv, WindowFollows, ReportedIsDeep
    <2>2. DrainIsTrue'
        BY <1>1, <1>11 DEF BufferInv, DrainIsTrue, Buffer!DrainIsTrue, Buffer!onChain, Buffer!branchOf
    <2>3. CallsAreOfBlocks'
        BY <1>1, <1>10 DEF BufferInv, CallsAreOfBlocks, Buffer!Blocks, b
    <2> QED BY <2>1, <2>2, <2>3
<1>14. OverlapIsNoted'
    <2> SUFFICES ASSUME NEW d \in Checks, NEW e \in Checks, d # e,
                        Buffer!checking(d)', Buffer!checking(e)'
                 PROVE  bufferCall'[d].block[1] \in overlapped'
        BY DEF OverlapIsNoted
    <2>1. CASE d = c
        <3>1. e \in Buffer!besides(c)
            BY <1>10, <2>1 DEF Buffer!besides, Buffer!checking
        <3> QED BY <1>2, <1>10, <2>1, <3>1 DEF b
    <2>2. CASE e = c
        <3>1. d \in Buffer!besides(c)
            BY <1>10, <2>2 DEF Buffer!besides, Buffer!checking
        <3> QED BY <1>2, <1>10, <2>2, <3>1
    <2>3. CASE d # c /\ e # c
        BY <1>2, <1>10, <2>3 DEF BufferInv, OverlapIsNoted, Buffer!checking
    <2> QED BY <2>1, <2>2, <2>3
<1>15. CheckFollows'
    <2> SUFFICES ASSUME NEW d \in Checks, bufferCall'[d].at \in {"buffer", "events"},
                        bufferCall'[d].block[1] \notin overlapped'
                 PROVE  prev4Blocks[4][1] = bufferCall'[d].block[1] - 1
        BY <1>1 DEF CheckFollows
    <2>1. CASE d = c
        BY <1>10, <2>1
    <2>2. CASE d # c
        BY <1>2, <1>10, <2>2 DEF BufferInv, CheckFollows
    <2> QED BY <2>1, <2>2
<1>16. ChecksAreTrue'
    <2> SUFFICES ASSUME NEW d \in Checks, bufferCall'[d].at # "idle"
                 PROVE  \/ \E m \in bufferCall'[d].block[1] - 3..bufferCall'[d].block[1] - 3 + 2 : m \in overlapped'
                        \/ ReadsAreTrue(bufferCall'[d])
        BY <1>1 DEF ChecksAreTrue, ReadsAreTrue, Buffer!onChain, Buffer!branchOf, Buffer!disturbed
    <2> QED BY <1>2, <1>10 DEF BufferInv, ChecksAreTrue, Buffer!disturbed
<1>17. DrainIsChecked'
    BY <1>1, <1>10, <1>11 DEF BufferInv, DrainIsChecked, Buffer!onChain, Buffer!branchOf, b
<1> QED BY <1>12, <1>13, <1>14, <1>15, <1>16, <1>17 DEF BufferInv

(* The four blocks are read again.                                            *)
LEMMA ReadAgainBuffer ==
    ASSUME BufferInv, NEW c \in Checks, Buffer!prevAnswered(c)
    PROVE  BufferInv'
<1> DEFINE b == bufferCall[c].block
           four == Buffer!chainPrev(b)
           r == [at |-> "buffer", block |-> b, lo |-> b[1] - 4, hi |-> b[1] - 3]
<1>1. /\ bufferCall[c].at = "prev" /\ prev4Blocks' = four
      /\ Buffer!asksBuffer(c, b, prev4Blocks')
      /\ UNCHANGED <<bufferHead, forkAt, drain, delivered, running, reported, unchecked, overlapped>>
    BY DEF Buffer!prevAnswered, Buffer!chain
<1>2. /\ b \in Buffer!Blocks /\ b[1] \in BufferStart..bufferHead /\ b[1] \in 5..MaxBlock
      /\ MaxBlock \in Nat /\ BufferStart \in Nat
    BY <1>1, BufferNumbers DEF BufferInv, CallsAreOfBlocks
<1>3. four \in [1..4 -> Buffer!Blocks] /\ \A i \in 1..4 : four[i][1] = b[1] - 5 + i
    BY <1>2, ChainPrev DEF BufferInv
<1> HIDE DEF four, b
<1>4. four[1][1] = b[1] - 4 /\ four[2][1] = b[1] - 3 /\ four[3][1] = b[1] - 2 /\ four[4][1] = b[1] - 1
    BY <1>2, <1>3
<1>5. bufferCall' = [bufferCall EXCEPT ![c] = r]
    BY <1>1, <1>4 DEF Buffer!asksBuffer, Buffer!compared, Buffer!waiting
<1>6. r \in Asked /\ r.at = "buffer" /\ r.block = b /\ ReadsAreTrue(r)
    BY <1>2 DEF Asked, ReadsAreTrue
<1> HIDE DEF r
<1>7. /\ bufferCall' \in [Checks -> Asked] /\ bufferCall'[c] = r
      /\ \A d \in Checks \ {c} : bufferCall'[d] = bufferCall[d]
    BY <1>5, <1>6, BufferNumbers DEF BufferInv
<1>8. Buffer!TypeOK'
    BY <1>1, <1>3, <1>7 DEF BufferInv, Buffer!TypeOK, Buffer!Blocks, Buffer!Depth, Asked
<1>9. WindowFollows'
    <2>1. \A i \in 1..3 : four[i][1] = four[i + 1][1] - 1
        BY <1>2, <1>3
    <2> QED BY <1>1, <2>1 DEF WindowFollows
<1>10. ReportedIsDeep' /\ DrainIsTrue' /\ CallsAreOfBlocks'
    <2>1. ReportedIsDeep' /\ DrainIsTrue'
        BY <1>1 DEF BufferInv, ReportedIsDeep, DrainIsTrue, Buffer!DrainIsTrue,
                    Buffer!onChain, Buffer!branchOf, Buffer!disturbed
    <2>2. CallsAreOfBlocks'
        BY <1>1, <1>6, <1>7 DEF BufferInv, CallsAreOfBlocks, Buffer!Blocks, b
    <2> QED BY <2>1, <2>2
<1>11. OverlapIsNoted'
    BY <1>1, <1>6, <1>7 DEF BufferInv, OverlapIsNoted, Buffer!checking, b
<1>12. CheckFollows'
    <2> SUFFICES ASSUME NEW d \in Checks, bufferCall'[d].at \in {"buffer", "events"},
                        bufferCall'[d].block[1] \notin overlapped
                 PROVE  four[4][1] = bufferCall'[d].block[1] - 1
        BY <1>1 DEF CheckFollows
    <2>1. CASE d = c
        BY <1>4, <1>6, <1>7, <2>1
    <2>2. CASE d # c
        BY <1>1, <1>7, <2>2 DEF BufferInv, OverlapIsNoted, Buffer!checking
    <2> QED BY <2>1, <2>2
<1>13. ChecksAreTrue'
    BY <1>1, <1>6, <1>7 DEF BufferInv, ChecksAreTrue, ReadsAreTrue, Buffer!onChain, Buffer!branchOf, Buffer!disturbed
<1>14. DrainIsChecked'
    BY <1>1, <1>6, <1>7 DEF BufferInv, DrainIsChecked, Buffer!onChain, Buffer!branchOf, Buffer!disturbed, b
<1> QED BY <1>8, <1>9, <1>10, <1>11, <1>12, <1>13, <1>14 DEF BufferInv

(* A check ends, and its block enters the cache.                              *)
LEMMA EndedBuffer ==
    ASSUME BufferInv, NEW c \in Checks, bufferCall[c].at \in {"buffer", "events"}, NEW hi \in 0..MaxBlock,
           Buffer!ends(c, hi),
           UNCHANGED <<bufferHead, forkAt, drain, delivered, running, reported, unchecked, overlapped>>,
           LET n == bufferCall[c].block[1] - 3
           IN  \/ Buffer!disturbed(n)
               \/ /\ hi # 0 => hi = n /\ ~drain.explained /\ drain.block = Buffer!onChain(n)
                  /\ drain.block = Buffer!onChain(n) /\ ~drain.explained => hi = n
    PROVE  BufferInv'
<1> DEFINE b == bufferCall[c].block
           n == b[1] - 3
           four == Buffer!setPrevBlock(b)
           r == [at |-> "others", block |-> b, lo |-> 0, hi |-> hi]
<1>1. prev4Blocks' = four /\ bufferCall' = [bufferCall EXCEPT ![c] = r]
    BY DEF Buffer!ends, Buffer!waiting
<1>2. /\ b \in Buffer!Blocks /\ b[1] \in BufferStart..bufferHead /\ running
      /\ MaxBlock \in Nat /\ BufferStart \in Nat /\ BufferStart > 4 /\ bufferHead \in 1..MaxBlock
      /\ drain.block[1] \in 1..MaxBlock /\ n \in 1..MaxBlock /\ n + 3 = b[1]
    BY BufferNumbers DEF BufferInv, CallsAreOfBlocks
<1>3. four \in [1..4 -> Buffer!Blocks] /\ four[4] = b /\ \A i \in 1..3 : four[i] = prev4Blocks[i + 1]
    BY <1>2, SetPrevBlock DEF BufferInv
<1>4. r \in Asked /\ r.at = "others" /\ r.block = b /\ r.hi = hi
    BY <1>2 DEF Asked
<1>5. \/ Buffer!disturbed(n)
      \/ /\ hi # 0 => hi = n /\ ~drain.explained /\ drain.block = Buffer!onChain(n)
         /\ drain.block = Buffer!onChain(n) /\ ~drain.explained => hi = n
    OBVIOUS
<1>6. b[1] \in overlapped \/ prev4Blocks[4][1] = b[1] - 1
    BY DEF BufferInv, CheckFollows
<1> HIDE DEF four, r
<1>7. /\ bufferCall' \in [Checks -> Asked] /\ bufferCall'[c] = r
      /\ \A d \in Checks \ {c} : bufferCall'[d] = bufferCall[d]
    BY <1>1, <1>4, BufferNumbers DEF BufferInv
<1>8. Buffer!TypeOK'
    BY <1>1, <1>3, <1>7 DEF BufferInv, Buffer!TypeOK, Buffer!Blocks, Buffer!Depth, Asked
<1>9. WindowFollows'
    <2>1. four[4][1] \in overlapped \/ four[3][1] = four[4][1] - 1
        BY <1>3, <1>6
    <2>2. \A i \in 1..2 : four[i + 1][1] \in overlapped \/ four[i][1] = four[i + 1][1] - 1
        <3> TAKE i \in 1..2
        <3>1. i \in 1..3 /\ i + 1 \in 1..3
            OBVIOUS
        <3>2. four[i] = prev4Blocks[i + 1] /\ four[i + 1] = prev4Blocks[i + 1 + 1]
            BY <1>3, <3>1
        <3> QED BY <3>1, <3>2 DEF BufferInv, WindowFollows
    <2>3. \A i \in 1..3 : i \in 1..2 \/ (i = 3 /\ i + 1 = 4)
        OBVIOUS
    <2> QED BY <1>1, <2>1, <2>2, <2>3 DEF WindowFollows
<1>10. ReportedIsDeep' /\ DrainIsTrue' /\ CallsAreOfBlocks'
    <2>1. ReportedIsDeep' /\ DrainIsTrue'
        BY DEF BufferInv, ReportedIsDeep, DrainIsTrue, Buffer!DrainIsTrue,
               Buffer!onChain, Buffer!branchOf, Buffer!disturbed
    <2>2. CallsAreOfBlocks'
        BY <1>2, <1>4, <1>7 DEF BufferInv, CallsAreOfBlocks, Buffer!Blocks
    <2> QED BY <2>1, <2>2
<1>11. OverlapIsNoted'
    BY <1>4, <1>7 DEF BufferInv, OverlapIsNoted, Buffer!checking
<1>12. CheckFollows'
    <2> SUFFICES ASSUME NEW d \in Checks, bufferCall'[d].at \in {"buffer", "events"},
                        bufferCall'[d].block[1] \notin overlapped
                 PROVE  FALSE
        BY DEF CheckFollows
    <2> QED BY <1>4, <1>7 DEF BufferInv, OverlapIsNoted, Buffer!checking
<1>13. ChecksAreTrue'
    <2>1. Buffer!disturbed(n) \/ ReadsAreTrue(r)
        BY <1>4, <1>5 DEF ReadsAreTrue
    <2> QED BY <1>4, <1>7, <2>1 DEF BufferInv, ChecksAreTrue, ReadsAreTrue, Buffer!onChain, Buffer!branchOf, Buffer!disturbed
<1>14. DrainIsChecked'
    <2> DEFINE k == drain.block[1]
    <2> SUFFICES ASSUME Buffer!onChain(k) = drain.block, ~drain.explained, delivered >= k + 3
                 PROVE  \/ <<k, k + 3>> \in reported \/ k \in unchecked \/ Buffer!disturbed(k)
                        \/ \E d \in Checks : LET s == bufferCall'[d]
                                             IN  s.at # "idle" /\ s.block[1] = k + 3 /\ (s.at = "others" => s.hi = k)
        BY DEF DrainIsChecked, Buffer!onChain, Buffer!branchOf, Buffer!disturbed
    <2>1. CASE b[1] = k + 3
        <3>1. k = n
            BY <1>2, <2>1
        <3> QED BY <1>4, <1>5, <1>7, <2>1, <3>1
    <2>2. CASE b[1] # k + 3
        BY <1>7, <2>2 DEF BufferInv, DrainIsChecked
    <2> QED BY <2>1, <2>2
<1> QED BY <1>8, <1>9, <1>10, <1>11, <1>12, <1>13, <1>14 DEF BufferInv

(* The buffers have come: the check ends, or goes on with the events.         *)
LEMMA AnsweredBuffer ==
    ASSUME BufferInv, NEW c \in Checks, Buffer!bufferAnswered(c)
    PROVE  BufferInv'
<1> DEFINE q == bufferCall[c]
           b == q.block
           n == b[1] - 3
           r == [at |-> "events", block |-> b, lo |-> q.lo, hi |-> q.hi]
<1>1. /\ q.at = "buffer"
      /\ \/ FALSE \in Buffer!less(q.lo, q.hi) /\ Buffer!ends(c, 0)
         \/ /\ TRUE \in Buffer!less(q.lo, q.hi)
            /\ bufferCall' = [bufferCall EXCEPT ![c] = r] /\ UNCHANGED prev4Blocks
      /\ UNCHANGED <<bufferHead, forkAt, drain, delivered, running, reported, unchecked, overlapped>>
    BY DEF Buffer!bufferAnswered, Buffer!waiting, Buffer!chain
<1>2. /\ b \in Buffer!Blocks /\ b[1] \in BufferStart..bufferHead /\ running
      /\ MaxBlock \in Nat /\ BufferStart \in Nat /\ BufferStart > 4 /\ bufferHead \in 1..MaxBlock
      /\ q \in Asked /\ 0 \in 0..MaxBlock
    BY <1>1, BufferNumbers DEF BufferInv, CallsAreOfBlocks
<1>3. \/ Buffer!disturbed(n)
      \/ q.lo = b[1] - 4 /\ q.hi = n /\ Buffer!less(q.lo, q.hi) = {Buffer!onChain(n) = drain.block}
    <2>1. Buffer!disturbed(n) \/ (q.lo = b[1] - 4 /\ q.hi = n)
        BY <1>1 DEF BufferInv, ChecksAreTrue, ReadsAreTrue
    <2>2. b[1] - 3 = b[1] - 4 + 1
        BY <1>2
    <2>3. q.lo = b[1] - 4 /\ q.hi = n => Buffer!less(q.lo, q.hi) = {Buffer!onChain(n) = drain.block}
        BY <2>2 DEF Buffer!less
    <2> QED BY <2>1, <2>3
<1>4. CASE FALSE \in Buffer!less(q.lo, q.hi) /\ Buffer!ends(c, 0)
    <2>1. Buffer!disturbed(n) \/ ~(drain.block = Buffer!onChain(n))
        BY <1>3, <1>4
    <2> QED BY <1>1, <1>2, <1>4, <2>1, EndedBuffer
<1>5. CASE /\ TRUE \in Buffer!less(q.lo, q.hi)
           /\ bufferCall' = [bufferCall EXCEPT ![c] = r] /\ UNCHANGED prev4Blocks
    <2>1. r \in Asked /\ r.at = "events" /\ r.block = b /\ r.lo = q.lo /\ r.hi = q.hi
        BY <1>2 DEF Asked
    <2>2. Buffer!disturbed(n) \/ ReadsAreTrue(r)
        <3>1. Buffer!disturbed(n) \/ (q.lo = b[1] - 4 /\ q.hi = n /\ Buffer!onChain(n) = drain.block)
            BY <1>3, <1>5
        <3> QED BY <2>1, <3>1 DEF ReadsAreTrue
    <2> HIDE DEF r
    <2>3. /\ bufferCall' \in [Checks -> Asked] /\ bufferCall'[c] = r
          /\ \A d \in Checks \ {c} : bufferCall'[d] = bufferCall[d]
        BY <1>5, <2>1, BufferNumbers DEF BufferInv
    <2>4. Buffer!TypeOK' /\ WindowFollows' /\ ReportedIsDeep' /\ DrainIsTrue'
        BY <1>1, <1>5, <2>3 DEF BufferInv, Buffer!TypeOK, Buffer!Blocks, Asked, WindowFollows, ReportedIsDeep,
                    DrainIsTrue, Buffer!DrainIsTrue, Buffer!onChain, Buffer!branchOf, Buffer!disturbed
    <2>5. CallsAreOfBlocks' /\ OverlapIsNoted'
        BY <1>1, <1>2, <2>1, <2>3 DEF BufferInv, CallsAreOfBlocks, OverlapIsNoted, Buffer!checking, Buffer!Blocks
    <2>6. CheckFollows'
        BY <1>1, <1>5, <2>1, <2>3 DEF BufferInv, CheckFollows
    <2>7. ChecksAreTrue'
        BY <1>1, <2>1, <2>2, <2>3 DEF BufferInv, ChecksAreTrue, ReadsAreTrue, Buffer!onChain, Buffer!branchOf,
                                      Buffer!disturbed
    <2>8. DrainIsChecked'
        BY <1>1, <2>1, <2>3 DEF BufferInv, DrainIsChecked, Buffer!onChain, Buffer!branchOf, Buffer!disturbed
    <2> QED BY <2>4, <2>5, <2>6, <2>7, <2>8 DEF BufferInv
<1> QED BY <1>1, <1>4, <1>5

(* The events have come: of the drain, whether it is explained.               *)
LEMMA EventsBuffer ==
    ASSUME BufferInv, NEW c \in Checks, Buffer!eventsAnswered(c)
    PROVE  BufferInv'
<1> DEFINE q == bufferCall[c]
           n == q.block[1] - 3
<1>1. PICK explained \in Buffer!events(q.hi) : Buffer!ends(c, IF explained THEN 0 ELSE q.hi)
    BY DEF Buffer!eventsAnswered
<1>2. /\ q.at = "events"
      /\ UNCHANGED <<bufferHead, forkAt, drain, delivered, running, reported, unchecked, overlapped>>
    BY DEF Buffer!eventsAnswered, Buffer!chain
<1>3. q \in Asked /\ MaxBlock \in Nat
    BY BufferNumbers DEF BufferInv
<1> DEFINE hi == IF explained THEN 0 ELSE q.hi
<1>4. hi \in 0..MaxBlock
    BY <1>3 DEF Asked
<1>5. \/ Buffer!disturbed(n)
      \/ q.hi = n /\ Buffer!onChain(n) = drain.block /\ explained = drain.explained
    BY <1>2 DEF BufferInv, ChecksAreTrue, ReadsAreTrue, Buffer!events
<1>6. drain.explained \in BOOLEAN
    BY BufferNumbers DEF BufferInv
<1>7. \/ Buffer!disturbed(n)
      \/ /\ hi # 0 => hi = n /\ ~drain.explained /\ drain.block = Buffer!onChain(n)
         /\ drain.block = Buffer!onChain(n) /\ ~drain.explained => hi = n
    BY <1>5, <1>6
<1>8. Buffer!ends(c, hi)
    BY <1>1
<1> HIDE DEF hi
<1> QED BY <1>2, <1>4, <1>7, <1>8, EndedBuffer

LEMMA FailsBuffer ==
    ASSUME BufferInv, NEW c \in Checks, Buffer!fails(c)
    PROVE  BufferInv'
<1> DEFINE b == bufferCall[c].block
           r == [at |-> "others", block |-> b, lo |-> 0, hi |-> 0]
<1>1. /\ bufferCall[c].at # "idle"
      /\ unchecked' = unchecked \union {Buffer!checkOf(b)}
      /\ bufferCall' = [bufferCall EXCEPT ![c] = r]
      /\ UNCHANGED <<bufferHead, forkAt, drain, delivered, running, prev4Blocks, reported, overlapped>>
    BY DEF Buffer!fails, Buffer!checking, Buffer!waiting, Buffer!chain
<1>2. /\ b \in Buffer!Blocks /\ b[1] \in BufferStart..bufferHead /\ running
      /\ MaxBlock \in Nat /\ BufferStart \in Nat /\ BufferStart > 4 /\ bufferHead \in 1..MaxBlock
      /\ drain.block[1] \in 1..MaxBlock
    BY <1>1, BufferNumbers DEF BufferInv, CallsAreOfBlocks
<1>3. r \in Asked /\ r.at = "others" /\ r.block = b /\ r.hi = 0
    BY <1>2 DEF Asked
<1>4. Buffer!checkOf(b) = b[1] - 3 /\ b[1] - 3 \in 1..MaxBlock
    BY <1>2 DEF Buffer!checkOf, Buffer!Depth
<1> HIDE DEF r
<1>5. /\ bufferCall' \in [Checks -> Asked] /\ bufferCall'[c] = r
      /\ \A d \in Checks \ {c} : bufferCall'[d] = bufferCall[d]
    BY <1>1, <1>3, BufferNumbers DEF BufferInv
<1>6. Buffer!TypeOK'
    BY <1>1, <1>4, <1>5 DEF BufferInv, Buffer!TypeOK, Buffer!Blocks, Asked
<1>7. WindowFollows' /\ ReportedIsDeep' /\ DrainIsTrue'
    BY <1>1 DEF BufferInv, WindowFollows, ReportedIsDeep, DrainIsTrue, Buffer!DrainIsTrue, Buffer!onChain,
                Buffer!branchOf, Buffer!disturbed
<1>8. CallsAreOfBlocks' /\ OverlapIsNoted' /\ CheckFollows'
    BY <1>1, <1>2, <1>3, <1>5 DEF BufferInv, CallsAreOfBlocks, OverlapIsNoted, CheckFollows, Buffer!checking,
                Buffer!Blocks
<1>9. ChecksAreTrue'
    <2>1. ReadsAreTrue(r)
        BY <1>3 DEF ReadsAreTrue
    <2> QED BY <1>1, <1>3, <1>5, <2>1 DEF BufferInv, ChecksAreTrue, ReadsAreTrue, Buffer!onChain, Buffer!branchOf,
                Buffer!disturbed
<1>10. DrainIsChecked'
    <2> DEFINE k == drain.block[1]
    <2> SUFFICES ASSUME Buffer!onChain(k) = drain.block, ~drain.explained, delivered >= k + 3
                 PROVE  \/ <<k, k + 3>> \in reported \/ k \in unchecked' \/ Buffer!disturbed(k)
                        \/ \E d \in Checks : LET s == bufferCall'[d]
                                             IN  s.at # "idle" /\ s.block[1] = k + 3 /\ (s.at = "others" => s.hi = k)
        BY <1>1 DEF DrainIsChecked, Buffer!onChain, Buffer!branchOf, Buffer!disturbed
    <2>1. CASE b[1] = k + 3
        BY <1>1, <1>2, <1>4, <2>1
    <2>2. CASE b[1] # k + 3
        BY <1>1, <1>5, <2>2 DEF BufferInv, DrainIsChecked
    <2> QED BY <2>1, <2>2
<1> QED BY <1>6, <1>7, <1>8, <1>9, <1>10 DEF BufferInv

(* A call that is answered.                                                   *)
LEMMA LeftBuffer ==
    ASSUME BufferInv, NEW c \in Checks, Buffer!answers(c)
    PROVE  BufferInv'
<1> DEFINE q == bufferCall[c]
           n == q.block[1] - 3
<1>1. /\ q.at = "others"
      /\ reported' = (IF q.hi = 0 THEN reported ELSE reported \union {<<q.hi, q.block[1]>>})
      /\ bufferCall' = [bufferCall EXCEPT ![c] = Buffer!Idle]
      /\ UNCHANGED <<bufferHead, forkAt, drain, delivered, running, prev4Blocks, unchecked, overlapped>>
    BY DEF Buffer!answers, Buffer!chain
<1>2. /\ q.block \in Buffer!Blocks /\ q.block[1] \in BufferStart..bufferHead /\ q \in Asked
      /\ MaxBlock \in Nat /\ BufferStart \in Nat /\ BufferStart > 4 /\ bufferHead \in 1..MaxBlock
      /\ drain.block[1] \in 1..MaxBlock /\ q.block[1] \in 1..MaxBlock
    BY <1>1, BufferNumbers DEF BufferInv, CallsAreOfBlocks
<1>3. Buffer!Idle \in Asked /\ Buffer!Idle.at = "idle"
    BY <1>2 DEF Buffer!Idle, Buffer!waiting, Asked
<1>4. /\ bufferCall' \in [Checks -> Asked] /\ bufferCall'[c].at = "idle"
      /\ \A d \in Checks \ {c} : bufferCall'[d] = bufferCall[d]
    BY <1>1, <1>3, BufferNumbers DEF BufferInv
<1>5. q.hi # 0 => <<q.hi, q.block[1]>> \in (1..MaxBlock) \X (1..MaxBlock)
    BY <1>2 DEF Asked
<1>6. Buffer!TypeOK'
    <2>1. reported' \subseteq (1..MaxBlock) \X (1..MaxBlock)
        BY <1>1, <1>5 DEF BufferInv, Buffer!TypeOK
    <2> QED BY <1>1, <1>4, <2>1 DEF BufferInv, Buffer!TypeOK, Buffer!Blocks, Asked
<1>7. WindowFollows' /\ CallsAreOfBlocks' /\ OverlapIsNoted' /\ CheckFollows'
    BY <1>1, <1>4 DEF BufferInv, WindowFollows, CallsAreOfBlocks, OverlapIsNoted, CheckFollows, Buffer!checking,
                Buffer!Blocks
<1>8. ChecksAreTrue'
    BY <1>1, <1>4 DEF BufferInv, ChecksAreTrue, ReadsAreTrue, Buffer!onChain, Buffer!branchOf, Buffer!disturbed
<1>9. ReportedIsDeep'
    BY <1>1, <1>2 DEF BufferInv, ReportedIsDeep
<1>10. DrainIsTrue'
    <2>1. q.hi # 0 => \/ Buffer!disturbed(n)
                      \/ q.hi = n /\ ~drain.explained /\ drain.block = Buffer!onChain(n)
        BY <1>1 DEF BufferInv, ChecksAreTrue, ReadsAreTrue
    <2>2. q.block[1] - 4 + 1 = n
        BY <1>2
    <2>3. \A r \in reported' \ reported : r[1] = q.hi /\ r[2] = q.block[1] /\ q.hi # 0
        BY <1>1
    <2> QED BY <1>1, <2>1, <2>2, <2>3 DEF BufferInv, DrainIsTrue, Buffer!DrainIsTrue, Buffer!onChain,
                Buffer!branchOf, Buffer!disturbed, Buffer!Depth
<1>11. DrainIsChecked'
    <2> DEFINE k == drain.block[1]
    <2> SUFFICES ASSUME Buffer!onChain(k) = drain.block, ~drain.explained, delivered >= k + 3
                 PROVE  \/ <<k, k + 3>> \in reported' \/ k \in unchecked \/ Buffer!disturbed(k)
                        \/ \E d \in Checks : LET s == bufferCall'[d]
                                             IN  s.at # "idle" /\ s.block[1] = k + 3 /\ (s.at = "others" => s.hi = k)
        BY <1>1 DEF DrainIsChecked, Buffer!onChain, Buffer!branchOf, Buffer!disturbed
    <2>1. CASE q.block[1] = k + 3 /\ q.hi = k
        BY <1>1, <1>2, <2>1
    <2>2. CASE ~(q.block[1] = k + 3 /\ q.hi = k)
        BY <1>1, <1>4, <2>2 DEF BufferInv, DrainIsChecked
    <2> QED BY <2>1, <2>2
<1> QED BY <1>6, <1>7, <1>8, <1>9, <1>10, <1>11 DEF BufferInv

(* The process ends: every check that was open is lost.                       *)
LEMMA ThrownBuffer ==
    ASSUME BufferInv, NEW c \in Checks, Buffer!throws(c)
    PROVE  BufferInv'
<1> DEFINE lost == {Buffer!checkOf(bufferCall[d].block) : d \in {d \in Checks : bufferCall[d].at # "idle"}}
<1>1. /\ unchecked' = unchecked \union lost
      /\ bufferCall' = [d \in Checks |-> Buffer!Idle] /\ running' = FALSE
      /\ UNCHANGED <<bufferHead, forkAt, drain, delivered, prev4Blocks, reported, overlapped>>
    BY DEF Buffer!throws, Buffer!chain
<1>2. /\ MaxBlock \in Nat /\ BufferStart \in Nat /\ BufferStart > 4 /\ bufferHead \in 1..MaxBlock
      /\ drain.block[1] \in 1..MaxBlock
    BY BufferNumbers DEF BufferInv
<1>3. \A d \in Checks : bufferCall[d].at # "idle" =>
          /\ Buffer!checkOf(bufferCall[d].block) = bufferCall[d].block[1] - 3
          /\ bufferCall[d].block[1] \in Int /\ bufferCall[d].block[1] - 3 \in 1..MaxBlock
    <2> SUFFICES ASSUME NEW d \in Checks, bufferCall[d].at # "idle"
                 PROVE  /\ Buffer!checkOf(bufferCall[d].block) = bufferCall[d].block[1] - 3
                        /\ bufferCall[d].block[1] \in Int /\ bufferCall[d].block[1] - 3 \in 1..MaxBlock
        OBVIOUS
    <2>1. bufferCall[d].block[1] \in BufferStart..bufferHead
        BY DEF BufferInv, CallsAreOfBlocks
    <2> QED BY <1>2, <2>1 DEF Buffer!checkOf, Buffer!Depth
<1>4. \A d \in Checks : bufferCall'[d] = Buffer!Idle /\ bufferCall'[d].at = "idle"
    BY <1>1 DEF Buffer!Idle, Buffer!waiting
<1>5. Buffer!TypeOK'
    <2>1. Buffer!Idle \in Asked
        BY <1>2 DEF Buffer!Idle, Buffer!waiting, Asked
    <2>2. lost \subseteq 1..MaxBlock
        <3>1. \A d \in Checks : bufferCall[d].at # "idle" => Buffer!checkOf(bufferCall[d].block) \in 1..MaxBlock
            BY <1>3
        <3> QED BY <3>1
    <2>3. unchecked' \subseteq 1..MaxBlock
        BY <1>1, <2>2 DEF BufferInv, Buffer!TypeOK
    <2> QED BY <1>1, <2>1, <2>3 DEF BufferInv, Buffer!TypeOK, Buffer!Blocks, Asked
<1>6. WindowFollows' /\ CallsAreOfBlocks' /\ OverlapIsNoted' /\ CheckFollows' /\ ChecksAreTrue'
    BY <1>1, <1>4 DEF BufferInv, WindowFollows, CallsAreOfBlocks, OverlapIsNoted, CheckFollows, ChecksAreTrue,
                Buffer!checking
<1>7. ReportedIsDeep' /\ DrainIsTrue'
    BY <1>1 DEF BufferInv, ReportedIsDeep, DrainIsTrue, Buffer!DrainIsTrue, Buffer!onChain, Buffer!branchOf,
                Buffer!disturbed
<1>8. DrainIsChecked'
    <2> DEFINE k == drain.block[1]
    <2> SUFFICES ASSUME Buffer!onChain(k) = drain.block, ~drain.explained, delivered >= k + 3
                 PROVE  <<k, k + 3>> \in reported \/ k \in unchecked' \/ Buffer!disturbed(k)
        BY <1>1 DEF DrainIsChecked, Buffer!onChain, Buffer!branchOf, Buffer!disturbed
    <2>1. ASSUME NEW d \in Checks, bufferCall[d].at # "idle", bufferCall[d].block[1] = k + 3
          PROVE  k \in unchecked'
        <3>1. Buffer!checkOf(bufferCall[d].block) = k
            BY <1>2, <1>3, <2>1
        <3> QED BY <1>1, <2>1, <3>1
    <2> QED BY <1>1, <2>1 DEF BufferInv, DrainIsChecked
<1> QED BY <1>5, <1>6, <1>7, <1>8 DEF BufferInv

(* The process starts again: no call is open.                                 *)
LEMMA StartedBuffer ==
    ASSUME BufferInv, Buffer!initialize
    PROVE  BufferInv'
<1> DEFINE b == Buffer!onChain(bufferHead)
           four == Buffer!chainPrev(b)
<1>1. /\ ~running /\ running' = TRUE /\ prev4Blocks' = four
      /\ UNCHANGED <<bufferHead, forkAt, drain, delivered, bufferCall, reported, unchecked, overlapped>>
    BY DEF Buffer!initialize, Buffer!chain
<1>2. /\ bufferHead \in 1..MaxBlock /\ bufferHead >= BufferStart /\ MaxBlock \in Nat /\ BufferStart \in Nat
      /\ BufferStart > 4
    BY BufferNumbers DEF BufferInv, CallsAreOfBlocks
<1>3. b \in Buffer!Blocks /\ b[1] = bufferHead
    BY <1>2 DEF Buffer!onChain, Buffer!Blocks, Buffer!branchOf
<1> HIDE DEF b
<1>4. four \in [1..4 -> Buffer!Blocks] /\ \A i \in 1..4 : four[i][1] = b[1] - 5 + i
    BY <1>2, <1>3, ChainPrev DEF BufferInv
<1> HIDE DEF four
<1>5. \A c \in Checks : bufferCall[c].at = "idle"
    BY <1>1 DEF BufferInv, CallsAreOfBlocks
<1>6. Buffer!TypeOK'
    BY <1>1, <1>4 DEF BufferInv, Buffer!TypeOK, Buffer!Blocks, Buffer!Depth
<1>7. WindowFollows'
    <2>1. \A i \in 1..3 : four[i][1] = four[i + 1][1] - 1
        BY <1>2, <1>3, <1>4
    <2> QED BY <1>1, <2>1 DEF WindowFollows
<1>8. CallsAreOfBlocks' /\ OverlapIsNoted' /\ CheckFollows' /\ ChecksAreTrue'
    BY <1>1, <1>5 DEF BufferInv, CallsAreOfBlocks, OverlapIsNoted, CheckFollows, ChecksAreTrue, Buffer!checking
<1>9. ReportedIsDeep' /\ DrainIsTrue' /\ DrainIsChecked'
    BY <1>1 DEF BufferInv, ReportedIsDeep, DrainIsTrue, Buffer!DrainIsTrue, DrainIsChecked, Buffer!onChain,
                Buffer!branchOf, Buffer!disturbed
<1> QED BY <1>6, <1>7, <1>8, <1>9 DEF BufferInv

LEMMA BufferNext ==
    ASSUME BufferInv, [Buffer!Next]_(Buffer!vars)
    PROVE  BufferInv'
<1>1. CASE UNCHANGED Buffer!vars
    <2> USE <1>1 DEF Buffer!vars, Buffer!chain
    <2>1. Buffer!TypeOK' /\ WindowFollows' /\ CallsAreOfBlocks' /\ OverlapIsNoted' /\ CheckFollows'
        BY DEF BufferInv, Buffer!TypeOK, Buffer!Blocks, WindowFollows, CallsAreOfBlocks, OverlapIsNoted,
               CheckFollows, Buffer!checking
    <2>2. ChecksAreTrue' /\ ReportedIsDeep' /\ DrainIsTrue' /\ DrainIsChecked'
        BY DEF BufferInv, ChecksAreTrue, ReadsAreTrue, ReportedIsDeep, DrainIsTrue, Buffer!DrainIsTrue,
               DrainIsChecked, Buffer!onChain, Buffer!branchOf, Buffer!disturbed
    <2> QED BY <2>1, <2>2 DEF BufferInv
<1> QED BY <1>1, NewBlockBuffer, ReorganisedBuffer, StartedBuffer, GivenBuffer, AskedBuffer, ReadAgainBuffer,
           AnsweredBuffer, EventsBuffer, FailsBuffer, LeftBuffer, ThrownBuffer DEF Buffer!Next

LEMMA BufferStays == Buffer!Spec => []BufferInv
BY BufferInit, BufferNext, PTL DEF Buffer!Spec

(* However many calls overlap, and wherever the process ends: a decrease of   *)
(* the buffer that no event explains is reported once the third block after   *)
(* it was answered, unless its check is lost or the cache was disturbed by    *)
(* checks of the three blocks before that overlapped.                         *)
THEOREM DrainIsReportedCorrect == Buffer!Spec => []DrainIsReported
<1>1. BufferInv => DrainIsReported
    <2> SUFFICES ASSUME BufferInv PROVE DrainIsReported
        OBVIOUS
    <2>1. drain.block[1] + 4 - 1 = drain.block[1] + 3
        BY BufferNumbers DEF BufferInv
    <2> QED BY <2>1 DEF BufferInv, DrainIsChecked, DrainIsReported, Buffer!DrainIsReported, Buffer!Quiet, Buffer!Depth
<1> QED BY BufferStays, <1>1, PTL

(* And what is reported is so, unless the cache was disturbed in the same     *)
(* way: it is the block to be checked, and stays on the chain.                *)
THEOREM DrainIsTrueCorrect == Buffer!Spec => []DrainIsTrue
<1>1. BufferInv => DrainIsTrue
    BY DEF BufferInv
<1> QED BY BufferStays, <1>1, PTL

-----------------------------------------------------------------------------
(* The withdrawals, with the constants of their table, with those of their    *)
(* alerts and with those of the rebases: what is proved of them for any       *)
(* constants holds of all three.                                              *)
TableProofs == INSTANCE StethWithdrawals_proofs WITH
    TwoWeeks <- RequestWeeks, Epoch <- QueueEpoch, MaxBlocks <- QueueBlocks

AlertProofs == INSTANCE StethWithdrawals_proofs WITH
    Calls <- AlertCalls, FiveDays <- AlertDays, TwoWeeks <- RequestWeeks,
    Kinds <- AlertKinds, Due <- AlertDue, Epoch <- QueueEpoch, MaxBlocks <- QueueBlocks

RebaseProofs == INSTANCE StethWithdrawals_proofs WITH
    Calls <- AlertCalls, TwoWeeks <- RequestWeeks, BigSum <- 1, Kinds <- {"request", "report"},
    Due <- {}, Epoch <- QueueEpoch, MaxRequests <- MaxRequests + 1, MaxBlocks <- QueueBlocks + 2

(* Their definitions are those of the module they are about.                  *)
LEMMA TableProofsSame ==
    /\ Requests!WithdrawalsAssumption <=> TableProofs!WithdrawalsAssumption
    /\ Requests!Init <=> TableProofs!Init
    /\ [Requests!Next]_(Requests!vars) <=> [TableProofs!Next]_(TableProofs!vars)
    /\ Requests!TypeOK <=> TableProofs!TypeOK
    /\ Requests!AlertsLeave <=> TableProofs!AlertsLeave
    /\ Requests!TableIsTrue <=> TableProofs!TableIsTrue
    /\ Requests!NoRequestIsMissed <=> TableProofs!NoRequestIsMissed
    /\ Requests!ClaimsAreNoticed <=> TableProofs!ClaimsAreNoticed
<1> USE DEF Requests!cache, Requests!node, Requests!stored, Requests!alerts, Requests!Requests,
           Requests!Daily, Requests!Alert, Requests!NoTx, Requests!Closed, Requests!head,
           Requests!time, Requests!status, Requests!timestamp, Requests!transactions,
           Requests!after, Requests!upsert, Requests!createOrUpdate, Requests!reached,
           Requests!setFinalizedRequests, Requests!setWithdrawalRequestClaimed,
           Requests!getUnclaimedReqIds, Requests!getLastRequestId, Requests!finalizedRows,
           Requests!unfinalizedRows, Requests!goesOn, Requests!check, Requests!fails,
           Requests!isOutdated, Requests!mayAlert, Requests!alerted, Requests!dueAlerts,
           Requests!isLongQueue, Requests!isOld, Requests!isOldClaimed, Requests!losesRate,
           Requests!bunkerModeAfter, Requests!claimsCounted, Requests!awaits, Requests!Min,
           Requests!Max, Requests!Cardinality, TableProofs!cache, TableProofs!node,
           TableProofs!stored, TableProofs!alerts, TableProofs!Requests, TableProofs!Daily,
           TableProofs!Alert, TableProofs!NoTx, TableProofs!Closed, TableProofs!head,
           TableProofs!time, TableProofs!status, TableProofs!timestamp, TableProofs!transactions,
           TableProofs!after, TableProofs!upsert, TableProofs!createOrUpdate, TableProofs!reached,
           TableProofs!setFinalizedRequests, TableProofs!setWithdrawalRequestClaimed,
           TableProofs!getUnclaimedReqIds, TableProofs!getLastRequestId, TableProofs!finalizedRows,
           TableProofs!unfinalizedRows, TableProofs!goesOn, TableProofs!check, TableProofs!fails,
           TableProofs!isOutdated, TableProofs!mayAlert, TableProofs!alerted, TableProofs!dueAlerts,
           TableProofs!isLongQueue, TableProofs!isOld, TableProofs!isOldClaimed,
           TableProofs!losesRate, TableProofs!bunkerModeAfter, TableProofs!claimsCounted,
           TableProofs!awaits, TableProofs!Min, TableProofs!Max, TableProofs!Cardinality
<1>1. Requests!initialize <=> TableProofs!initialize
    BY DEF Requests!initialize, TableProofs!initialize
<1>2. Requests!nextBlock <=> TableProofs!nextBlock
    BY DEF Requests!nextBlock, TableProofs!nextBlock
<1>3. ASSUME NEW c \in Calls PROVE Requests!handleBlock(c) <=> TableProofs!handleBlock(c)
    BY DEF Requests!handleBlock, TableProofs!handleBlock
<1>4. ASSUME NEW c \in Calls PROVE Requests!lastRequestIdRead(c) <=> TableProofs!lastRequestIdRead(c)
    BY DEF Requests!lastRequestIdRead, TableProofs!lastRequestIdRead
<1>5. ASSUME NEW c \in Calls PROVE Requests!refresh(c) <=> TableProofs!refresh(c)
    BY DEF Requests!refresh, TableProofs!refresh
<1>6. ASSUME NEW c \in Calls PROVE Requests!handleQueueOnParWithStakeLimit(c) <=> TableProofs!handleQueueOnParWithStakeLimit(c)
    BY DEF Requests!handleQueueOnParWithStakeLimit, TableProofs!handleQueueOnParWithStakeLimit
<1>7. ASSUME NEW c \in Calls PROVE Requests!unfinalizedRead(c) <=> TableProofs!unfinalizedRead(c)
    BY DEF Requests!unfinalizedRead, TableProofs!unfinalizedRead
<1>8. ASSUME NEW c \in Calls PROVE Requests!handleUnfinalizedRequestNumber(c) <=> TableProofs!handleUnfinalizedRequestNumber(c)
    BY DEF Requests!handleUnfinalizedRequestNumber, TableProofs!handleUnfinalizedRequestNumber
<1>9. ASSUME NEW c \in Calls PROVE Requests!scanFails(c) <=> TableProofs!scanFails(c)
    BY DEF Requests!scanFails, TableProofs!scanFails
<1>10. ASSUME NEW c \in Calls PROVE Requests!unclaimedRead(c) <=> TableProofs!unclaimedRead(c)
    BY DEF Requests!unclaimedRead, TableProofs!unclaimedRead
<1>11. ASSUME NEW c \in Calls PROVE Requests!unclaimedWritten(c) <=> TableProofs!unclaimedWritten(c)
    BY DEF Requests!unclaimedWritten, TableProofs!unclaimedWritten
<1>12. ASSUME NEW c \in Calls PROVE Requests!finalizedRead(c) <=> TableProofs!finalizedRead(c)
    BY DEF Requests!finalizedRead, TableProofs!finalizedRead
<1>13. ASSUME NEW c \in Calls PROVE Requests!removed(c) <=> TableProofs!removed(c)
    BY DEF Requests!removed, TableProofs!removed
<1>14. ASSUME NEW c \in Calls PROVE Requests!balanceFails(c) <=> TableProofs!balanceFails(c)
    BY DEF Requests!balanceFails, TableProofs!balanceFails
<1>15. ASSUME NEW c \in Calls PROVE Requests!balanceAnswered(c) <=> TableProofs!balanceAnswered(c)
    BY DEF Requests!balanceAnswered, TableProofs!balanceAnswered
<1>16. ASSUME NEW c \in Calls PROVE Requests!handleTransaction(c) <=> TableProofs!handleTransaction(c)
    BY DEF Requests!handleTransaction, TableProofs!handleTransaction
<1>17. ASSUME NEW c \in Calls PROVE Requests!transactionFails(c) <=> TableProofs!transactionFails(c)
    BY DEF Requests!transactionFails, TableProofs!transactionFails
<1>18. ASSUME NEW c \in Calls PROVE Requests!handleWithdrawalFinalized(c) <=> TableProofs!handleWithdrawalFinalized(c)
    BY DEF Requests!handleWithdrawalFinalized, TableProofs!handleWithdrawalFinalized
<1>19. ASSUME NEW c \in Calls PROVE Requests!handleWithdrawalRequest(c) <=> TableProofs!handleWithdrawalRequest(c)
    BY DEF Requests!handleWithdrawalRequest, TableProofs!handleWithdrawalRequest
<1>20. ASSUME NEW c \in Calls PROVE Requests!claimsRead(c) <=> TableProofs!claimsRead(c)
    BY DEF Requests!claimsRead, TableProofs!claimsRead
<1>21. ASSUME NEW c \in Calls PROVE Requests!handleWithdrawalClaimed(c) <=> TableProofs!handleWithdrawalClaimed(c)
    BY DEF Requests!handleWithdrawalClaimed, TableProofs!handleWithdrawalClaimed
<1>22. Requests!Next <=> TableProofs!Next
    BY <1>1, <1>2, <1>3, <1>4, <1>5, <1>6, <1>7, <1>8, <1>9, <1>10, <1>11, <1>12, <1>13, <1>14,
    <1>15, <1>16, <1>17, <1>18, <1>19, <1>20, <1>21 DEF Requests!Next, TableProofs!Next
<1>23. [Requests!Next]_(Requests!vars) <=> [TableProofs!Next]_(TableProofs!vars)
    BY <1>22 DEF Requests!vars, TableProofs!vars
<1>24. Requests!WithdrawalsAssumption <=> TableProofs!WithdrawalsAssumption
    BY DEF Requests!WithdrawalsAssumption, TableProofs!WithdrawalsAssumption
<1>25. Requests!Init <=> TableProofs!Init
    BY DEF Requests!Init, TableProofs!Init
<1>26. Requests!TypeOK <=> TableProofs!TypeOK
    BY DEF Requests!TypeOK, TableProofs!TypeOK
<1>27. Requests!AlertsLeave <=> TableProofs!AlertsLeave
    BY DEF Requests!AlertsLeave, TableProofs!AlertsLeave
<1>28. Requests!TableIsTrue <=> TableProofs!TableIsTrue
    BY DEF Requests!TableIsTrue, TableProofs!TableIsTrue
<1>29. Requests!NoRequestIsMissed <=> TableProofs!NoRequestIsMissed
    BY DEF Requests!NoRequestIsMissed, TableProofs!NoRequestIsMissed
<1>30. Requests!ClaimsAreNoticed <=> TableProofs!ClaimsAreNoticed
    BY DEF Requests!ClaimsAreNoticed, TableProofs!ClaimsAreNoticed
<1> QED BY <1>23, <1>24, <1>25, <1>26, <1>27, <1>28, <1>29, <1>30, Zenon

LEMMA AlertProofsSame ==
    /\ Alerts!WithdrawalsAssumption <=> AlertProofs!WithdrawalsAssumption
    /\ Alerts!Init <=> AlertProofs!Init
    /\ [Alerts!Next]_(Alerts!vars) <=> [AlertProofs!Next]_(AlertProofs!vars)
    /\ Alerts!TypeOK <=> AlertProofs!TypeOK
    /\ Alerts!AlertsLeave <=> AlertProofs!AlertsLeave
    /\ Requests!TableIsTrue <=> AlertProofs!TableIsTrue
    /\ Requests!NoRequestIsMissed <=> AlertProofs!NoRequestIsMissed
    /\ Requests!ClaimsAreNoticed <=> AlertProofs!ClaimsAreNoticed
<1> USE DEF Alerts!cache, Alerts!node, Alerts!stored, Alerts!alerts, Alerts!Requests, Alerts!Daily,
           Alerts!Alert, Alerts!NoTx, Alerts!Closed, Alerts!head, Alerts!time, Alerts!status,
           Alerts!timestamp, Alerts!transactions, Alerts!after, Alerts!upsert,
           Alerts!createOrUpdate, Alerts!reached, Alerts!setFinalizedRequests,
           Alerts!setWithdrawalRequestClaimed, Alerts!getUnclaimedReqIds, Alerts!getLastRequestId,
           Alerts!finalizedRows, Alerts!unfinalizedRows, Alerts!goesOn, Alerts!check, Alerts!fails,
           Alerts!isOutdated, Alerts!mayAlert, Alerts!alerted, Alerts!dueAlerts, Alerts!isLongQueue,
           Alerts!isOld, Alerts!isOldClaimed, Alerts!losesRate, Alerts!bunkerModeAfter,
           Alerts!claimsCounted, Alerts!awaits, Alerts!Min, Alerts!Max, Alerts!Cardinality,
           AlertProofs!cache, AlertProofs!node, AlertProofs!stored, AlertProofs!alerts,
           AlertProofs!Requests, AlertProofs!Daily, AlertProofs!Alert, AlertProofs!NoTx,
           AlertProofs!Closed, AlertProofs!head, AlertProofs!time, AlertProofs!status,
           AlertProofs!timestamp, AlertProofs!transactions, AlertProofs!after, AlertProofs!upsert,
           AlertProofs!createOrUpdate, AlertProofs!reached, AlertProofs!setFinalizedRequests,
           AlertProofs!setWithdrawalRequestClaimed, AlertProofs!getUnclaimedReqIds,
           AlertProofs!getLastRequestId, AlertProofs!finalizedRows, AlertProofs!unfinalizedRows,
           AlertProofs!goesOn, AlertProofs!check, AlertProofs!fails, AlertProofs!isOutdated,
           AlertProofs!mayAlert, AlertProofs!alerted, AlertProofs!dueAlerts,
           AlertProofs!isLongQueue, AlertProofs!isOld, AlertProofs!isOldClaimed,
           AlertProofs!losesRate, AlertProofs!bunkerModeAfter, AlertProofs!claimsCounted,
           AlertProofs!awaits, AlertProofs!Min, AlertProofs!Max, AlertProofs!Cardinality
<1>1. Alerts!initialize <=> AlertProofs!initialize
    BY DEF Alerts!initialize, AlertProofs!initialize
<1>2. Alerts!nextBlock <=> AlertProofs!nextBlock
    BY DEF Alerts!nextBlock, AlertProofs!nextBlock
<1>3. ASSUME NEW c \in AlertCalls PROVE Alerts!handleBlock(c) <=> AlertProofs!handleBlock(c)
    BY DEF Alerts!handleBlock, AlertProofs!handleBlock
<1>4. ASSUME NEW c \in AlertCalls PROVE Alerts!lastRequestIdRead(c) <=> AlertProofs!lastRequestIdRead(c)
    BY DEF Alerts!lastRequestIdRead, AlertProofs!lastRequestIdRead
<1>5. ASSUME NEW c \in AlertCalls PROVE Alerts!refresh(c) <=> AlertProofs!refresh(c)
    BY DEF Alerts!refresh, AlertProofs!refresh
<1>6. ASSUME NEW c \in AlertCalls PROVE Alerts!handleQueueOnParWithStakeLimit(c) <=> AlertProofs!handleQueueOnParWithStakeLimit(c)
    BY DEF Alerts!handleQueueOnParWithStakeLimit, AlertProofs!handleQueueOnParWithStakeLimit
<1>7. ASSUME NEW c \in AlertCalls PROVE Alerts!unfinalizedRead(c) <=> AlertProofs!unfinalizedRead(c)
    BY DEF Alerts!unfinalizedRead, AlertProofs!unfinalizedRead
<1>8. ASSUME NEW c \in AlertCalls PROVE Alerts!handleUnfinalizedRequestNumber(c) <=> AlertProofs!handleUnfinalizedRequestNumber(c)
    BY DEF Alerts!handleUnfinalizedRequestNumber, AlertProofs!handleUnfinalizedRequestNumber
<1>9. ASSUME NEW c \in AlertCalls PROVE Alerts!scanFails(c) <=> AlertProofs!scanFails(c)
    BY DEF Alerts!scanFails, AlertProofs!scanFails
<1>10. ASSUME NEW c \in AlertCalls PROVE Alerts!unclaimedRead(c) <=> AlertProofs!unclaimedRead(c)
    BY DEF Alerts!unclaimedRead, AlertProofs!unclaimedRead
<1>11. ASSUME NEW c \in AlertCalls PROVE Alerts!unclaimedWritten(c) <=> AlertProofs!unclaimedWritten(c)
    BY DEF Alerts!unclaimedWritten, AlertProofs!unclaimedWritten
<1>12. ASSUME NEW c \in AlertCalls PROVE Alerts!finalizedRead(c) <=> AlertProofs!finalizedRead(c)
    BY DEF Alerts!finalizedRead, AlertProofs!finalizedRead
<1>13. ASSUME NEW c \in AlertCalls PROVE Alerts!removed(c) <=> AlertProofs!removed(c)
    BY DEF Alerts!removed, AlertProofs!removed
<1>14. ASSUME NEW c \in AlertCalls PROVE Alerts!balanceFails(c) <=> AlertProofs!balanceFails(c)
    BY DEF Alerts!balanceFails, AlertProofs!balanceFails
<1>15. ASSUME NEW c \in AlertCalls PROVE Alerts!balanceAnswered(c) <=> AlertProofs!balanceAnswered(c)
    BY DEF Alerts!balanceAnswered, AlertProofs!balanceAnswered
<1>16. ASSUME NEW c \in AlertCalls PROVE Alerts!handleTransaction(c) <=> AlertProofs!handleTransaction(c)
    BY DEF Alerts!handleTransaction, AlertProofs!handleTransaction
<1>17. ASSUME NEW c \in AlertCalls PROVE Alerts!transactionFails(c) <=> AlertProofs!transactionFails(c)
    BY DEF Alerts!transactionFails, AlertProofs!transactionFails
<1>18. ASSUME NEW c \in AlertCalls PROVE Alerts!handleWithdrawalFinalized(c) <=> AlertProofs!handleWithdrawalFinalized(c)
    BY DEF Alerts!handleWithdrawalFinalized, AlertProofs!handleWithdrawalFinalized
<1>19. ASSUME NEW c \in AlertCalls PROVE Alerts!handleWithdrawalRequest(c) <=> AlertProofs!handleWithdrawalRequest(c)
    BY DEF Alerts!handleWithdrawalRequest, AlertProofs!handleWithdrawalRequest
<1>20. ASSUME NEW c \in AlertCalls PROVE Alerts!claimsRead(c) <=> AlertProofs!claimsRead(c)
    BY DEF Alerts!claimsRead, AlertProofs!claimsRead
<1>21. ASSUME NEW c \in AlertCalls PROVE Alerts!handleWithdrawalClaimed(c) <=> AlertProofs!handleWithdrawalClaimed(c)
    BY DEF Alerts!handleWithdrawalClaimed, AlertProofs!handleWithdrawalClaimed
<1>22. Alerts!Next <=> AlertProofs!Next
    BY <1>1, <1>2, <1>3, <1>4, <1>5, <1>6, <1>7, <1>8, <1>9, <1>10, <1>11, <1>12, <1>13, <1>14,
    <1>15, <1>16, <1>17, <1>18, <1>19, <1>20, <1>21 DEF Alerts!Next, AlertProofs!Next
<1>23. [Alerts!Next]_(Alerts!vars) <=> [AlertProofs!Next]_(AlertProofs!vars)
    BY <1>22 DEF Alerts!vars, AlertProofs!vars
<1>24. Alerts!WithdrawalsAssumption <=> AlertProofs!WithdrawalsAssumption
    BY DEF Alerts!WithdrawalsAssumption, AlertProofs!WithdrawalsAssumption
<1>25. Alerts!Init <=> AlertProofs!Init
    BY DEF Alerts!Init, AlertProofs!Init
<1>26. Alerts!TypeOK <=> AlertProofs!TypeOK
    BY DEF Alerts!TypeOK, AlertProofs!TypeOK
<1>27. Alerts!AlertsLeave <=> AlertProofs!AlertsLeave
    BY DEF Alerts!AlertsLeave, AlertProofs!AlertsLeave
<1>28. Requests!TableIsTrue <=> AlertProofs!TableIsTrue
    BY DEF Requests!TableIsTrue, AlertProofs!TableIsTrue, Requests!head
<1>29. Requests!NoRequestIsMissed <=> AlertProofs!NoRequestIsMissed
    BY DEF Requests!NoRequestIsMissed, AlertProofs!NoRequestIsMissed, Requests!head
<1>30. Requests!ClaimsAreNoticed <=> AlertProofs!ClaimsAreNoticed
    BY DEF Requests!ClaimsAreNoticed, AlertProofs!ClaimsAreNoticed, Requests!head
<1> QED BY <1>23, <1>24, <1>25, <1>26, <1>27, <1>28, <1>29, <1>30, Zenon

LEMMA RebaseProofsSame ==
    /\ Rebases!WithdrawalsAssumption <=> RebaseProofs!WithdrawalsAssumption
    /\ Rebases!Init <=> RebaseProofs!Init
    /\ [Rebases!Next]_(Rebases!vars) <=> [RebaseProofs!Next]_(RebaseProofs!vars)
    /\ Rebases!TypeOK <=> RebaseProofs!TypeOK
    /\ Rebases!AlertsLeave <=> RebaseProofs!AlertsLeave
    /\ Requests!TableIsTrue <=> RebaseProofs!TableIsTrue
    /\ Requests!NoRequestIsMissed <=> RebaseProofs!NoRequestIsMissed
    /\ Requests!ClaimsAreNoticed <=> RebaseProofs!ClaimsAreNoticed
<1> USE DEF Rebases!cache, Rebases!node, Rebases!stored, Rebases!alerts, Rebases!Requests, Rebases!Daily,
           Rebases!Alert, Rebases!NoTx, Rebases!Closed, Rebases!head, Rebases!time, Rebases!status,
           Rebases!timestamp, Rebases!transactions, Rebases!after, Rebases!upsert,
           Rebases!createOrUpdate, Rebases!reached, Rebases!setFinalizedRequests,
           Rebases!setWithdrawalRequestClaimed, Rebases!getUnclaimedReqIds, Rebases!getLastRequestId,
           Rebases!finalizedRows, Rebases!unfinalizedRows, Rebases!goesOn, Rebases!check, Rebases!fails,
           Rebases!isOutdated, Rebases!mayAlert, Rebases!alerted, Rebases!dueAlerts, Rebases!isLongQueue,
           Rebases!isOld, Rebases!isOldClaimed, Rebases!losesRate, Rebases!bunkerModeAfter,
           Rebases!claimsCounted, Rebases!awaits, Rebases!Min, Rebases!Max, Rebases!Cardinality,
           RebaseProofs!cache, RebaseProofs!node, RebaseProofs!stored, RebaseProofs!alerts,
           RebaseProofs!Requests, RebaseProofs!Daily, RebaseProofs!Alert, RebaseProofs!NoTx,
           RebaseProofs!Closed, RebaseProofs!head, RebaseProofs!time, RebaseProofs!status,
           RebaseProofs!timestamp, RebaseProofs!transactions, RebaseProofs!after, RebaseProofs!upsert,
           RebaseProofs!createOrUpdate, RebaseProofs!reached, RebaseProofs!setFinalizedRequests,
           RebaseProofs!setWithdrawalRequestClaimed, RebaseProofs!getUnclaimedReqIds,
           RebaseProofs!getLastRequestId, RebaseProofs!finalizedRows, RebaseProofs!unfinalizedRows,
           RebaseProofs!goesOn, RebaseProofs!check, RebaseProofs!fails, RebaseProofs!isOutdated,
           RebaseProofs!mayAlert, RebaseProofs!alerted, RebaseProofs!dueAlerts,
           RebaseProofs!isLongQueue, RebaseProofs!isOld, RebaseProofs!isOldClaimed,
           RebaseProofs!losesRate, RebaseProofs!bunkerModeAfter, RebaseProofs!claimsCounted,
           RebaseProofs!awaits, RebaseProofs!Min, RebaseProofs!Max, RebaseProofs!Cardinality
<1>1. Rebases!initialize <=> RebaseProofs!initialize
    BY DEF Rebases!initialize, RebaseProofs!initialize
<1>2. Rebases!nextBlock <=> RebaseProofs!nextBlock
    BY DEF Rebases!nextBlock, RebaseProofs!nextBlock
<1>3. ASSUME NEW c \in AlertCalls PROVE Rebases!handleBlock(c) <=> RebaseProofs!handleBlock(c)
    BY DEF Rebases!handleBlock, RebaseProofs!handleBlock
<1>4. ASSUME NEW c \in AlertCalls PROVE Rebases!lastRequestIdRead(c) <=> RebaseProofs!lastRequestIdRead(c)
    BY DEF Rebases!lastRequestIdRead, RebaseProofs!lastRequestIdRead
<1>5. ASSUME NEW c \in AlertCalls PROVE Rebases!refresh(c) <=> RebaseProofs!refresh(c)
    BY DEF Rebases!refresh, RebaseProofs!refresh
<1>6. ASSUME NEW c \in AlertCalls PROVE Rebases!handleQueueOnParWithStakeLimit(c) <=> RebaseProofs!handleQueueOnParWithStakeLimit(c)
    BY DEF Rebases!handleQueueOnParWithStakeLimit, RebaseProofs!handleQueueOnParWithStakeLimit
<1>7. ASSUME NEW c \in AlertCalls PROVE Rebases!unfinalizedRead(c) <=> RebaseProofs!unfinalizedRead(c)
    BY DEF Rebases!unfinalizedRead, RebaseProofs!unfinalizedRead
<1>8. ASSUME NEW c \in AlertCalls PROVE Rebases!handleUnfinalizedRequestNumber(c) <=> RebaseProofs!handleUnfinalizedRequestNumber(c)
    BY DEF Rebases!handleUnfinalizedRequestNumber, RebaseProofs!handleUnfinalizedRequestNumber
<1>9. ASSUME NEW c \in AlertCalls PROVE Rebases!scanFails(c) <=> RebaseProofs!scanFails(c)
    BY DEF Rebases!scanFails, RebaseProofs!scanFails
<1>10. ASSUME NEW c \in AlertCalls PROVE Rebases!unclaimedRead(c) <=> RebaseProofs!unclaimedRead(c)
    BY DEF Rebases!unclaimedRead, RebaseProofs!unclaimedRead
<1>11. ASSUME NEW c \in AlertCalls PROVE Rebases!unclaimedWritten(c) <=> RebaseProofs!unclaimedWritten(c)
    BY DEF Rebases!unclaimedWritten, RebaseProofs!unclaimedWritten
<1>12. ASSUME NEW c \in AlertCalls PROVE Rebases!finalizedRead(c) <=> RebaseProofs!finalizedRead(c)
    BY DEF Rebases!finalizedRead, RebaseProofs!finalizedRead
<1>13. ASSUME NEW c \in AlertCalls PROVE Rebases!removed(c) <=> RebaseProofs!removed(c)
    BY DEF Rebases!removed, RebaseProofs!removed
<1>14. ASSUME NEW c \in AlertCalls PROVE Rebases!balanceFails(c) <=> RebaseProofs!balanceFails(c)
    BY DEF Rebases!balanceFails, RebaseProofs!balanceFails
<1>15. ASSUME NEW c \in AlertCalls PROVE Rebases!balanceAnswered(c) <=> RebaseProofs!balanceAnswered(c)
    BY DEF Rebases!balanceAnswered, RebaseProofs!balanceAnswered
<1>16. ASSUME NEW c \in AlertCalls PROVE Rebases!handleTransaction(c) <=> RebaseProofs!handleTransaction(c)
    BY DEF Rebases!handleTransaction, RebaseProofs!handleTransaction
<1>17. ASSUME NEW c \in AlertCalls PROVE Rebases!transactionFails(c) <=> RebaseProofs!transactionFails(c)
    BY DEF Rebases!transactionFails, RebaseProofs!transactionFails
<1>18. ASSUME NEW c \in AlertCalls PROVE Rebases!handleWithdrawalFinalized(c) <=> RebaseProofs!handleWithdrawalFinalized(c)
    BY DEF Rebases!handleWithdrawalFinalized, RebaseProofs!handleWithdrawalFinalized
<1>19. ASSUME NEW c \in AlertCalls PROVE Rebases!handleWithdrawalRequest(c) <=> RebaseProofs!handleWithdrawalRequest(c)
    BY DEF Rebases!handleWithdrawalRequest, RebaseProofs!handleWithdrawalRequest
<1>20. ASSUME NEW c \in AlertCalls PROVE Rebases!claimsRead(c) <=> RebaseProofs!claimsRead(c)
    BY DEF Rebases!claimsRead, RebaseProofs!claimsRead
<1>21. ASSUME NEW c \in AlertCalls PROVE Rebases!handleWithdrawalClaimed(c) <=> RebaseProofs!handleWithdrawalClaimed(c)
    BY DEF Rebases!handleWithdrawalClaimed, RebaseProofs!handleWithdrawalClaimed
<1>22. Rebases!Next <=> RebaseProofs!Next
    BY <1>1, <1>2, <1>3, <1>4, <1>5, <1>6, <1>7, <1>8, <1>9, <1>10, <1>11, <1>12, <1>13, <1>14,
    <1>15, <1>16, <1>17, <1>18, <1>19, <1>20, <1>21 DEF Rebases!Next, RebaseProofs!Next
<1>23. [Rebases!Next]_(Rebases!vars) <=> [RebaseProofs!Next]_(RebaseProofs!vars)
    BY <1>22 DEF Rebases!vars, RebaseProofs!vars
<1>24. Rebases!WithdrawalsAssumption <=> RebaseProofs!WithdrawalsAssumption
    BY DEF Rebases!WithdrawalsAssumption, RebaseProofs!WithdrawalsAssumption
<1>25. Rebases!Init <=> RebaseProofs!Init
    BY DEF Rebases!Init, RebaseProofs!Init
<1>26. Rebases!TypeOK <=> RebaseProofs!TypeOK
    BY DEF Rebases!TypeOK, RebaseProofs!TypeOK
<1>27. Rebases!AlertsLeave <=> RebaseProofs!AlertsLeave
    BY DEF Rebases!AlertsLeave, RebaseProofs!AlertsLeave
<1>28. Requests!TableIsTrue <=> RebaseProofs!TableIsTrue
    BY DEF Requests!TableIsTrue, RebaseProofs!TableIsTrue, Requests!head
<1>29. Requests!NoRequestIsMissed <=> RebaseProofs!NoRequestIsMissed
    BY DEF Requests!NoRequestIsMissed, RebaseProofs!NoRequestIsMissed, Requests!head
<1>30. Requests!ClaimsAreNoticed <=> RebaseProofs!ClaimsAreNoticed
    BY DEF Requests!ClaimsAreNoticed, RebaseProofs!ClaimsAreNoticed, Requests!head
<1> QED BY <1>23, <1>24, <1>25, <1>26, <1>27, <1>28, <1>29, <1>30, Zenon

(* A stored flag is true on the chain: the table never runs ahead of it.      *)
THEOREM TableIsTrueCorrect == Requests!Spec \/ Alerts!Spec \/ Rebases!Spec => []TableIsTrue
<1>1. TableProofs!Spec => []TableProofs!TableIsTrue
    BY ServicesAssumption, TableProofsSame, TableProofs!TableIsTrueCorrect
<1>2. AlertProofs!Spec => []AlertProofs!TableIsTrue
    BY ServicesAssumption, AlertProofsSame, AlertProofs!TableIsTrueCorrect
<1>4. RebaseProofs!Spec => []RebaseProofs!TableIsTrue
    BY ServicesAssumption, RebaseProofsSame, RebaseProofs!TableIsTrueCorrect
<1>3. TableIsTrue <=> Requests!TableIsTrue
    BY DEF TableIsTrue
<1> QED BY <1>1, <1>2, <1>3, <1>4, TableProofsSame, AlertProofsSame, RebaseProofsSame, PTL
        DEF Requests!Spec, Alerts!Spec, Rebases!Spec, TableProofs!Spec, AlertProofs!Spec,
            RebaseProofs!Spec

(* The block calls pass over no request.                                      *)
THEOREM NoRequestIsMissedCorrect == Requests!Spec \/ Alerts!Spec \/ Rebases!Spec => []NoRequestIsMissed
<1>1. TableProofs!Spec => []TableProofs!NoRequestIsMissed
    BY ServicesAssumption, TableProofsSame, TableProofs!NoRequestIsMissedCorrect
<1>2. AlertProofs!Spec => []AlertProofs!NoRequestIsMissed
    BY ServicesAssumption, AlertProofsSame, AlertProofs!NoRequestIsMissedCorrect
<1>4. RebaseProofs!Spec => []RebaseProofs!NoRequestIsMissed
    BY ServicesAssumption, RebaseProofsSame, RebaseProofs!NoRequestIsMissedCorrect
<1>3. NoRequestIsMissed <=> Requests!NoRequestIsMissed
    BY DEF NoRequestIsMissed
<1> QED BY <1>1, <1>2, <1>3, <1>4, TableProofsSame, AlertProofsSame, RebaseProofsSame, PTL
        DEF Requests!Spec, Alerts!Spec, Rebases!Spec, TableProofs!Spec, AlertProofs!Spec,
            RebaseProofs!Spec

(* The scan of the unclaimed rows notices every claim of its time.            *)
THEOREM ClaimsAreNoticedCorrect == Requests!Spec \/ Alerts!Spec \/ Rebases!Spec => []ClaimsAreNoticed
<1>1. TableProofs!Spec => []TableProofs!ClaimsAreNoticed
    BY ServicesAssumption, TableProofsSame, TableProofs!ClaimsAreNoticedCorrect
<1>2. AlertProofs!Spec => []AlertProofs!ClaimsAreNoticed
    BY ServicesAssumption, AlertProofsSame, AlertProofs!ClaimsAreNoticedCorrect
<1>4. RebaseProofs!Spec => []RebaseProofs!ClaimsAreNoticed
    BY ServicesAssumption, RebaseProofsSame, RebaseProofs!ClaimsAreNoticedCorrect
<1>3. ClaimsAreNoticed <=> Requests!ClaimsAreNoticed
    BY DEF ClaimsAreNoticed
<1> QED BY <1>1, <1>2, <1>3, <1>4, TableProofsSame, AlertProofsSame, RebaseProofsSame, PTL
        DEF Requests!Spec, Alerts!Spec, Rebases!Spec, TableProofs!Spec, AlertProofs!Spec,
            RebaseProofs!Spec

(* A daily alert of the withdrawals that sets its throttle is answered with   *)
(* its block, or is the unclaimed-rate alert of a call whose balance request  *)
(* failed: for any calls, overlapping ones too, and any amounts.              *)
THEOREM AlertsLeaveCorrect == Alerts!Spec => []AlertsLeave
<1>1. AlertProofs!Spec => []AlertProofs!AlertsLeave
    BY AlertProofs!AlertsLeaveCorrect
<1>2. Alerts!AlertsLeave => AlertsLeave
    BY DEF AlertsLeave
<1> QED BY <1>1, <1>2, AlertProofsSame, PTL DEF Alerts!Spec, AlertProofs!Spec

(* The withdrawals keep their types: no time lies after the head block, and   *)
(* the amount requested counts no request twice.                              *)
THEOREM QueueIsTyped ==
    /\ Requests!Spec => []Requests!TypeOK
    /\ Alerts!Spec => []Alerts!TypeOK
    /\ Rebases!Spec => []Rebases!TypeOK
<1>1. TableProofs!Spec => []TableProofs!TypeOK
    BY ServicesAssumption, TableProofsSame, TableProofs!WithdrawalsAreTyped
<1>2. AlertProofs!Spec => []AlertProofs!TypeOK
    BY ServicesAssumption, AlertProofsSame, AlertProofs!WithdrawalsAreTyped
<1>3. RebaseProofs!Spec => []RebaseProofs!TypeOK
    BY ServicesAssumption, RebaseProofsSame, RebaseProofs!WithdrawalsAreTyped
<1> QED BY <1>1, <1>2, <1>3, TableProofsSame, AlertProofsSame, RebaseProofsSame, PTL
        DEF Requests!Spec, Alerts!Spec, Rebases!Spec, TableProofs!Spec, AlertProofs!Spec,
            RebaseProofs!Spec

-----------------------------------------------------------------------------
(* The services side by side.                                                 *)
allVars == <<service, vars, sealVars, withdrawalVars, bufferVars, etherVars>>

LEMMA InitsAreTheirOwn ==
    MCInit => /\ Init /\ Seal!Init /\ Buffer!Init /\ Depositable!Init
              /\ service \notin {"alerts", "rebases"} => Requests!Init
              /\ service = "alerts" => Alerts!Init
              /\ service = "rebases" => Rebases!Init
<1>1. Alerts!Init => Rebases!Init
    BY DEF Alerts!Init, Rebases!Init, Alerts!Alert, Rebases!Alert, Alerts!Daily, Rebases!Daily,
           Alerts!NoTx, Rebases!NoTx, Alerts!Closed, Rebases!Closed
<1> QED BY <1>1 DEF MCInit

LEMMA StepsAreTheirOwn ==
    [MCNext]_allVars =>
        /\ UNCHANGED service
        /\ [Next]_vars /\ [Seal!Next]_(Seal!vars) /\ [Buffer!Next]_(Buffer!vars)
        /\ [Depositable!Next]_(Depositable!vars)
        /\ service \notin {"alerts", "rebases"} => [Requests!Next]_(Requests!vars)
        /\ service = "alerts" => [Alerts!Next]_(Alerts!vars)
        /\ service = "rebases" => [Rebases!Next]_(Rebases!vars)
<1> SUFFICES ASSUME [MCNext]_allVars
             PROVE  /\ UNCHANGED service
                    /\ [Next]_vars /\ [Seal!Next]_(Seal!vars) /\ [Buffer!Next]_(Buffer!vars)
                    /\ [Depositable!Next]_(Depositable!vars)
                    /\ service \notin {"alerts", "rebases"} => [Requests!Next]_(Requests!vars)
                    /\ service = "alerts" => [Alerts!Next]_(Alerts!vars)
                    /\ service = "rebases" => [Rebases!Next]_(Rebases!vars)
    OBVIOUS
<1>1. /\ UNCHANGED service
      /\ Next \/ UNCHANGED vars
      /\ Seal!Next \/ UNCHANGED sealVars
      /\ Buffer!Next \/ UNCHANGED bufferVars
      /\ Depositable!Next \/ UNCHANGED etherVars
      /\ \/ service = "requests" /\ Requests!Next
         \/ service = "alerts" /\ Alerts!Next
         \/ service = "rebases" /\ Rebases!Next
         \/ UNCHANGED withdrawalVars
    BY Zenon DEF MCNext, allVars
<1>2. UNCHANGED sealVars => UNCHANGED Seal!vars
    BY DEF sealVars, Seal!vars, Seal!chain, Seal!cache
<1>3. UNCHANGED bufferVars => UNCHANGED Buffer!vars
    BY DEF bufferVars, Buffer!vars, Buffer!chain
<1>4. UNCHANGED etherVars => UNCHANGED Depositable!vars
    BY DEF etherVars, Depositable!vars
<1>5. UNCHANGED withdrawalVars => /\ UNCHANGED Requests!vars /\ UNCHANGED Alerts!vars
                                  /\ UNCHANGED Rebases!vars
    BY DEF withdrawalVars, Requests!vars, Requests!node, Requests!stored, Requests!cache, Requests!alerts,
           Alerts!vars, Alerts!node, Alerts!stored, Alerts!cache, Alerts!alerts,
           Rebases!vars, Rebases!node, Rebases!stored, Rebases!cache, Rebases!alerts
<1> QED BY <1>1, <1>2, <1>3, <1>4, <1>5

(* Side by side the services do what each does by itself: the composition     *)
(* adds no step to a service and takes none of its steps' conditions away.    *)
(* The withdrawals have the constants of the part that is taken.              *)
THEOREM PartsAreTheirOwn ==
    MCSpec => /\ Spec /\ Seal!Spec /\ Buffer!Spec /\ Depositable!Spec
              /\ service \notin {"alerts", "rebases"} => Requests!Spec
              /\ service = "alerts" => Alerts!Spec
              /\ service = "rebases" => Rebases!Spec
<1>1. service \notin {"alerts", "rebases"} /\ [MCNext]_allVars => (service \notin {"alerts", "rebases"})'
    BY StepsAreTheirOwn
<1>2. service = "alerts" /\ [MCNext]_allVars => (service = "alerts")'
    BY StepsAreTheirOwn
<1>3. service = "rebases" /\ [MCNext]_allVars => (service = "rebases")'
    BY StepsAreTheirOwn
<1>4. MCSpec <=> (MCInit /\ [][MCNext]_allVars)
    BY DEF MCSpec, allVars
<1> QED BY <1>1, <1>2, <1>3, <1>4, InitsAreTheirOwn, StepsAreTheirOwn, PTL
        DEF Spec, Seal!Spec, Buffer!Spec, Depositable!Spec, Requests!Spec, Alerts!Spec, Rebases!Spec

(* The types of the other services.                                           *)
THEOREM ServicesAreTyped ==
    /\ Seal!Spec => []Seal!TypeOK
    /\ Buffer!Spec => []Buffer!TypeOK
    /\ Depositable!Spec => []Depositable!TypeOK
<1>1. SealInv => Seal!TypeOK
    BY DEF SealInv
<1>2. BufferInv => Buffer!TypeOK
    BY DEF BufferInv
<1>3. EtherInv => Depositable!TypeOK
    BY DEF EtherInv
<1> QED BY <1>1, <1>2, <1>3, SealInit, SealNext, BufferStays, EtherInit, EtherNext, PTL
        DEF Seal!Spec, Buffer!Spec, Depositable!Spec

(* Every variable of the run keeps its type: those of the service that is     *)
(* taken by its steps, the others by staying as they are.                     *)
THEOREM PartsAreTyped == MCSpec => []TypesOK
<1>1. service \notin {"alerts", "rebases"} /\ [MCNext]_allVars => (service \notin {"alerts", "rebases"})'
    BY StepsAreTheirOwn
<1>2. service = "alerts" /\ [MCNext]_allVars => (service = "alerts")'
    BY StepsAreTheirOwn
<1>3. service = "rebases" /\ [MCNext]_allVars => (service = "rebases")'
    BY StepsAreTheirOwn
<1>4. MCSpec <=> (MCInit /\ [][MCNext]_allVars)
    BY DEF MCSpec, allVars
<1>5. /\ service \notin {"alerts", "rebases"} <=> ~(service = "alerts") /\ ~(service = "rebases")
      /\ ~(service = "alerts" /\ service = "rebases")
    OBVIOUS
<1>6. TypesOK <=> /\ TypeOK /\ Seal!TypeOK /\ Buffer!TypeOK /\ Depositable!TypeOK
                  /\ service = "requests" => Requests!TypeOK
                  /\ service = "alerts" => Alerts!TypeOK
                  /\ service = "rebases" => Rebases!TypeOK
    BY DEF TypesOK
<1>7. service = "requests" => ~(service = "alerts") /\ ~(service = "rebases")
    OBVIOUS
<1> QED BY <1>1, <1>2, <1>3, <1>4, <1>5, <1>6, <1>7, PartsAreTheirOwn, TypeCorrect, ServicesAreTyped,
           QueueIsTyped, PTL

(* What is proved of the services one by one holds of the run that puts them  *)
(* side by side.                                                              *)
THEOREM RunIsCorrect ==
    MCSpec => [](/\ EverySlotIsVisited /\ WatchesNewest /\ AlertsLeave /\ EtherIsTold
                 /\ TableIsTrue /\ NoRequestIsMissed /\ ClaimsAreNoticed
                 /\ DrainIsReported /\ DrainIsTrue)
<1>1. service \notin {"alerts", "rebases"} /\ [MCNext]_allVars => (service \notin {"alerts", "rebases"})'
    BY StepsAreTheirOwn
<1>2. service = "alerts" /\ [MCNext]_allVars => (service = "alerts")'
    BY StepsAreTheirOwn
<1>3. service = "rebases" /\ [MCNext]_allVars => (service = "rebases")'
    BY StepsAreTheirOwn
<1>4. MCSpec <=> (MCInit /\ [][MCNext]_allVars)
    BY DEF MCSpec, allVars
<1>5. /\ service \notin {"alerts", "rebases"} <=> ~(service = "alerts") /\ ~(service = "rebases")
      /\ ~(service = "alerts" /\ service = "rebases")
    OBVIOUS
<1>6. ~(service = "alerts") => AlertsLeave
    BY DEF AlertsLeave
<1> QED BY <1>1, <1>2, <1>3, <1>4, <1>5, <1>6, PartsAreTheirOwn, VisitsEverySlot, WatchesNewestCorrect,
           TableIsTrueCorrect, NoRequestIsMissedCorrect, ClaimsAreNoticedCorrect,
           AlertsLeaveCorrect, EtherIsToldCorrect, DrainIsReportedCorrect, DrainIsTrueCorrect, PTL
=============================================================================
