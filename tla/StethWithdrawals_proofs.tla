----------------------- MODULE StethWithdrawals_proofs -----------------------
(***************************************************************************)
(* The proofs about the withdrawals service of ethereum-steth, for any calls*)
(* that may be open at once, any kinds of transactions and any amounts.     *)
(***************************************************************************)
EXTENDS StethWithdrawals, FiniteSetTheorems, SequenceTheorems, WellFoundedInduction, TLAPS

-----------------------------------------------------------------------------
(* The least and the greatest of a set of numbers exist.                      *)
LEMMA LeastExists ==
    ASSUME NEW S, S \subseteq Nat, S # {}
    PROVE  \E x \in S : \A y \in S : x <= y
<1> DEFINE R == {ss \in Nat \X Nat : ss[1] < ss[2]}
<1>1. IsWellFoundedOn(R, Nat)
    BY NatLessThanWellFounded DEF OpToRel
<1>2. PICK x \in S : \A y \in S : ~ (<<y, x>> \in R)
    <2> HIDE DEF R
    <2> QED BY <1>1, WFMin
<1>3. \A y \in S : x <= y
    <2> TAKE y \in S
    <2>1. x \in Nat /\ y \in Nat /\ ~ (<<y, x>> \in R)
        BY <1>2
    <2>2. ~(y < x)
        BY <2>1
    <2> QED BY <2>1, <2>2
<1> QED BY <1>3

LEMMA LeastIs ==
    ASSUME NEW S, S \subseteq Nat, S # {}
    PROVE  Min(S) \in S /\ \A y \in S : Min(S) <= y
BY LeastExists DEF Min

LEMMA GreatestExists ==
    ASSUME NEW S, NEW n \in Nat, S \subseteq 0..n, S # {}
    PROVE  \E x \in S : \A y \in S : x >= y
<1> DEFINE T == {n - x : x \in S}
<1>1. T \subseteq Nat
    <2> SUFFICES ASSUME NEW x \in S PROVE n - x \in Nat
        OBVIOUS
    <2>1. x \in 0..n
        OBVIOUS
    <2> QED BY <2>1
<1>2. T # {}
    OBVIOUS
<1>3. PICK t \in T : \A u \in T : t <= u
    <2> HIDE DEF T
    <2> QED BY <1>1, <1>2, LeastExists
<1>4. PICK x \in S : t = n - x
    BY <1>3
<1>5. \A y \in S : x >= y
    <2> TAKE y \in S
    <2>1. x \in 0..n /\ y \in 0..n
        OBVIOUS
    <2>2. n - y \in T
        OBVIOUS
    <2>3. n - x <= n - y
        BY <1>3, <1>4, <2>2
    <2> QED BY <2>1, <2>3
<1> QED BY <1>5

LEMMA GreatestIs ==
    ASSUME NEW S, NEW n \in Nat, S \subseteq 0..n, S # {}
    PROVE  Max(S) \in S /\ \A y \in S : Max(S) >= y
BY GreatestExists DEF Max

LEMMA AppendKeeps ==
    ASSUME NEW S, NEW s \in Seq(S), NEW e \in S
    PROVE  \A i \in 1..Len(s) : Append(s, e)[i] = s[i]
BY AppendProperties

(* The withdrawals' table.  The queue only grows from block to block.         *)
Queues == [last : 1..MaxRequests, finalizedTo : Nat, claimed : SUBSET Nat, bunker : BOOLEAN]
tip == chain[Len(chain)]

ChainGrows ==
    /\ MaxRequests \in Nat
    /\ chain \in Seq(Queues) /\ Len(chain) >= 1
    /\ \A i \in 1..Len(chain) : chain[i].finalizedTo <= chain[i].last
    /\ \A i, j \in 1..Len(chain) : i <= j => /\ chain[i].last <= chain[j].last
                                            /\ chain[i].finalizedTo <= chain[j].finalizedTo
                                            /\ chain[i].claimed \subseteq chain[j].claimed

(* What a transaction says has happened is so as of its block.                *)
TxKinds == {"none", "request", "report", "claim", "bunkerOn", "bunkerOff"}
TxIsOnChain ==
    /\ tx \in [kind : TxKinds, ids : SUBSET (1..MaxRequests), to : Nat]
    /\ tx.kind = "request" => tx.ids # {}
    /\ tx.kind = "report" => tx.to <= tip.finalizedTo
    /\ tx.kind = "claim" => tx.ids \subseteq tip.claimed

Flags == [finalized : BOOLEAN, claimed : BOOLEAN]
TableTyped ==
    /\ DOMAIN table \subseteq 1..MaxRequests /\ \A q \in DOMAIN table : table[q] \in Flags
    /\ started \in BOOLEAN /\ (started => refreshed \in 1..Len(chain))
    /\ refreshed \in 0..Len(chain) /\ scanned \in 0..Len(chain)

(* The requests that are stored or need not be any more.                      *)
Known == DOMAIN table \union tip.claimed \union hidden
NoGaps == \A t \in DOMAIN table : 1..t \subseteq Known

RequestCall ==
    [at : {"closed", "last", "refresh", "checks", "request", "report", "claim", "claimed"},
     block : Nat, ids : SUBSET (1..MaxRequests), to : Nat, first : Nat, onPar : {"ask", "over"},
     queue : {"read", "ask", "over"},
     unclaimed : {"ids", "write", "rows", "remove", "balance", "over"},
     rows : SUBSET (1..MaxRequests), found : SUBSET Daily]

(* What a call has read still holds when it writes.                           *)
ReadHolds(r) ==
    /\ r.at # "closed" \/ r.unclaimed # "over" => r.block \in 1..Len(chain)
    /\ r.at = "refresh" => \E k \in 1..MaxRequests : /\ r.ids = k..chain[r.block].last
                                                     /\ 1..k - 1 \subseteq Known
    /\ r.at = "request" => r.ids # {}
    /\ r.at = "report" => r.to <= tip.finalizedTo
    /\ r.at \in {"claim", "claimed"} => r.ids \subseteq tip.claimed
    /\ r.at = "claimed" => r.ids # {}
    /\ r.unclaimed = "write" =>
           \A q \in (DOMAIN table \intersect chain[r.block].claimed) \ r.rows :
               table[q].claimed \/ q \in late
    /\ r.unclaimed = "write" => \A t \in r.rows : 1..t \subseteq Known
    /\ r.unclaimed = "remove" => r.rows \subseteq tip.claimed

CallsHold == call \in [Calls -> RequestCall] /\ \A c \in Calls : ReadHolds(call[c])

RequestsInv == /\ ChainGrows /\ TxIsOnChain /\ TableTyped /\ NoGaps /\ CallsHold
               /\ TableIsTrue /\ NoRequestIsMissed /\ ClaimsAreNoticed

LEMMA QueueNumbers ==
    ASSUME ChainGrows
    PROVE  /\ MaxRequests \in Nat /\ Len(chain) \in Nat /\ Len(chain) >= 1 /\ head = Len(chain)
           /\ \A i \in 1..Len(chain) : /\ chain[i] \in Queues /\ chain[i].last \in 1..MaxRequests
                                       /\ chain[i].finalizedTo \in Nat
                                       /\ chain[i].finalizedTo <= tip.finalizedTo
                                       /\ chain[i].last <= tip.last
                                       /\ chain[i].finalizedTo <= chain[i].last
                                       /\ chain[i].claimed \subseteq tip.claimed
           /\ tip \in Queues /\ tip.last \in 1..MaxRequests /\ tip.finalizedTo \in Nat
           /\ tip.finalizedTo <= tip.last /\ tip = chain[Len(chain)]
<1>1. MaxRequests \in Nat
    BY DEF ChainGrows
<1>2. Len(chain) \in Nat /\ Len(chain) >= 1 /\ \A i \in 1..Len(chain) : chain[i] \in Queues
    BY DEF ChainGrows
<1>3. Len(chain) \in 1..Len(chain)
    BY <1>2
<1> QED BY <1>1, <1>2, <1>3 DEF ChainGrows, tip, Queues, head

LEMMA RequestsInit == WithdrawalsAssumption /\ Init => RequestsInv
<1> SUFFICES ASSUME WithdrawalsAssumption, Init PROVE RequestsInv
    OBVIOUS
<1>1. PICK past, now \in Past :
          /\ past.last <= now.last /\ past.finalizedTo <= now.finalizedTo
          /\ past.claimed \subseteq now.claimed
          /\ chain = <<now>>
          /\ table = [r \in 1..past.last |->
                         [finalized |-> r <= past.finalizedTo, claimed |-> r \in past.claimed]]
    BY DEF Init
<1>2. /\ MaxRequests \in Nat /\ past \in Queues /\ now \in Queues
      /\ past.last \in 1..MaxRequests /\ past.finalizedTo \in Nat /\ now.finalizedTo \in Nat
    BY DEF WithdrawalsAssumption, Queues
<1>3. Len(chain) = 1 /\ chain[1] = now /\ tip = now /\ head = 1
    BY <1>1 DEF tip, head
<1>4. ChainGrows
    <2>1. chain \in Seq(Queues)
        BY <1>1, <1>2
    <2>2. \A i \in 1..Len(chain) : i = 1
        BY <1>3
    <2>3. /\ now.finalizedTo <= now.last
          /\ now.last <= now.last /\ now.finalizedTo <= now.finalizedTo
        BY <1>2 DEF Queues, WithdrawalsAssumption
    <2> QED BY <1>2, <1>3, <2>1, <2>2, <2>3 DEF ChainGrows
<1>5. TxIsOnChain
    BY <1>2 DEF Init, NoTx, TxIsOnChain, TxKinds
<1>6. DOMAIN table = 1..past.last
    BY <1>1
<1>7. TableTyped /\ NoGaps
    <2>1. \A q \in DOMAIN table : table[q] \in Flags
        BY <1>1 DEF Flags
    <2>2. 1..past.last \subseteq 1..MaxRequests
        BY <1>2
    <2>3. \A t \in 1..past.last : 1..t \subseteq 1..past.last
        BY <1>2
    <2>4. started = FALSE /\ refreshed = 0 /\ scanned = 0
        BY DEF Init
    <2>5. TableTyped
        <3>1. refreshed \in 0..Len(chain) /\ scanned \in 0..Len(chain)
            BY <1>3, <2>4
        <3> QED BY <1>6, <2>1, <2>2, <2>4, <3>1 DEF TableTyped
    <2> QED BY <1>6, <2>3, <2>5 DEF NoGaps, Known
<1>8. CallsHold
    <2>1. Closed \in RequestCall
        BY DEF Closed, RequestCall
    <2>2. ReadHolds(Closed)
        BY DEF Closed, ReadHolds
    <2> QED BY <2>1, <2>2 DEF CallsHold, Init
<1>9. TableIsTrue
    <2> SUFFICES ASSUME NEW q \in DOMAIN table
                 PROVE  /\ table[q].finalized => q <= now.finalizedTo
                        /\ table[q].claimed => q \in now.claimed
        BY <1>3 DEF TableIsTrue
    <2>1. /\ table[q].finalized = (q <= past.finalizedTo) /\ table[q].claimed = (q \in past.claimed)
          /\ q \in Nat
        BY <1>1
    <2>2. table[q].finalized => q <= past.finalizedTo
        BY <2>1
    <2>3. table[q].claimed => q \in past.claimed
        BY <2>1
    <2> QED BY <1>1, <1>2, <2>1, <2>2, <2>3
<1>10. NoRequestIsMissed /\ ClaimsAreNoticed
    BY DEF NoRequestIsMissed, ClaimsAreNoticed,
           Init
<1> QED BY <1>4, <1>5, <1>7, <1>8, <1>9, <1>10 DEF RequestsInv

-----------------------------------------------------------------------------
(* A step that forgets no request, and takes no claim back without counting   *)
(* it as late.                                                                *)
ForgetsNothing == Known \subseteq Known'
ClaimsStay ==
    \A q \in DOMAIN table' \intersect tip.claimed :
        \/ table'[q].claimed \/ q \in late'
        \/ q \in DOMAIN table /\ ~table[q].claimed /\ q \notin late

LEMMA ReadStays ==
    ASSUME ChainGrows, chain' = chain, ForgetsNothing, ClaimsStay, NEW r \in RequestCall, ReadHolds(r)
    PROVE  ReadHolds(r)'
<1>1. tip' = tip
    BY DEF tip
<1>2. ASSUME r.at = "refresh"
      PROVE  \E k \in 1..MaxRequests : r.ids = k..chain[r.block].last /\ 1..k - 1 \subseteq Known'
    BY <1>2 DEF ReadHolds, ForgetsNothing
<1>3. ASSUME r.unclaimed = "write",
             NEW q \in (DOMAIN table' \intersect chain[r.block].claimed) \ r.rows
      PROVE  table'[q].claimed \/ q \in late'
    <2>1. r.block \in 1..Len(chain)
        BY <1>3 DEF ReadHolds
    <2>2. q \in tip.claimed
        BY <2>1, QueueNumbers
    <2>3. q \in DOMAIN table => table[q].claimed \/ q \in late
        BY <1>3 DEF ReadHolds
    <2> QED BY <2>2, <2>3 DEF ClaimsStay
<1>4. r.unclaimed = "write" => \A t \in r.rows : 1..t \subseteq Known'
    BY DEF ReadHolds, ForgetsNothing
<1> QED BY <1>1, <1>2, <1>3, <1>4 DEF ReadHolds

(* A step of one call, whose new record is justified by what it has read.     *)
LEMMA CallsStay ==
    ASSUME ChainGrows, CallsHold, chain' = chain, ForgetsNothing, ClaimsStay, NEW c \in Calls,
           NEW r \in RequestCall, ReadHolds(r), call' = [call EXCEPT ![c] = r]
    PROVE  CallsHold'
<1>1. call' \in [Calls -> RequestCall]
    BY DEF CallsHold
<1>2. ASSUME NEW d \in Calls PROVE ReadHolds(call[d]')
    <2>1. PICK s \in RequestCall : s = call'[d] /\ ReadHolds(s)
        BY DEF CallsHold
    <2> QED BY <2>1
<1>3. ASSUME NEW d \in Calls PROVE ReadHolds(call[d])'
    <2>1. PICK s \in RequestCall : s = call'[d] /\ ReadHolds(s)
        BY DEF CallsHold
    <2>2. ReadHolds(s)'
        BY <2>1, ReadStays
    <2> QED BY <2>1, <2>2 DEF ReadHolds
<1> QED BY <1>1, <1>3 DEF CallsHold, RequestCall

(* A step of a call that leaves the table as it is.                           *)
LEMMA QuietStep ==
    ASSUME RequestsInv, NEW c \in Calls, NEW r \in RequestCall, ReadHolds(r),
           call' = [call EXCEPT ![c] = r],
           UNCHANGED <<chain, tx, started, table, refreshed, hidden, scanned, late>>
    PROVE  RequestsInv'
<1>1. ForgetsNothing
    BY DEF ForgetsNothing, Known, tip
<1>2. ClaimsStay
    BY DEF ClaimsStay, RequestsInv, TableTyped, Flags
<1>3. CallsHold'
    BY <1>1, <1>2, CallsStay DEF RequestsInv
<1>4. ChainGrows' /\ TxIsOnChain' /\ TableTyped' /\ NoGaps'
    BY DEF RequestsInv, ChainGrows, Queues, TxIsOnChain, TableTyped, NoGaps, Known, tip
<1>5. TableIsTrue' /\ NoRequestIsMissed' /\ ClaimsAreNoticed'
    BY DEF RequestsInv, TableIsTrue, NoRequestIsMissed, ClaimsAreNoticed, head
<1> QED BY <1>3, <1>4, <1>5 DEF RequestsInv

(* A step of a call that writes the table.                                    *)
LEMMA TableStep ==
    ASSUME RequestsInv, NEW c \in Calls, NEW r \in RequestCall, ReadHolds(r),
           call' = [call EXCEPT ![c] = r], UNCHANGED <<chain, tx, started>>,
           ForgetsNothing, ClaimsStay, TableTyped', NoGaps', TableIsTrue', NoRequestIsMissed',
           ClaimsAreNoticed'
    PROVE  RequestsInv'
<1>1. CallsHold'
    BY CallsStay DEF RequestsInv
<1>2. ChainGrows' /\ TxIsOnChain'
    BY DEF RequestsInv, ChainGrows, Queues, TxIsOnChain, tip
<1> QED BY <1>1, <1>2 DEF RequestsInv

(* What is left to show of a step that reads no further.                      *)
LEMMA StillNoticed ==
    ASSUME RequestsInv, ForgetsNothing, ClaimsStay, UNCHANGED <<chain, started, refreshed, scanned>>
    PROVE  /\ NoRequestIsMissed' /\ ClaimsAreNoticed'
           /\ DOMAIN table' \subseteq DOMAIN table => NoGaps'
<1>1. /\ head = Len(chain) /\ head' = Len(chain) /\ tip' = tip /\ tip = chain[Len(chain)]
      /\ scanned \in 0..Len(chain) /\ (started => refreshed \in 1..Len(chain)) /\ Len(chain) \in Nat
    BY QueueNumbers DEF RequestsInv, TableTyped, head, tip
<1>2. NoRequestIsMissed'
    BY <1>1 DEF RequestsInv, NoRequestIsMissed, ForgetsNothing, Known
<1>3. ClaimsAreNoticed'
    <2> SUFFICES ASSUME scanned > 0, NEW q \in DOMAIN table' \intersect chain[scanned].claimed
                 PROVE  table'[q].claimed \/ q \in late'
        BY DEF ClaimsAreNoticed
    <2>1. scanned \in 1..Len(chain)
        BY <1>1
    <2>2. q \in tip.claimed
        BY <2>1, QueueNumbers DEF RequestsInv
    <2> QED BY <2>2 DEF ClaimsStay, RequestsInv, ClaimsAreNoticed
<1>4. DOMAIN table' \subseteq DOMAIN table => NoGaps'
    BY DEF NoGaps, RequestsInv, ForgetsNothing
<1> QED BY <1>2, <1>3, <1>4

(* Statuses of a block are written: they are true, and a claim they do not    *)
(* know of yet is counted as late.                                            *)
LEMMA Upsert ==
    ASSUME RequestsInv, NEW ids \in SUBSET (1..MaxRequests), NEW b \in 1..Len(chain),
           createOrUpdate(ids, b), chain' = chain, hidden \ ids \subseteq hidden'
    PROVE  /\ DOMAIN table' = DOMAIN table \union ids
           /\ \A q \in DOMAIN table' : table'[q] \in Flags
           /\ DOMAIN table' \subseteq 1..MaxRequests
           /\ ForgetsNothing /\ ClaimsStay /\ TableIsTrue'
           /\ \A q \in ids \intersect tip.claimed : table'[q].claimed \/ q \in late'
           /\ \A q \in DOMAIN table \ ids : table'[q] = table[q] /\ (q \in late => q \in late')
<1>1. /\ table' = [q \in DOMAIN table \union ids |->
                      IF q \in ids THEN [finalized |-> q <= chain[b].finalizedTo, claimed |-> q \in chain[b].claimed]
                      ELSE table[q]]
      /\ late' = (late \ ids) \union {q \in ids : q \in tip.claimed \ chain[b].claimed}
    BY DEF createOrUpdate, upsert, status, head, tip
<1>2. /\ chain[b].finalizedTo \in Nat /\ chain[b].finalizedTo <= tip.finalizedTo /\ tip.finalizedTo \in Nat
      /\ chain[b].claimed \subseteq tip.claimed /\ tip' = tip /\ head' = Len(chain)
      /\ head = Len(chain) /\ MaxRequests \in Nat
    BY QueueNumbers DEF RequestsInv, tip, head
<1>3. DOMAIN table' = DOMAIN table \union ids
    BY <1>1
<1>4. \A q \in ids : /\ table'[q].finalized = (q <= chain[b].finalizedTo)
                     /\ table'[q].claimed = (q \in chain[b].claimed)
                     /\ table'[q] \in Flags
    BY <1>1 DEF Flags
<1>5. \A q \in DOMAIN table \ ids : table'[q] = table[q] /\ (q \in late => q \in late')
    BY <1>1
<1>6. \A q \in ids \intersect tip.claimed : table'[q].claimed \/ q \in late'
    BY <1>1, <1>4
<1>7. \A q \in DOMAIN table' : table'[q] \in Flags
    BY <1>3, <1>4, <1>5 DEF RequestsInv, TableTyped
<1>8. DOMAIN table' \subseteq 1..MaxRequests
    BY <1>3 DEF RequestsInv, TableTyped
<1>9. ForgetsNothing
    BY <1>2, <1>3 DEF ForgetsNothing, Known
<1>10. ClaimsStay
    BY <1>3, <1>5, <1>6 DEF ClaimsStay
<1>11. TableIsTrue'
    <2> SUFFICES ASSUME NEW q \in DOMAIN table'
                 PROVE  /\ table'[q].finalized => q <= tip.finalizedTo
                        /\ table'[q].claimed => q \in tip.claimed
        BY <1>2 DEF TableIsTrue, tip
    <2>1. CASE q \in ids
        <3>1. q \in Nat
            <4>1. q \in 1..MaxRequests
                BY <2>1
            <4> QED BY <4>1
        <3>2. table'[q].finalized => q <= chain[b].finalizedTo
            BY <1>4, <2>1
        <3>3. table'[q].claimed => q \in chain[b].claimed
            BY <1>4, <2>1
        <3> QED BY <1>2, <3>1, <3>2, <3>3
    <2>2. CASE q \notin ids
        BY <1>2, <1>3, <1>5, <2>2 DEF RequestsInv, TableIsTrue, tip
    <2> QED BY <2>1, <2>2
<1> QED BY <1>3, <1>5, <1>6, <1>7, <1>8, <1>9, <1>10, <1>11

(* The two ways a check of a block goes on.                                   *)
LEMMA ClosedIsCall == Closed \in RequestCall /\ ReadHolds(Closed)
BY DEF Closed, RequestCall, ReadHolds

LEMMA GoesOn ==
    ASSUME NEW c, NEW r \in RequestCall, ReadHolds(r), goesOn(c, r)
    PROVE  \E s \in RequestCall : ReadHolds(s) /\ call' = [call EXCEPT ![c] = s]
<1>1. CASE r.onPar = "over" /\ r.queue = "over" /\ r.unclaimed = "over"
    BY <1>1, ClosedIsCall DEF goesOn
<1>2. CASE ~(r.onPar = "over" /\ r.queue = "over" /\ r.unclaimed = "over")
    BY <1>2 DEF goesOn
<1> QED BY <1>1, <1>2

-----------------------------------------------------------------------------
(* The steps, one by one.  A new block: the queue grows.                      *)
LEMMA TxOfBlock ==
    ASSUME ChainGrows, NEW k, NEW t \in transactions(k)
    PROVE  /\ t \in [kind : TxKinds, ids : SUBSET (1..MaxRequests), to : Nat]
           /\ t.kind = "request" => t.ids # {} /\ \A q \in t.ids : q > tip.last
           /\ t.kind = "report" => tip.finalizedTo <= t.to /\ t.to <= tip.last
<1>1. tip.last \in 1..MaxRequests /\ MaxRequests \in Nat /\ tip.finalizedTo \in Nat
      /\ head = Len(chain) /\ tip = chain[Len(chain)] /\ tip.finalizedTo <= tip.last
    BY QueueNumbers
<1>2. CASE k = "request"
    <2>1. PICK n \in (tip.last + 1)..MaxRequests :
              t = [kind |-> "request", ids |-> (tip.last + 1)..n, to |-> 0]
        BY <1>1, <1>2 DEF transactions
    <2>2. (tip.last + 1)..n \subseteq 1..MaxRequests /\ tip.last + 1 \in (tip.last + 1)..n
        BY <1>1, <2>1
    <2>3. \A q \in (tip.last + 1)..n : q > tip.last
        BY <1>1, <2>1
    <2> QED BY <2>1, <2>2, <2>3 DEF TxKinds
<1>3. CASE k = "report"
    <2>1. PICK n \in tip.finalizedTo..tip.last : t = [kind |-> "report", ids |-> {}, to |-> n]
        BY <1>1, <1>3 DEF transactions
    <2> QED BY <1>1, <2>1 DEF TxKinds
<1>4. CASE k = "claim"
    <2>1. PICK S \in SUBSET ((1..tip.finalizedTo) \ tip.claimed) \ {{}} :
              t = [kind |-> "claim", ids |-> S, to |-> 0]
        BY <1>1, <1>4 DEF transactions
    <2>2. 1..tip.finalizedTo \subseteq 1..MaxRequests
        BY <1>1
    <2> QED BY <2>1, <2>2 DEF TxKinds
<1>5. CASE k = "bunker"
    <2>1. t.kind \in {"bunkerOn", "bunkerOff"} /\ t \in [kind : TxKinds, ids : SUBSET (1..MaxRequests), to : Nat]
        BY <1>5 DEF transactions, NoTx, TxKinds
    <2> QED BY <2>1
<1>6. CASE k \notin {"request", "report", "claim", "bunker"}
    <2>1. t = NoTx
        BY <1>6 DEF transactions
    <2> QED BY <2>1 DEF NoTx, TxKinds
<1> QED BY <1>2, <1>3, <1>4, <1>5, <1>6

LEMMA AfterTx ==
    ASSUME ChainGrows, NEW k, NEW t \in transactions(k)
    PROVE  LET q == after(tip, t)
           IN  /\ q \in Queues /\ q.finalizedTo <= q.last
               /\ tip.last <= q.last /\ tip.finalizedTo <= q.finalizedTo /\ tip.claimed \subseteq q.claimed
               /\ t.kind = "report" => t.to <= q.finalizedTo
               /\ t.kind = "claim" => t.ids \subseteq q.claimed
<1>1. /\ tip \in Queues /\ tip.last \in 1..MaxRequests /\ tip.finalizedTo \in Nat
      /\ tip.finalizedTo <= tip.last /\ MaxRequests \in Nat
    BY QueueNumbers
<1>2. /\ t.ids \in SUBSET (1..MaxRequests) /\ t.to \in Nat
      /\ t.kind = "request" => t.ids # {} /\ \A q \in t.ids : q > tip.last
      /\ t.kind = "report" => tip.finalizedTo <= t.to /\ t.to <= tip.last
    BY TxOfBlock
<1>3. CASE t.kind = "request"
    <2> DEFINE m == Max(t.ids)
    <2>1. m \in t.ids
        <3>1. t.ids \subseteq 0..MaxRequests
            BY <1>1, <1>2
        <3> QED BY <1>1, <1>2, <1>3, <3>1, GreatestIs
    <2>2. m \in 1..MaxRequests /\ m > tip.last
        BY <1>2, <1>3, <2>1
    <2>3. after(tip, t) = [tip EXCEPT !.last = m]
        BY <1>3 DEF after
    <2> HIDE DEF m
    <2> QED BY <1>1, <1>3, <2>2, <2>3 DEF Queues
<1>4. CASE t.kind = "report"
    <2>1. after(tip, t) = [tip EXCEPT !.finalizedTo = t.to]
        BY <1>4 DEF after
    <2> QED BY <1>1, <1>2, <1>4, <2>1 DEF Queues
<1>5. CASE t.kind = "claim"
    <2>1. after(tip, t) = [tip EXCEPT !.claimed = tip.claimed \union t.ids]
        BY <1>5 DEF after
    <2>2. tip.claimed \union t.ids \in SUBSET Nat
        BY <1>1, <1>2 DEF Queues
    <2> QED BY <1>1, <1>5, <2>1, <2>2 DEF Queues
<1>6. CASE t.kind \notin {"request", "report", "claim"}
    <2>1. \E b \in BOOLEAN : \/ after(tip, t) = [tip EXCEPT !.bunker = b]
                             \/ after(tip, t) = tip
        BY <1>6 DEF after
    <2> QED BY <1>1, <1>6, <2>1 DEF Queues
<1> QED BY <1>3, <1>4, <1>5, <1>6

LEMMA NextBlockStep ==
    ASSUME RequestsInv, nextBlock
    PROVE  RequestsInv'
<1>0. PICK k \in Kinds : \E u \in transactions(k) :
          chain' = Append(chain, after(chain[Len(chain)], u)) /\ tx' = u
    BY DEF nextBlock, head
<1>1. PICK t \in transactions(k) :
          chain' = Append(chain, after(chain[Len(chain)], t)) /\ tx' = t
    BY <1>0
<1>2. UNCHANGED <<started, table, refreshed, hidden, scanned, late, call>>
    BY DEF nextBlock, stored
<1> DEFINE q == after(tip, t)
           n == Len(chain)
<1>3. ChainGrows /\ chain \in Seq(Queues) /\ n \in Nat /\ n >= 1 /\ tip = chain[n] /\ tip \in Queues
      /\ tip.last \in 1..MaxRequests /\ tip.finalizedTo \in Nat /\ MaxRequests \in Nat
    BY QueueNumbers DEF RequestsInv, ChainGrows
<1>4. /\ q \in Queues /\ q.finalizedTo <= q.last
      /\ tip.last <= q.last /\ tip.finalizedTo <= q.finalizedTo /\ tip.claimed \subseteq q.claimed
      /\ t.kind = "report" => t.to <= q.finalizedTo
      /\ t.kind = "claim" => t.ids \subseteq q.claimed
    BY <1>3, AfterTx
<1>5. q.last \in 1..MaxRequests /\ q.finalizedTo \in Nat
    BY <1>4 DEF Queues
<1>6. chain' = Append(chain, q)
    BY <1>1, <1>3
<1> HIDE DEF q
<1>7. /\ chain' \in Seq(Queues) /\ Len(chain') = n + 1
      /\ \A i \in 1..n : chain'[i] = chain[i]
      /\ chain'[n + 1] = q
    <2>1. chain' \in Seq(Queues)
        BY <1>3, <1>4, <1>6
    <2>2. Len(chain') = n + 1 /\ chain'[n + 1] = q
        BY <1>3, <1>4, <1>6, AppendProperties
    <2>3. \A i \in 1..n : chain'[i] = chain[i]
        BY <1>3, <1>4, <1>6, AppendKeeps
    <2> QED BY <2>1, <2>2, <2>3
<1>8. tip' = q /\ head' = n + 1 /\ head = n
    BY <1>7 DEF tip, head
<1> DEFINE len == Len(chain')
<1>9. len = n + 1
    BY <1>7
<1>10. \A i \in 1..n : /\ chain[i].last \in 1..MaxRequests /\ chain[i].finalizedTo \in Nat
                       /\ chain[i].last <= tip.last /\ chain[i].finalizedTo <= tip.finalizedTo
                       /\ chain[i].claimed \subseteq tip.claimed /\ chain[i].finalizedTo <= chain[i].last
    BY <1>3, QueueNumbers
<1>11. ChainGrows'
    <2> SUFFICES /\ \A i \in 1..n + 1 : chain'[i].finalizedTo <= chain'[i].last
                 /\ \A i, j \in 1..n + 1 : i <= j =>
                        /\ chain'[i].last <= chain'[j].last
                        /\ chain'[i].finalizedTo <= chain'[j].finalizedTo
                        /\ chain'[i].claimed \subseteq chain'[j].claimed
        <3>1. chain' \in Seq(Queues) /\ Len(chain') = n + 1 /\ n + 1 >= 1
            BY <1>3, <1>7
        <3> QED BY <1>3, <3>1 DEF ChainGrows
    <2>1. \A i \in 1..n + 1 : chain'[i].finalizedTo <= chain'[i].last
        <3> TAKE i \in 1..n + 1
        <3>1. CASE i = n + 1
            BY <1>4, <1>7, <3>1
        <3>2. CASE i \in 1..n
            BY <1>7, <1>10, <3>2
        <3> QED BY <1>3, <3>1, <3>2
    <2>2. ASSUME NEW i \in 1..n + 1, NEW j \in 1..n + 1, i <= j
          PROVE  /\ chain'[i].last <= chain'[j].last
                 /\ chain'[i].finalizedTo <= chain'[j].finalizedTo
                 /\ chain'[i].claimed \subseteq chain'[j].claimed
        <3>1. CASE j \in 1..n
            <4>1. i \in 1..n
                BY <1>3, <2>2, <3>1
            <4> QED BY <1>3, <1>7, <2>2, <3>1, <4>1 DEF ChainGrows
        <3>2. CASE j = n + 1 /\ i \in 1..n
            BY <1>3, <1>4, <1>5, <1>7, <1>10, <3>2, SMTT(30)
        <3>3. CASE j = n + 1 /\ i = n + 1
            BY <1>5, <1>7, <3>3
        <3> QED BY <1>3, <2>2, <3>1, <3>2, <3>3
    <2> QED BY <2>1, <2>2
<1>12. TxIsOnChain'
    <2>1. /\ t \in [kind : TxKinds, ids : SUBSET (1..MaxRequests), to : Nat]
          /\ t.kind = "request" => t.ids # {}
        BY <1>3, TxOfBlock
    <2> QED BY <1>1, <1>4, <1>8, <2>1 DEF TxIsOnChain, TxKinds
<1>13. TableTyped'
    <2>1. refreshed' \in 0..len /\ scanned' \in 0..len /\ (started' => refreshed' \in 1..len)
        BY <1>2, <1>3, <1>9 DEF RequestsInv, TableTyped
    <2>2. DOMAIN table' \subseteq 1..MaxRequests /\ (\A z \in DOMAIN table' : table'[z] \in Flags) /\ started' \in BOOLEAN
        BY <1>2 DEF RequestsInv, TableTyped, Flags
    <2> QED BY <2>1, <2>2 DEF TableTyped, Flags
<1>14. Known \subseteq Known' /\ NoGaps'
    BY <1>2, <1>4, <1>8 DEF Known, RequestsInv, NoGaps
<1>15. CallsHold'
    <2>1. ASSUME NEW r \in RequestCall, ReadHolds(r) PROVE ReadHolds(r)'
        <3>1. r.block \in 1..n => r.block \in 1..len /\ chain'[r.block] = chain[r.block]
            BY <1>3, <1>7, <1>9
        <3>2. ASSUME r.at = "refresh"
              PROVE  \E z \in 1..MaxRequests : r.ids = z..chain'[r.block].last /\ 1..z - 1 \subseteq Known'
            BY <1>14, <2>1, <3>1, <3>2 DEF ReadHolds
        <3>3. r.at = "report" => r.to <= q.finalizedTo
            BY <1>3, <1>4, <1>5, <2>1 DEF ReadHolds, RequestCall
        <3>4. r.at \in {"claim", "claimed"} => r.ids \subseteq q.claimed
            BY <1>4, <2>1 DEF ReadHolds
        <3>5. r.unclaimed = "remove" => r.rows \subseteq q.claimed
            BY <1>4, <2>1 DEF ReadHolds
        <3>6. ASSUME r.unclaimed = "write",
                     NEW z \in (DOMAIN table' \intersect chain'[r.block].claimed) \ r.rows
              PROVE  table'[z].claimed \/ z \in late'
            BY <1>2, <2>1, <3>1, <3>6 DEF ReadHolds
        <3>7. /\ r.at # "closed" \/ r.unclaimed # "over" => r.block \in 1..len
              /\ r.at = "request" => r.ids # {}
              /\ r.at = "claimed" => r.ids # {}
            BY <2>1, <3>1 DEF ReadHolds
        <3>8. r.unclaimed = "write" => \A z \in r.rows : 1..z \subseteq Known'
            BY <1>14, <2>1 DEF ReadHolds
        <3> QED BY <1>8, <3>2, <3>3, <3>4, <3>5, <3>6, <3>7, <3>8 DEF ReadHolds
    <2>2. ASSUME NEW c \in Calls PROVE ReadHolds(call[c])'
        <3>1. PICK r \in RequestCall : r = call[c] /\ r = call'[c] /\ ReadHolds(r)
            BY <1>2 DEF RequestsInv, CallsHold
        <3>2. ReadHolds(r)'
            BY <2>1, <3>1
        <3> QED BY <3>1, <3>2 DEF ReadHolds
    <2> QED BY <1>2, <2>2 DEF RequestsInv, CallsHold, RequestCall
<1>16. TableIsTrue'
    <2> SUFFICES ASSUME NEW z \in DOMAIN table
                 PROVE  /\ table[z].finalized => z <= q.finalizedTo
                        /\ table[z].claimed => z \in q.claimed
        BY <1>2, <1>7, <1>8 DEF TableIsTrue
    <2>1. z \in Nat
        BY <1>3 DEF RequestsInv, TableTyped
    <2>2. /\ table[z].finalized => z <= tip.finalizedTo
          /\ table[z].claimed => z \in tip.claimed
        BY <1>3, <1>8 DEF RequestsInv, TableIsTrue
    <2> QED BY <1>3, <1>4, <1>5, <2>1, <2>2
<1>17. NoRequestIsMissed'
    <2> SUFFICES ASSUME started, NEW z \in 1..chain'[refreshed].last
                 PROVE  z \in Known'
        BY <1>2, <1>8, <1>7 DEF NoRequestIsMissed, Known
    <2>1. refreshed \in 1..n /\ chain'[refreshed] = chain[refreshed]
        BY <1>7 DEF RequestsInv, TableTyped
    <2>2. z \in Known
        BY <1>3, <1>8, <2>1 DEF RequestsInv, NoRequestIsMissed, Known
    <2> QED BY <1>14, <2>2
<1>18. ClaimsAreNoticed'
    <2> SUFFICES ASSUME scanned > 0, NEW z \in DOMAIN table \intersect chain'[scanned].claimed
                 PROVE  table[z].claimed \/ z \in late
        BY <1>2 DEF ClaimsAreNoticed
    <2>1. chain'[scanned] = chain[scanned]
        BY <1>3, <1>7 DEF RequestsInv, TableTyped
    <2> QED BY <2>1 DEF RequestsInv, ClaimsAreNoticed
<1> QED BY <1>11, <1>12, <1>13, <1>14, <1>15, <1>16, <1>17, <1>18 DEF RequestsInv

LEMMA RequestsTypes ==
    ASSUME RequestsInv
    PROVE  /\ DOMAIN table \subseteq 1..MaxRequests /\ MaxRequests \in Nat
           /\ \A q \in DOMAIN table : /\ table[q].finalized \in BOOLEAN /\ table[q].claimed \in BOOLEAN
                                      /\ table[q] \in Flags
           /\ Len(chain) \in Nat /\ Len(chain) >= 1 /\ head = Len(chain)
           /\ refreshed \in 0..Len(chain) /\ scanned \in 0..Len(chain)
           /\ call \in [Calls -> RequestCall]
           /\ \A c \in Calls : call[c] \in RequestCall /\ ReadHolds(call[c])
BY QueueNumbers DEF RequestsInv, TableTyped, CallsHold, Flags

(* The last stored request, and the first one not finalized.                  *)
LEMMA LastRequest ==
    ASSUME RequestsInv
    PROVE  /\ getLastRequestId \in 0..MaxRequests
           /\ \A q \in DOMAIN table : q <= getLastRequestId
           /\ getLastRequestId # 0 => getLastRequestId \in DOMAIN table
           /\ 1..getLastRequestId \subseteq Known
<1> DEFINE S == {0} \union DOMAIN table
           last == getLastRequestId
<1>1. S \subseteq 0..MaxRequests /\ S # {} /\ MaxRequests \in Nat
    BY RequestsTypes
<1>2. last \in S /\ \A q \in S : last >= q
    <2>1. last = Max(S)
        BY DEF getLastRequestId
    <2> HIDE DEF S, last
    <2> QED BY <1>1, <2>1, GreatestIs
<1> HIDE DEF last
<1>3. last \in 0..MaxRequests /\ \A q \in DOMAIN table : q <= last
    BY <1>1, <1>2
<1>4. last # 0 => last \in DOMAIN table
    BY <1>2
<1>5. 1..last \subseteq Known
    BY <1>3, <1>4 DEF RequestsInv, NoGaps
<1> QED BY <1>3, <1>4, <1>5 DEF last

LEMMA InitializeStep ==
    ASSUME RequestsInv, initialize
    PROVE  RequestsInv'
<1>1. /\ ~started /\ UNCHANGED <<chain, tx, hidden, scanned, call>>
      /\ \/ UNCHANGED <<started, table, late, refreshed>>
         \/ /\ unfinalizedRows # {}
            /\ createOrUpdate(Min(unfinalizedRows)..chain[Len(chain)].last, Len(chain))
            /\ started' = TRUE /\ refreshed' = Len(chain)
    BY RequestsTypes DEF initialize
<1>2. CASE UNCHANGED <<started, table, late, refreshed>>
    BY <1>1, <1>2, SMTT(30) DEF RequestsInv, ChainGrows, Queues, TxIsOnChain, TableTyped, NoGaps, Known, tip,
                      CallsHold, RequestCall, ReadHolds, TableIsTrue, NoRequestIsMissed, ClaimsAreNoticed,
                      head, Flags
<1>3. CASE /\ unfinalizedRows # {}
           /\ createOrUpdate(Min(unfinalizedRows)..chain[Len(chain)].last, Len(chain))
           /\ started' = TRUE /\ refreshed' = Len(chain)
    <2> DEFINE low == Min(unfinalizedRows)
               ids == low..chain[Len(chain)].last
    <2>1. low \in DOMAIN table
        <3>1. unfinalizedRows \subseteq DOMAIN table /\ DOMAIN table \subseteq Nat
            BY RequestsTypes DEF unfinalizedRows
        <3> QED BY <1>3, <3>1, LeastIs
    <2>2. low \in 1..MaxRequests /\ 1..low \subseteq Known
        BY <2>1, RequestsTypes DEF RequestsInv, NoGaps
    <2>3. /\ Len(chain) \in 1..Len(chain) /\ tip = chain[Len(chain)] /\ tip.last \in 1..MaxRequests
          /\ MaxRequests \in Nat /\ tip' = tip /\ Len(chain) \in Nat
        BY <1>1, QueueNumbers DEF RequestsInv, tip
    <2> HIDE DEF low
    <2>4. ids \in SUBSET (1..MaxRequests)
        BY <2>2, <2>3
    <2>5. ids = low..tip.last /\ createOrUpdate(ids, Len(chain))
        BY <1>3, <2>3 DEF low
    <2> HIDE DEF ids
    <2>6. /\ DOMAIN table' = DOMAIN table \union ids
          /\ \A q \in DOMAIN table' : table'[q] \in Flags
          /\ DOMAIN table' \subseteq 1..MaxRequests
          /\ ForgetsNothing /\ ClaimsStay /\ TableIsTrue'
        BY <1>1, <2>3, <2>4, <2>5, Upsert
    <2>7. 1..tip.last \subseteq Known'
        <3> SUFFICES ASSUME NEW q \in 1..tip.last, q \notin ids PROVE q \in Known'
            BY <2>6 DEF Known
        <3>1. q \in 1..low
            BY <2>2, <2>3, <2>5
        <3> QED BY <2>2, <2>6, <3>1 DEF ForgetsNothing
    <2>8. NoGaps'
        <3> SUFFICES ASSUME NEW q \in ids PROVE 1..q \subseteq 1..tip.last
            BY <2>6, <2>7 DEF NoGaps, RequestsInv, ForgetsNothing
        <3> QED BY <2>2, <2>3, <2>5
    <2>9. NoRequestIsMissed'
        BY <1>1, <1>3, <2>3, <2>7 DEF NoRequestIsMissed, Known, tip, head
    <2>10. TableTyped'
        BY <1>1, <1>3, <2>3, <2>6, RequestsTypes DEF TableTyped, Flags
    <2>11. ClaimsAreNoticed'
        <3> SUFFICES ASSUME scanned > 0, NEW q \in DOMAIN table' \intersect chain[scanned].claimed
                     PROVE  table'[q].claimed \/ q \in late'
            BY <1>1 DEF ClaimsAreNoticed
        <3>1. q \in tip.claimed
            BY RequestsTypes, QueueNumbers DEF RequestsInv
        <3> QED BY <2>6, <3>1 DEF ClaimsStay, RequestsInv, ClaimsAreNoticed
    <2>12. CallsHold'
        <3>1. call' \in [Calls -> RequestCall]
            BY <1>1, RequestsTypes
        <3>2. ASSUME NEW d \in Calls PROVE ReadHolds(call[d])'
            <4>1. PICK s \in RequestCall : s = call[d] /\ s = call'[d] /\ ReadHolds(s)
                BY <1>1, RequestsTypes
            <4>2. ReadHolds(s)'
                BY <1>1, <2>6, <4>1, ReadStays DEF RequestsInv
            <4> QED BY <4>1, <4>2 DEF ReadHolds
        <3> QED BY <3>1, <3>2 DEF CallsHold, RequestCall
    <2>13. ChainGrows' /\ TxIsOnChain'
        BY <1>1 DEF RequestsInv, ChainGrows, Queues, TxIsOnChain, tip
    <2> QED BY <2>6, <2>8, <2>9, <2>10, <2>11, <2>12, <2>13 DEF RequestsInv
<1> QED BY <1>1, <1>2, <1>3

(* The calls that only read.                                                  *)
LEMMA ReadingSteps ==
    ASSUME RequestsInv, NEW c \in Calls,
           \/ handleBlock(c) \/ handleQueueOnParWithStakeLimit(c)
           \/ unfinalizedRead(c) \/ handleUnfinalizedRequestNumber(c)
           \/ scanFails(c) \/ unclaimedRead(c) \/ finalizedRead(c)
           \/ balanceFails(c) \/ balanceAnswered(c)
           \/ handleTransaction(c) \/ transactionFails(c) \/ claimsRead(c)
    PROVE  RequestsInv'
<1> DEFINE Kept == UNCHANGED <<chain, tx, started, table, refreshed, hidden, scanned, late>>
<1> USE DEF node, stored
<1>1. /\ call \in [Calls -> RequestCall] /\ call[c] \in RequestCall /\ ReadHolds(call[c])
      /\ Len(chain) \in 1..Len(chain) /\ head = Len(chain) /\ Len(chain) \in Nat
    BY RequestsTypes
<1>2. SUFFICES Kept /\ \E r \in RequestCall : ReadHolds(r) /\ call' = [call EXCEPT ![c] = r]
    BY QuietStep
<1>3. ASSUME NEW r \in RequestCall, ReadHolds(r), goesOn(c, r)
      PROVE  \E s \in RequestCall : ReadHolds(s) /\ call' = [call EXCEPT ![c] = s]
    BY <1>3, GoesOn
<1>4. CASE handleBlock(c)
    <2> DEFINE r == [Closed EXCEPT !.at = "last", !.block = Len(chain)]
    <2>1. Kept /\ call' = [call EXCEPT ![c] = r]
        BY <1>1, <1>4 DEF handleBlock
    <2>2. r \in RequestCall /\ ReadHolds(r)
        BY <1>1, ZenonT(60) DEF Closed, RequestCall, ReadHolds
    <2> QED BY <2>1, <2>2
<1>5. CASE handleQueueOnParWithStakeLimit(c)
    <2>1. PICK found \in dueAlerts({"onPar"}, call[c].block) :
              goesOn(c, [call[c] EXCEPT !.onPar = "over", !.found = call[c].found \union found])
        BY <1>5 DEF handleQueueOnParWithStakeLimit
    <2>2. found \subseteq Daily
        BY DEF dueAlerts, Daily
    <2> DEFINE r == [call[c] EXCEPT !.onPar = "over", !.found = call[c].found \union found]
    <2>3. r \in RequestCall /\ ReadHolds(r)
        BY <1>1, <2>2, ZenonT(60) DEF RequestCall, ReadHolds
    <2> HIDE DEF r
    <2>4. Kept
        BY <1>5 DEF handleQueueOnParWithStakeLimit
    <2> QED BY <1>3, <2>1, <2>3, <2>4 DEF r
<1>6. CASE unfinalizedRead(c)
    <2> DEFINE r == [call[c] EXCEPT !.queue = "over"]
               s == [call[c] EXCEPT !.queue = "ask", !.first = Min(unfinalizedRows)]
    <2>1. Kept /\ \/ goesOn(c, r)
                  \/ unfinalizedRows # {} /\ goesOn(c, s)
        BY <1>6 DEF unfinalizedRead
    <2>2. r \in RequestCall /\ ReadHolds(r)
        BY <1>1, ZenonT(60) DEF RequestCall, ReadHolds
    <2>3. unfinalizedRows # {} => s \in RequestCall /\ ReadHolds(s)
        <3>1. unfinalizedRows \subseteq Nat
            BY RequestsTypes DEF unfinalizedRows
        <3>2. unfinalizedRows # {} => Min(unfinalizedRows) \in Nat
            BY <3>1, LeastIs
        <3> QED BY <1>1, <3>2 DEF RequestCall, ReadHolds
    <2> HIDE DEF r, s
    <2> QED BY <1>3, <2>1, <2>2, <2>3
<1>7. CASE handleUnfinalizedRequestNumber(c)
    <2>1. Kept
        BY <1>7 DEF handleUnfinalizedRequestNumber
    <2>2. PICK found \in SUBSET Daily :
              goesOn(c, [call[c] EXCEPT !.queue = "over", !.first = 0, !.found = found])
        <3>1. CASE goesOn(c, [call[c] EXCEPT !.queue = "over", !.first = 0])
            <4>1. [call[c] EXCEPT !.queue = "over", !.first = 0]
                      = [call[c] EXCEPT !.queue = "over", !.first = 0, !.found = call[c].found]
                BY <1>1 DEF RequestCall
            <4>2. call[c].found \in SUBSET Daily
                BY <1>1 DEF RequestCall
            <4> QED BY <3>1, <4>1, <4>2
        <3>2. ASSUME NEW big \in dueAlerts({"bigQueue"}, call[c].block), NEW long \in SUBSET {"longQueue"},
                     goesOn(c, [call[c] EXCEPT !.queue = "over", !.first = 0,
                                             !.found = call[c].found \union big \union long])
              PROVE  \E found \in SUBSET Daily :
                         goesOn(c, [call[c] EXCEPT !.queue = "over", !.first = 0, !.found = found])
            <4>1. call[c].found \union big \union long \in SUBSET Daily
                BY <1>1 DEF RequestCall, dueAlerts, Daily
            <4> QED BY <3>2, <4>1
        <3> DEFINE long == {k \in {"longQueue"} : isLongQueue(call[c]) /\ mayAlert(k, call[c].block)}
        <3>3. long \in SUBSET {"longQueue"}
            OBVIOUS
        <3>4. \/ goesOn(c, [call[c] EXCEPT !.queue = "over", !.first = 0])
              \/ \E big \in dueAlerts({"bigQueue"}, call[c].block) :
                     goesOn(c, [call[c] EXCEPT !.queue = "over", !.first = 0,
                                             !.found = call[c].found \union big \union long])
            <4> HIDE DEF goesOn, dueAlerts
            <4> QED BY <1>7, Zenon DEF handleUnfinalizedRequestNumber
        <3> HIDE DEF long
        <3>5. CASE \E big \in dueAlerts({"bigQueue"}, call[c].block) :
                       goesOn(c, [call[c] EXCEPT !.queue = "over", !.first = 0,
                                               !.found = call[c].found \union big \union long])
            <4>1. PICK big \in dueAlerts({"bigQueue"}, call[c].block) :
                      goesOn(c, [call[c] EXCEPT !.queue = "over", !.first = 0,
                                              !.found = call[c].found \union big \union long])
                BY <3>5, Zenon
            <4> QED BY <3>2, <3>3, <4>1
        <3> QED BY <3>1, <3>4, <3>5
    <2> DEFINE r == [call[c] EXCEPT !.queue = "over", !.first = 0, !.found = found]
    <2>3. r \in RequestCall /\ ReadHolds(r)
        BY <1>1, ZenonT(60) DEF RequestCall, ReadHolds
    <2> HIDE DEF r
    <2> QED BY <1>3, <2>1, <2>2, <2>3 DEF r
<1>8. CASE scanFails(c)
    <2> DEFINE r == [call[c] EXCEPT !.unclaimed = "over", !.rows = {}]
    <2>1. Kept /\ goesOn(c, r)
        BY <1>8 DEF scanFails
    <2>2. r \in RequestCall /\ ReadHolds(r)
        <3>1. r \in RequestCall
            BY <1>1 DEF RequestCall
        <3>2. /\ r.unclaimed = "over" /\ r.at = call[c].at /\ r.block = call[c].block
              /\ r.ids = call[c].ids /\ r.to = call[c].to
            BY <1>1 DEF RequestCall
        <3> HIDE DEF r
        <3> QED BY <1>1, <1>8, <3>1, <3>2 DEF ReadHolds, scanFails
    <2> HIDE DEF r
    <2> QED BY <1>3, <2>1, <2>2
<1>9. CASE unclaimedRead(c)
    <2> DEFINE rows == getUnclaimedReqIds
               r == [call[c] EXCEPT !.unclaimed = "write", !.rows = rows]
    <2>1. Kept /\ goesOn(c, r) /\ call[c].unclaimed = "ids"
        BY <1>9 DEF unclaimedRead
    <2>2. /\ rows \in SUBSET (1..MaxRequests) /\ \A q \in DOMAIN table \ rows : table[q].claimed
          /\ \A t \in rows : 1..t \subseteq Known
        BY RequestsTypes DEF getUnclaimedReqIds, RequestsInv, NoGaps
    <2> HIDE DEF rows
    <2>3. r \in RequestCall /\ ReadHolds(r)
        BY <1>1, <2>1, <2>2 DEF RequestCall, ReadHolds
    <2> HIDE DEF r
    <2> QED BY <1>3, <2>1, <2>3
<1>10. CASE finalizedRead(c)
    <2> DEFINE rows == {q \in finalizedRows : isOldClaimed(q, call[c].block)}
               r == [call[c] EXCEPT !.unclaimed = "remove", !.rows = rows]
    <2>1. Kept /\ goesOn(c, r) /\ call[c].unclaimed = "rows"
        BY <1>10 DEF finalizedRead
    <2>2. rows \in SUBSET (1..MaxRequests) /\ rows \subseteq tip.claimed
        <3>1. \A q \in DOMAIN table : table[q].claimed => q \in tip.claimed
            BY RequestsTypes DEF RequestsInv, TableIsTrue, tip
        <3> QED BY <3>1, RequestsTypes DEF finalizedRows, isOldClaimed
    <2> HIDE DEF rows
    <2>3. r \in RequestCall /\ ReadHolds(r)
        BY <1>1, <2>1, <2>2 DEF RequestCall, ReadHolds
    <2> HIDE DEF r
    <2> QED BY <1>3, <2>1, <2>3
<1>11. CASE balanceFails(c)
    <2> DEFINE found == losesRate(call[c].found)
               r == [call[c] EXCEPT !.unclaimed = "over", !.found = found]
    <2>1. Kept /\ goesOn(c, r)
        BY <1>11 DEF balanceFails
    <2>2. found \in SUBSET Daily
        BY <1>1 DEF RequestCall, losesRate
    <2> HIDE DEF found
    <2>3. r \in RequestCall
        BY <1>1, <2>2 DEF RequestCall
    <2>5. ReadHolds(r)
        <3>1. /\ r.at = call[c].at /\ r.block = call[c].block /\ r.ids = call[c].ids /\ r.to = call[c].to
              /\ r.rows = call[c].rows /\ r.unclaimed = "over"
            BY <1>1 DEF RequestCall
        <3> HIDE DEF r
        <3> QED BY <1>1, <3>1 DEF ReadHolds
    <2> HIDE DEF r
    <2> QED BY <1>3, <2>1, <2>3, <2>5
<1>12. CASE balanceAnswered(c)
    <2>1. PICK found \in dueAlerts({"balance"}, call[c].block) :
              goesOn(c, [call[c] EXCEPT !.unclaimed = "over", !.found = call[c].found \union found])
        BY <1>12 DEF balanceAnswered
    <2>2. found \subseteq Daily
        BY DEF dueAlerts, Daily
    <2> DEFINE r == [call[c] EXCEPT !.unclaimed = "over", !.found = call[c].found \union found]
    <2>3. r \in RequestCall
        BY <1>1, <2>2 DEF RequestCall
    <2>5. ReadHolds(r)
        <3>1. /\ r.at = call[c].at /\ r.block = call[c].block /\ r.ids = call[c].ids /\ r.to = call[c].to
              /\ r.rows = call[c].rows /\ r.unclaimed = "over"
            BY <1>1 DEF RequestCall
        <3> HIDE DEF r
        <3> QED BY <1>1, <3>1 DEF ReadHolds
    <2> HIDE DEF r
    <2>4. Kept
        BY <1>12 DEF balanceAnswered
    <2> QED BY <1>3, <2>1, <2>3, <2>4, <2>5 DEF r
<1>13. CASE handleTransaction(c)
    <2> DEFINE r == [Closed EXCEPT !.at = tx.kind, !.block = Len(chain), !.ids = tx.ids, !.to = tx.to]
    <2>1. Kept /\ call' = [call EXCEPT ![c] = IF awaits(tx) THEN r ELSE Closed]
        BY <1>1, <1>13 DEF handleTransaction
    <2>2. awaits(tx) => r \in RequestCall /\ ReadHolds(r)
        <3> SUFFICES ASSUME awaits(tx) PROVE r \in RequestCall /\ ReadHolds(r)
            OBVIOUS
        <3>1. tx.kind \in {"request", "report", "claim"}
            BY DEF awaits
        <3>2. /\ tx.ids \in SUBSET (1..MaxRequests) /\ tx.to \in Nat
              /\ tx.kind = "request" => tx.ids # {}
              /\ tx.kind = "report" => tx.to <= tip.finalizedTo
              /\ tx.kind = "claim" => tx.ids \subseteq tip.claimed
            BY DEF RequestsInv, TxIsOnChain
        <3>3. r \in RequestCall
            BY <1>1, <3>1, <3>2 DEF Closed, RequestCall
        <3>4. /\ r.at = tx.kind /\ r.block = Len(chain) /\ r.ids = tx.ids /\ r.to = tx.to
              /\ r.unclaimed = "over"
            BY DEF Closed
        <3> HIDE DEF r
        <3> QED BY <1>1, <3>1, <3>2, <3>3, <3>4 DEF ReadHolds
    <2> HIDE DEF r
    <2> QED BY <2>1, <2>2, ClosedIsCall
<1>14. CASE transactionFails(c)
    <2>1. Kept /\ call' = [call EXCEPT ![c] = Closed]
        BY <1>14 DEF transactionFails, fails
    <2> QED BY <2>1, ClosedIsCall
<1>15. CASE claimsRead(c)
    <2> DEFINE known == call[c].ids \intersect DOMAIN table
               r == [call[c] EXCEPT !.at = "claimed", !.ids = known]
    <2>1. /\ Kept /\ call[c].at = "claim"
          /\ call' = [call EXCEPT ![c] = IF known = {} THEN Closed ELSE r]
        BY <1>15 DEF claimsRead
    <2>2. known # {} => r \in RequestCall /\ ReadHolds(r)
        BY <1>1, <2>1 DEF RequestCall, ReadHolds
    <2> HIDE DEF r, known
    <2> QED BY <2>1, <2>2, ClosedIsCall
<1> QED BY <1>4, <1>5, <1>6, <1>7, <1>8, <1>9, <1>10, <1>11, <1>12, <1>13, <1>14, <1>15
(* The calls that write.                                                      *)
LEMMA LaterOf ==
    ASSUME NEW a \in Nat, NEW b \in Nat
    PROVE  Max({a, b}) \in {a, b}
<1>1. \E x \in {a, b} : \A y \in {a, b} : x >= y
    OBVIOUS
<1> QED BY <1>1 DEF Max

LEMMA CheckOf ==
    ASSUME NEW c, call[c].block \in 1..Len(chain), Len(chain) \in Nat, check(c)
    PROVE  \E s \in RequestCall : ReadHolds(s) /\ call' = [call EXCEPT ![c] = s]
<1> DEFINE r == [Closed EXCEPT !.at = "checks", !.block = call[c].block, !.onPar = "ask",
                                        !.queue = "read", !.unclaimed = "ids"]
<1>1. goesOn(c, r) \/ goesOn(c, Closed)
    BY DEF check
<1>2. call[c].block \in Nat
    OBVIOUS
<1>3. r.at = "checks" /\ r.block = call[c].block /\ r.unclaimed = "ids"
    BY DEF Closed
<1>4. r \in RequestCall
    BY <1>2 DEF Closed, RequestCall
<1> HIDE DEF r
<1>5. ReadHolds(r)
    BY <1>3 DEF ReadHolds
<1> QED BY <1>1, <1>4, <1>5, ClosedIsCall, GoesOn

LEMMA LastReadStep ==
    ASSUME RequestsInv, NEW c \in Calls, lastRequestIdRead(c)
    PROVE  RequestsInv'
<1> USE DEF node, stored
<1> DEFINE b == call[c].block
           last == getLastRequestId
           ids == last..chain[b].last
<1>1. /\ call[c].at = "last" /\ UNCHANGED <<chain, tx, started>>
      /\ \/ fails(c)
         \/ /\ chain[b].last > last /\ 0 \notin ids
            /\ call' = [call EXCEPT ![c].at = "refresh", ![c].ids = ids]
            /\ UNCHANGED <<table, refreshed, hidden, scanned, late>>
         \/ /\ ~(chain[b].last > last)
            /\ refreshed' = Max({refreshed, b})
            /\ check(c)
            /\ UNCHANGED <<table, hidden, scanned, late>>
    BY DEF lastRequestIdRead, isOutdated
<1>2. /\ b \in 1..Len(chain) /\ Len(chain) \in Nat /\ call \in [Calls -> RequestCall]
      /\ call[c] \in RequestCall /\ ReadHolds(call[c]) /\ MaxRequests \in Nat
    BY <1>1, RequestsTypes DEF ReadHolds
<1>3. chain[b].last \in 1..MaxRequests /\ last \in 0..MaxRequests /\ 1..last \subseteq Known
    BY <1>2, QueueNumbers, LastRequest DEF RequestsInv
<1>4. CASE fails(c)
    <2>1. /\ UNCHANGED <<chain, tx, started, table, refreshed, hidden, scanned, late>>
          /\ call' = [call EXCEPT ![c] = Closed]
        BY <1>1, <1>4 DEF fails
    <2> QED BY <2>1, ClosedIsCall, QuietStep
<1>5. CASE /\ chain[b].last > last /\ 0 \notin ids
           /\ call' = [call EXCEPT ![c].at = "refresh", ![c].ids = ids]
           /\ UNCHANGED <<table, refreshed, hidden, scanned, late>>
    <2> DEFINE r == [call[c] EXCEPT !.at = "refresh", !.ids = ids]
    <2>1. call' = [call EXCEPT ![c] = r]
        BY <1>2, <1>5
    <2>2. last \in 1..MaxRequests /\ 1..last - 1 \subseteq Known /\ ids \in SUBSET (1..MaxRequests)
        BY <1>2, <1>3, <1>5
    <2> HIDE DEF last
    <2>3. r \in RequestCall
        BY <1>2, <2>2 DEF RequestCall
    <2>4. /\ r.at = "refresh" /\ r.block = b /\ r.ids = ids /\ r.rows = call[c].rows
          /\ r.unclaimed = call[c].unclaimed
        BY <1>2 DEF RequestCall
    <2> HIDE DEF r
    <2>5. ReadHolds(r)
        <3>1. \E k \in 1..MaxRequests : r.ids = k..chain[r.block].last /\ 1..k - 1 \subseteq Known
            BY <2>2, <2>4
        <3> QED BY <1>2, <2>4, <3>1 DEF ReadHolds
    <2> QED BY <1>1, <1>5, <2>1, <2>3, <2>5, QuietStep
<1>6. CASE /\ ~(chain[b].last > last)
           /\ refreshed' = Max({refreshed, b})
           /\ check(c)
           /\ UNCHANGED <<table, hidden, scanned, late>>
    <2> HIDE DEF last
    <2>1. PICK s \in RequestCall : ReadHolds(s) /\ call' = [call EXCEPT ![c] = s]
        BY <1>2, <1>6, CheckOf
    <2>2. refreshed' \in {refreshed, b}
        BY <1>2, <1>6, RequestsTypes, LaterOf
    <2>3. ForgetsNothing /\ Known' = Known /\ tip' = tip /\ head' = Len(chain) /\ head = Len(chain)
        BY <1>1, <1>6, RequestsTypes DEF ForgetsNothing, Known, tip, head
    <2>4. ClaimsStay
        BY <1>6, RequestsTypes DEF ClaimsStay
    <2>5. TableTyped'
        BY <1>1, <1>2, <1>6, <2>2 DEF RequestsInv, TableTyped
    <2>6. NoGaps' /\ TableIsTrue' /\ ClaimsAreNoticed'
        BY <1>1, <1>6, <2>3 DEF RequestsInv, NoGaps, TableIsTrue, ClaimsAreNoticed
    <2>7. NoRequestIsMissed'
        <3> SUFFICES ASSUME started, NEW q \in 1..chain[refreshed'].last PROVE q \in Known
            BY <1>1, <2>3 DEF NoRequestIsMissed, Known, tip
        <3>1. CASE refreshed' = refreshed
            BY <2>3, <3>1 DEF RequestsInv, NoRequestIsMissed, Known, tip
        <3>2. CASE refreshed' = b
            BY <1>3, <1>6, <3>2
        <3> QED BY <2>2, <3>1, <3>2
    <2> QED BY <1>1, <2>1, <2>3, <2>4, <2>5, <2>6, <2>7, TableStep
<1> QED BY <1>1, <1>4, <1>5, <1>6

LEMMA RefreshStep ==
    ASSUME RequestsInv, NEW c \in Calls, refresh(c)
    PROVE  RequestsInv'
<1> USE DEF node, stored
<1> DEFINE b == call[c].block
           ids == call[c].ids
<1>1. /\ call[c].at = "refresh" /\ UNCHANGED <<chain, tx, started>>
      /\ \/ fails(c)
         \/ /\ createOrUpdate(ids, b)
            /\ refreshed' = Max({refreshed, b})
            /\ hidden' = hidden \ ids
            /\ check(c)
            /\ scanned' = scanned
    BY DEF refresh
<1>2. /\ b \in 1..Len(chain) /\ Len(chain) \in Nat /\ ReadHolds(call[c]) /\ MaxRequests \in Nat
      /\ ids \in SUBSET (1..MaxRequests)
    BY <1>1, RequestsTypes DEF ReadHolds, RequestCall
<1>3. CASE fails(c)
    <2>1. /\ UNCHANGED <<chain, tx, started, table, refreshed, hidden, scanned, late>>
          /\ call' = [call EXCEPT ![c] = Closed]
        BY <1>1, <1>3 DEF fails
    <2> QED BY <2>1, ClosedIsCall, QuietStep
<1>4. CASE ~fails(c)
    <2>1. PICK s \in RequestCall : ReadHolds(s) /\ call' = [call EXCEPT ![c] = s]
        BY <1>1, <1>2, <1>4, CheckOf
    <2>2. refreshed' \in {refreshed, b}
        BY <1>1, <1>2, <1>4, RequestsTypes, LaterOf
    <2>3. PICK k \in 1..MaxRequests : ids = k..chain[b].last /\ 1..k - 1 \subseteq Known
        BY <1>1, <1>2 DEF ReadHolds
    <2>4. tip' = tip /\ head' = Len(chain) /\ head = Len(chain) /\ chain[b].last \in 1..MaxRequests
        BY <1>1, <1>2, QueueNumbers DEF RequestsInv, tip, head
    <2>5. /\ DOMAIN table' = DOMAIN table \union ids
          /\ \A q \in DOMAIN table' : table'[q] \in Flags
          /\ DOMAIN table' \subseteq 1..MaxRequests
          /\ ForgetsNothing /\ ClaimsStay /\ TableIsTrue'
        <3>1. createOrUpdate(ids, b) /\ hidden \ ids \subseteq hidden'
            BY <1>1, <1>4
        <3> HIDE DEF ids, b
        <3> QED BY <1>1, <1>2, <3>1, Upsert
    <2>6. 1..chain[b].last \subseteq Known'
        <3> SUFFICES ASSUME NEW q \in 1..chain[b].last, q \notin ids PROVE q \in Known'
            BY <2>5 DEF Known
        <3>1. q \in 1..k - 1
            BY <1>2, <2>3, <2>4
        <3> QED BY <2>3, <2>5, <3>1 DEF ForgetsNothing
    <2>7. NoGaps'
        <3> SUFFICES ASSUME NEW q \in ids PROVE 1..q \subseteq 1..chain[b].last
            BY <2>5, <2>6 DEF NoGaps, RequestsInv, ForgetsNothing
        <3> QED BY <2>3, <2>4
    <2>8. TableTyped'
        BY <1>1, <1>2, <1>4, <2>2, <2>5 DEF RequestsInv, TableTyped, Flags
    <2>9. NoRequestIsMissed'
        <3> SUFFICES ASSUME started, NEW q \in 1..chain[refreshed'].last PROVE q \in Known'
            BY <1>1, <2>4 DEF NoRequestIsMissed, Known, tip
        <3>1. CASE refreshed' = refreshed
            BY <2>4, <2>5, <3>1 DEF RequestsInv, NoRequestIsMissed, Known, tip,
                                    ForgetsNothing
        <3>2. CASE refreshed' = b
            BY <2>6, <3>2
        <3> QED BY <2>2, <3>1, <3>2
    <2>10. ClaimsAreNoticed'
        <3> SUFFICES ASSUME scanned > 0, NEW q \in DOMAIN table' \intersect chain[scanned].claimed
                     PROVE  table'[q].claimed \/ q \in late'
            BY <1>1, <1>4 DEF ClaimsAreNoticed, fails
        <3>1. q \in tip.claimed
            BY RequestsTypes, QueueNumbers DEF RequestsInv
        <3> QED BY <2>5, <3>1 DEF ClaimsStay, RequestsInv, ClaimsAreNoticed
    <2> QED BY <1>1, <2>1, <2>5, <2>7, <2>8, <2>9, <2>10, TableStep
<1> QED BY <1>3, <1>4

LEMMA UnclaimedWrittenStep ==
    ASSUME RequestsInv, NEW c \in Calls, unclaimedWritten(c)
    PROVE  RequestsInv'
<1> USE DEF node, stored
<1> DEFINE b == call[c].block
           rows == call[c].rows
           r == [call[c] EXCEPT !.unclaimed = "rows", !.rows = {}]
<1>1. /\ call[c].unclaimed = "write" /\ UNCHANGED <<chain, tx, started, refreshed, hidden>>
      /\ createOrUpdate(rows, b)
      /\ scanned' = Max({scanned, b})
      /\ goesOn(c, r)
    BY DEF unclaimedWritten
<1>2. /\ b \in 1..Len(chain) /\ Len(chain) \in Nat /\ ReadHolds(call[c]) /\ MaxRequests \in Nat
      /\ rows \in SUBSET (1..MaxRequests) /\ call[c] \in RequestCall
    BY <1>1, RequestsTypes DEF ReadHolds, RequestCall
<1>3. r \in RequestCall /\ ReadHolds(r)
    BY <1>1, <1>2 DEF RequestCall, ReadHolds
<1> HIDE DEF r
<1>4. PICK s \in RequestCall : ReadHolds(s) /\ call' = [call EXCEPT ![c] = s]
    BY <1>1, <1>3, GoesOn
<1>5. scanned' \in {scanned, b}
    BY <1>1, <1>2, RequestsTypes, LaterOf
<1>6. tip' = tip /\ head' = Len(chain) /\ head = Len(chain)
    BY <1>1, <1>2, QueueNumbers DEF RequestsInv, tip, head
<1>7. /\ DOMAIN table' = DOMAIN table \union rows
      /\ \A q \in DOMAIN table' : table'[q] \in Flags
      /\ DOMAIN table' \subseteq 1..MaxRequests
      /\ ForgetsNothing /\ ClaimsStay /\ TableIsTrue'
      /\ \A q \in rows \intersect tip.claimed : table'[q].claimed \/ q \in late'
      /\ \A q \in DOMAIN table \ rows : table'[q] = table[q] /\ (q \in late => q \in late')
    <2>1. hidden \ rows \subseteq hidden'
        BY <1>1
    <2> HIDE DEF rows, b
    <2> QED BY <1>1, <1>2, <2>1, Upsert
<1>8. NoGaps'
    <2>1. \A q \in rows : 1..q \subseteq Known
        BY <1>1, <1>2 DEF ReadHolds
    <2> QED BY <1>7, <2>1 DEF NoGaps, RequestsInv, ForgetsNothing
<1>9. TableTyped'
    BY <1>1, <1>2, <1>5, <1>7 DEF RequestsInv, TableTyped, Flags
<1>10. NoRequestIsMissed'
    BY <1>1, <1>6, <1>7 DEF RequestsInv, NoRequestIsMissed, ForgetsNothing, Known, tip
<1>11. ClaimsAreNoticed'
    <2> SUFFICES ASSUME scanned' > 0, NEW q \in DOMAIN table' \intersect chain[scanned'].claimed
                 PROVE  table'[q].claimed \/ q \in late'
        BY <1>1 DEF ClaimsAreNoticed
    <2>1. q \in tip.claimed
        <3>1. scanned' \in 1..Len(chain)
            BY <1>2, <1>5, RequestsTypes
        <3> QED BY <3>1, QueueNumbers DEF RequestsInv
    <2>2. CASE q \in rows
        BY <1>7, <2>1, <2>2
    <2>3. CASE q \notin rows
        <3>1. q \in DOMAIN table \ rows
            BY <1>7, <2>3
        <3>2. CASE scanned' = scanned
            BY <1>7, <3>1, <3>2 DEF RequestsInv, ClaimsAreNoticed
        <3>3. CASE scanned' = b
            BY <1>1, <1>2, <1>7, <3>1, <3>3 DEF ReadHolds
        <3> QED BY <1>5, <3>2, <3>3
    <2> QED BY <2>2, <2>3
<1> QED BY <1>1, <1>4, <1>7, <1>8, <1>9, <1>10, <1>11, TableStep

(* Only rows that are claimed on the chain are removed.                       *)
LEMMA RemovedStep ==
    ASSUME RequestsInv, NEW c \in Calls, removed(c)
    PROVE  RequestsInv'
<1> USE DEF node, stored
<1> DEFINE rows == call[c].rows
<1>1. /\ call[c].unclaimed = "remove"
      /\ UNCHANGED <<chain, tx, started, refreshed, hidden, scanned, late>>
      /\ table' = [q \in DOMAIN table \ rows |-> table[q]]
    BY DEF removed
<1>2. PICK found \in dueAlerts({"unclaimedRate"}, call[c].block) :
          goesOn(c, [call[c] EXCEPT
              !.unclaimed = IF mayAlert("balance", call[c].block) THEN "balance" ELSE "over",
              !.rows = {}, !.found = call[c].found \union found])
    BY DEF removed
<1>3. /\ ReadHolds(call[c]) /\ rows \subseteq tip.claimed /\ call[c] \in RequestCall
      /\ found \subseteq Daily
    BY <1>1, RequestsTypes DEF ReadHolds, dueAlerts, Daily
<1>4. PICK u \in {"balance", "over"} :
          goesOn(c, [call[c] EXCEPT !.unclaimed = u, !.rows = {}, !.found = call[c].found \union found])
    BY <1>2
<1> DEFINE r == [call[c] EXCEPT !.unclaimed = u, !.rows = {}, !.found = call[c].found \union found]
<1>5. r \in RequestCall
    BY <1>3 DEF RequestCall
<1>6. ReadHolds(r)
    <2>1. /\ r.at = call[c].at /\ r.block = call[c].block /\ r.ids = call[c].ids /\ r.to = call[c].to
          /\ r.unclaimed = u
        BY <1>3 DEF RequestCall
    <2> HIDE DEF r
    <2> QED BY <1>1, <1>3, <2>1 DEF ReadHolds
<1>7. PICK s \in RequestCall : ReadHolds(s) /\ call' = [call EXCEPT ![c] = s]
    <2> HIDE DEF r
    <2> QED BY <1>4, <1>5, <1>6, GoesOn DEF r
<1>8. /\ DOMAIN table' = DOMAIN table \ rows
      /\ \A q \in DOMAIN table' : table'[q] = table[q]
      /\ tip' = tip /\ head' = head
    BY <1>1 DEF tip, head
<1>9. ForgetsNothing /\ ClaimsStay
    BY <1>1, <1>3, <1>8, RequestsTypes DEF ForgetsNothing, ClaimsStay, Known
<1>10. TableTyped' /\ TableIsTrue'
    <2>1. TableTyped'
        BY <1>1, <1>8 DEF RequestsInv, TableTyped, Flags
    <2>2. TableIsTrue'
        BY <1>1, <1>8 DEF RequestsInv, TableIsTrue
    <2> QED BY <2>1, <2>2
<1>11. NoRequestIsMissed' /\ ClaimsAreNoticed' /\ NoGaps'
    BY <1>1, <1>8, <1>9, StillNoticed
<1> QED BY <1>1, <1>7, <1>9, <1>10, <1>11, TableStep

LEMMA FinalizedStep ==
    ASSUME RequestsInv, NEW c \in Calls, handleWithdrawalFinalized(c)
    PROVE  RequestsInv'
<1> USE DEF node, stored
<1> DEFINE to == call[c].to
<1>1. /\ call[c].at = "report"
      /\ UNCHANGED <<chain, tx, started, refreshed, hidden, scanned, late>>
      /\ table' = [q \in DOMAIN table |-> IF q <= to THEN [table[q] EXCEPT !.finalized = TRUE] ELSE table[q]]
      /\ call' = [call EXCEPT ![c] = Closed]
    BY DEF handleWithdrawalFinalized, setFinalizedRequests, reached
<1>2. /\ to <= tip.finalizedTo /\ to \in Nat /\ tip.finalizedTo \in Nat
      /\ tip' = tip /\ head' = head /\ tip = chain[head]
    BY <1>1, RequestsTypes, QueueNumbers DEF RequestsInv, ReadHolds, RequestCall, tip, head
<1>3. /\ DOMAIN table' = DOMAIN table
      /\ \A q \in DOMAIN table : /\ table'[q] \in Flags /\ table'[q].claimed = table[q].claimed
                                 /\ q > to => table'[q].finalized = table[q].finalized
                                 /\ q \in Nat
    <2>1. DOMAIN table' = DOMAIN table
        BY <1>1
    <2> SUFFICES ASSUME NEW q \in DOMAIN table
                 PROVE  /\ table'[q] \in Flags /\ table'[q].claimed = table[q].claimed
                        /\ q > to => table'[q].finalized = table[q].finalized
                        /\ q \in Nat
        BY <2>1
    <2>2. table[q] \in Flags /\ q \in Nat
        BY RequestsTypes
    <2>3. CASE q <= to
        <3>1. table'[q] = [table[q] EXCEPT !.finalized = TRUE]
            BY <1>1, <2>3
        <3>2. table'[q] \in Flags /\ table'[q].claimed = table[q].claimed
            BY <2>2, <3>1 DEF Flags
        <3>3. ~(q > to)
            BY <1>2, <2>2, <2>3
        <3> QED BY <2>2, <3>2, <3>3
    <2>4. CASE ~(q <= to)
        BY <1>1, <2>2, <2>4
    <2> QED BY <2>3, <2>4
<1>4. ForgetsNothing /\ ClaimsStay
    BY <1>1, <1>2, <1>3, RequestsTypes DEF ForgetsNothing, ClaimsStay, Known
<1>5. TableTyped'
    BY <1>1, <1>3 DEF RequestsInv, TableTyped, Flags
<1>6. TableIsTrue'
    <2> SUFFICES ASSUME NEW q \in DOMAIN table
                 PROVE  /\ table'[q].finalized => q <= tip.finalizedTo
                        /\ table'[q].claimed => q \in tip.claimed
        BY <1>1, <1>2, <1>3 DEF TableIsTrue
    <2>1. /\ table[q].finalized => q <= tip.finalizedTo
          /\ table[q].claimed => q \in tip.claimed
        BY <1>2 DEF RequestsInv, TableIsTrue
    <2>2. CASE q <= to
        BY <1>2, <1>3, <2>1, <2>2
    <2>3. CASE q > to
        BY <1>3, <2>1, <2>3
    <2> QED BY <1>2, <1>3, <2>2, <2>3
<1>7. NoRequestIsMissed' /\ ClaimsAreNoticed' /\ NoGaps'
    BY <1>1, <1>3, <1>4, StillNoticed
<1> QED BY <1>1, <1>4, <1>5, <1>6, <1>7, ClosedIsCall, TableStep

LEMMA RequestStep ==
    ASSUME RequestsInv, NEW c \in Calls, handleWithdrawalRequest(c)
    PROVE  RequestsInv'
<1> USE DEF node, stored
<1> DEFINE b == call[c].block
           ids == call[c].ids
           most == Max(ids)
<1>1. /\ call[c].at = "request"
      /\ UNCHANGED <<chain, tx, started, refreshed, scanned>>
      /\ createOrUpdate(ids, b)
      /\ hidden' = (hidden \union ((1..most) \ DOMAIN table)) \ ids
      /\ call' = [call EXCEPT ![c] = Closed]
    BY DEF handleWithdrawalRequest
<1>2. /\ b \in 1..Len(chain) /\ MaxRequests \in Nat
      /\ ids \in SUBSET (1..MaxRequests) /\ ids # {}
    BY <1>1, RequestsTypes DEF ReadHolds, RequestCall
<1>3. most \in ids /\ \A q \in ids : most >= q
    <2>1. ids \subseteq 0..MaxRequests
        BY <1>2
    <2> HIDE DEF ids
    <2> QED BY <1>2, <2>1, GreatestIs
<1> HIDE DEF ids, b, most
<1>4. /\ DOMAIN table' = DOMAIN table \union ids
      /\ \A q \in DOMAIN table' : table'[q] \in Flags
      /\ DOMAIN table' \subseteq 1..MaxRequests
      /\ ForgetsNothing /\ ClaimsStay /\ TableIsTrue'
    <2>1. hidden \ ids \subseteq hidden'
        BY <1>1
    <2> QED BY <1>1, <1>2, <2>1, Upsert
<1>5. TableTyped'
    BY <1>1, <1>4 DEF RequestsInv, TableTyped, Flags
<1>6. NoRequestIsMissed' /\ ClaimsAreNoticed'
    BY <1>1, <1>4, StillNoticed
<1>7. NoGaps'
    <2>1. 1..most \subseteq Known'
        BY <1>1, <1>4 DEF Known
    <2> SUFFICES ASSUME NEW q \in ids PROVE 1..q \subseteq 1..most
        BY <1>4, <2>1 DEF NoGaps, RequestsInv, ForgetsNothing
    <2>2. q \in Nat /\ most \in Nat /\ q <= most
        BY <1>2, <1>3
    <2> QED BY <2>2
<1> QED BY <1>1, <1>4, <1>5, <1>6, <1>7, ClosedIsCall, TableStep

LEMMA ClaimedStep ==
    ASSUME RequestsInv, NEW c \in Calls, handleWithdrawalClaimed(c)
    PROVE  RequestsInv'
<1> USE DEF node, stored
<1> DEFINE ids == call[c].ids
           one == Min(ids)
           rest == ids \ {one}
           r == [call[c] EXCEPT !.ids = rest]
<1>1. /\ call[c].at = "claimed"
      /\ UNCHANGED <<chain, tx, started, refreshed, hidden, scanned>>
      /\ \/ /\ table' = (IF one \in DOMAIN table THEN [table EXCEPT ![one].claimed = TRUE] ELSE table)
            /\ late' = late \ {one}
         \/ UNCHANGED <<table, late>>
      /\ call' = [call EXCEPT ![c] = IF rest = {} THEN Closed ELSE r]
    BY DEF handleWithdrawalClaimed, setWithdrawalRequestClaimed
<1>2. /\ ids \in SUBSET (1..MaxRequests) /\ ids # {} /\ ids \subseteq tip.claimed /\ MaxRequests \in Nat
      /\ call[c] \in RequestCall /\ ReadHolds(call[c])
    BY <1>1, RequestsTypes DEF ReadHolds, RequestCall
<1>3. one \in tip.claimed
    <2>1. ids \subseteq Nat
        BY <1>2
    <2> HIDE DEF ids
    <2> QED BY <1>2, <2>1, LeastIs
<1>4. rest # {} => r \in RequestCall /\ ReadHolds(r)
    <2> SUFFICES ASSUME rest # {} PROVE r \in RequestCall /\ ReadHolds(r)
        OBVIOUS
    <2>1. rest \in SUBSET (1..MaxRequests) /\ rest \subseteq tip.claimed
        BY <1>2
    <2> HIDE DEF rest
    <2>2. r \in RequestCall
        BY <1>2, <2>1 DEF RequestCall
    <2>3. /\ r.at = call[c].at /\ r.block = call[c].block /\ r.ids = rest /\ r.unclaimed = call[c].unclaimed
          /\ r.rows = call[c].rows
        BY <1>2 DEF RequestCall
    <2> HIDE DEF r
    <2> QED BY <1>1, <1>2, <2>1, <2>2, <2>3 DEF ReadHolds
<1>5. PICK s \in RequestCall : ReadHolds(s) /\ call' = [call EXCEPT ![c] = s]
    <2> HIDE DEF rest, r
    <2> QED BY <1>1, <1>4, ClosedIsCall
<1> HIDE DEF one, rest, r, ids
<1>6. /\ DOMAIN table' = DOMAIN table
      /\ \A q \in DOMAIN table : /\ table'[q] \in Flags /\ table'[q].finalized = table[q].finalized
                                 /\ q # one => table'[q] = table[q]
                                 /\ q = one => \/ table'[q].claimed
                                               \/ table'[q] = table[q] /\ late' = late
      /\ late \ {one} \subseteq late'
    <2>1. CASE UNCHANGED <<table, late>>
        BY <2>1, RequestsTypes
    <2>2. CASE late' = late \ {one} /\ one \notin DOMAIN table /\ table' = table
        BY <2>2, RequestsTypes
    <2>3. CASE late' = late \ {one} /\ one \in DOMAIN table /\ table' = [table EXCEPT ![one].claimed = TRUE]
        <3>1. DOMAIN table' = DOMAIN table /\ \A q \in DOMAIN table \ {one} : table'[q] = table[q]
            BY <2>3
        <3>2. table'[one] = [table[one] EXCEPT !.claimed = TRUE] /\ table[one] \in Flags
            BY <2>3, RequestsTypes
        <3>3. table'[one] \in Flags /\ table'[one].finalized = table[one].finalized /\ table'[one].claimed
            BY <3>2 DEF Flags
        <3> QED BY <2>3, <3>1, <3>3, RequestsTypes
    <2> QED BY <1>1, <2>1, <2>2, <2>3
<1>7. tip' = tip /\ head' = head /\ tip = chain[head]
    BY <1>1 DEF tip, head
<1>8. ForgetsNothing /\ ClaimsStay
    BY <1>1, <1>6, <1>7, RequestsTypes DEF ForgetsNothing, ClaimsStay, Known
<1>9. TableTyped'
    BY <1>1, <1>6 DEF RequestsInv, TableTyped, Flags
<1>10. TableIsTrue'
    <2> SUFFICES ASSUME NEW q \in DOMAIN table
                 PROVE  /\ table'[q].finalized => q <= tip.finalizedTo
                        /\ table'[q].claimed => q \in tip.claimed
        BY <1>1, <1>6, <1>7 DEF TableIsTrue
    <2>1. /\ table[q].finalized => q <= tip.finalizedTo
          /\ table[q].claimed => q \in tip.claimed
        BY <1>7 DEF RequestsInv, TableIsTrue
    <2> QED BY <1>3, <1>6, <2>1
<1>11. NoRequestIsMissed' /\ ClaimsAreNoticed' /\ NoGaps'
    BY <1>1, <1>6, <1>8, StillNoticed
<1> QED BY <1>1, <1>5, <1>8, <1>9, <1>10, <1>11, TableStep

LEMMA RequestsNext == RequestsInv /\ [Next]_(vars) => RequestsInv'
<1> SUFFICES ASSUME RequestsInv, [Next]_(vars) PROVE RequestsInv'
    OBVIOUS
<1>1. CASE UNCHANGED vars
    BY <1>1 DEF vars, node, stored, RequestsInv, ChainGrows, Queues, TxIsOnChain,
                TableTyped, NoGaps, Known, tip, CallsHold, RequestCall, ReadHolds, TableIsTrue,
                NoRequestIsMissed, ClaimsAreNoticed, head, Flags
<1>2. CASE initialize \/ nextBlock
    BY <1>2, InitializeStep, NextBlockStep
<1>3. ASSUME NEW c \in Calls,
             \/ handleBlock(c) \/ lastRequestIdRead(c) \/ refresh(c)
             \/ handleQueueOnParWithStakeLimit(c)
             \/ unfinalizedRead(c) \/ handleUnfinalizedRequestNumber(c)
             \/ scanFails(c) \/ unclaimedRead(c) \/ unclaimedWritten(c)
             \/ finalizedRead(c) \/ removed(c) \/ balanceFails(c)
             \/ balanceAnswered(c) \/ handleTransaction(c)
             \/ transactionFails(c) \/ handleWithdrawalFinalized(c)
             \/ handleWithdrawalRequest(c) \/ claimsRead(c)
             \/ handleWithdrawalClaimed(c)
      PROVE  RequestsInv'
    BY <1>3, ReadingSteps, LastReadStep, RefreshStep, UnclaimedWrittenStep, RemovedStep, FinalizedStep,
       RequestStep, ClaimedStep
<1> QED BY <1>1, <1>2, <1>3 DEF Next

(* A stored flag is true on the chain: the table never runs ahead of it.      *)
THEOREM TableIsTrueCorrect == WithdrawalsAssumption /\ Spec => []TableIsTrue
<1>1. RequestsInv => TableIsTrue
    BY DEF RequestsInv
<1> QED BY RequestsInit, RequestsNext, <1>1, PTL DEF Spec

(* The block calls pass over no request.                                      *)
THEOREM NoRequestIsMissedCorrect == WithdrawalsAssumption /\ Spec => []NoRequestIsMissed
<1>1. RequestsInv => NoRequestIsMissed
    BY DEF RequestsInv
<1> QED BY RequestsInit, RequestsNext, <1>1, PTL DEF Spec

(* The scan of the unclaimed rows notices every claim of its time.            *)
THEOREM ClaimsAreNoticedCorrect == WithdrawalsAssumption /\ Spec => []ClaimsAreNoticed
<1>1. RequestsInv => ClaimsAreNoticed
    BY DEF RequestsInv
<1> QED BY RequestsInit, RequestsNext, <1>1, PTL DEF Spec

-----------------------------------------------------------------------------
(* The withdrawals' alerts.  Only a call at its checks has found any, and no  *)
(* check is under way before or after them.                                   *)
CallFields == {"at", "block", "ids", "to", "first", "onPar", "queue", "unclaimed", "rows", "found"}
IsAlertCall(r) ==
    /\ DOMAIN r = CallFields
    /\ r.at # "checks" => /\ r.onPar = "over" /\ r.queue = "over" /\ r.unclaimed = "over"
                          /\ r.found = {}

(* An alert that set its throttle has been told, is held by its call, or is   *)
(* known to have been dropped.                                                *)
IsHeld(k, t) == \/ <<k, t>> \in told
                \/ \E c \in Calls : k \in call[c].found /\ time(call[c].block) = t
                \/ k = "unclaimedRate" /\ t \in dropped
AlertsInv ==
    /\ DOMAIN call = Calls /\ \A c \in Calls : IsAlertCall(call[c])
    /\ lastAlert = [k \in Alert |-> lastAlert[k]]
    /\ \A k \in Daily : lastAlert[k] # 0 => IsHeld(k, lastAlert[k])

LEMMA ClosedAlertCall ==
    /\ IsAlertCall(Closed) /\ Closed.found = {}
    /\ Closed = [at |-> "closed", block |-> 0, ids |-> {}, to |-> 0, first |-> 0,
                        onPar |-> "over", queue |-> "over", unclaimed |-> "over", rows |-> {}, found |-> {}]
BY DEF Closed, IsAlertCall, CallFields

LEMMA AlertsInit == Init => AlertsInv
<1> SUFFICES ASSUME Init PROVE AlertsInv
    OBVIOUS
<1>1. DOMAIN call = Calls /\ \A c \in Calls : call[c] = Closed
    BY DEF Init
<1>2. lastAlert = [k \in Alert |-> 0] /\ Daily \subseteq Alert
    BY DEF Init, Alert
<1> QED BY <1>1, <1>2, ClosedAlertCall DEF AlertsInv

(* A step of a call that has found nothing, and finds nothing.                *)
LEMMA FindsNothing ==
    ASSUME AlertsInv, NEW c \in Calls, NEW r, IsAlertCall(r), r.found = {}, call[c].found = {},
           call' = [call EXCEPT ![c] = r], told' = told, dropped' = dropped,
           lastAlert' = [k \in Alert |-> lastAlert'[k]],
           \A k \in Daily : lastAlert'[k] = lastAlert[k]
    PROVE  AlertsInv'
<1>1. /\ DOMAIN call' = Calls /\ call'[c] = r
      /\ \A d \in Calls \ {c} : call'[d] = call[d]
    BY DEF AlertsInv
<1>2. \A d \in Calls : IsAlertCall(call'[d])
    BY <1>1 DEF AlertsInv
<1>3. ASSUME NEW k \in Daily, lastAlert'[k] # 0
      PROVE  \/ <<k, lastAlert'[k]>> \in told'
             \/ \E d \in Calls : k \in call'[d].found /\ time(call'[d].block) = lastAlert'[k]
             \/ k = "unclaimedRate" /\ lastAlert'[k] \in dropped'
    <2>1. IsHeld(k, lastAlert[k]) /\ lastAlert'[k] = lastAlert[k]
        BY <1>3 DEF AlertsInv
    <2>2. ASSUME NEW d \in Calls, k \in call[d].found, time(call[d].block) = lastAlert[k]
          PROVE  k \in call'[d].found /\ time(call'[d].block) = lastAlert'[k]
        <3>1. d # c
            BY <2>2
        <3> QED BY <1>1, <2>1, <2>2, <3>1
    <2> QED BY <2>1, <2>2 DEF IsHeld
<1> QED BY <1>1, <1>2, <1>3 DEF AlertsInv, IsHeld, time, IsAlertCall

(* A check goes on: what it alerts of it holds, what its call held it keeps,  *)
(* or it is noted as dropped.                                                 *)
LEMMA AlertGoesOn ==
    ASSUME AlertsInv, NEW c \in Calls, NEW r, IsAlertCall(r), goesOn(c, r),
           NEW K, K \subseteq r.found, lastAlert' = alerted(K, r.block),
           r.block = call[c].block, call[c].found \ {"unclaimedRate"} \subseteq r.found,
           dropped \subseteq dropped',
           "unclaimedRate" \in call[c].found \ r.found => time(r.block) \in dropped'
    PROVE  AlertsInv'
<1> DEFINE over == r.onPar = "over" /\ r.queue = "over" /\ r.unclaimed = "over"
<1>1. /\ call' = [call EXCEPT ![c] = IF over THEN Closed ELSE r]
      /\ told' = IF over THEN told \union {<<k, time(r.block)>> : k \in r.found} ELSE told
    BY DEF goesOn
<1>2. /\ DOMAIN call' = Calls /\ call'[c] = (IF over THEN Closed ELSE r)
      /\ \A d \in Calls \ {c} : call'[d] = call[d]
    BY <1>1 DEF AlertsInv
<1>3. \A d \in Calls : IsAlertCall(call'[d])
    BY <1>2, ClosedAlertCall DEF AlertsInv
<1>4. lastAlert' = [k \in Alert |-> IF k \in K THEN time(r.block) ELSE lastAlert[k]]
    BY DEF alerted
<1>5. lastAlert' = [k \in Alert |-> lastAlert'[k]]
    BY <1>4
<1> DEFINE Held(k, t) == \/ <<k, t>> \in told'
                         \/ \E d \in Calls : k \in call'[d].found /\ time(call'[d].block) = t
                         \/ k = "unclaimedRate" /\ t \in dropped'
<1>6. ASSUME NEW k \in r.found
      PROVE  Held(k, time(r.block))
    <2>1. CASE over
        BY <1>1, <2>1
    <2>2. CASE ~over
        BY <1>2, <2>2
    <2> QED BY <2>1, <2>2
<1>7. ASSUME NEW k \in Daily, k \notin K, lastAlert[k] # 0
      PROVE  Held(k, lastAlert[k])
    <2>1. IsHeld(k, lastAlert[k])
        BY <1>7 DEF AlertsInv
    <2>2. told \subseteq told'
        BY <1>1
    <2>3. ASSUME NEW d \in Calls, k \in call[d].found, time(call[d].block) = lastAlert[k]
          PROVE  Held(k, lastAlert[k])
        <3>1. CASE d # c
            BY <1>2, <2>3, <3>1
        <3>2. CASE d = c /\ k \in r.found
            BY <1>6, <2>3, <3>2
        <3>3. CASE d = c /\ k \notin r.found
            BY <2>3, <3>3
        <3> QED BY <3>1, <3>2, <3>3
    <2> QED BY <2>1, <2>2, <2>3 DEF IsHeld
<1>8. ASSUME NEW k \in Daily, lastAlert'[k] # 0
      PROVE  Held(k, lastAlert'[k])
    <2>1. k \in Alert
        BY DEF Alert
    <2>2. CASE k \in K
        <3>1. lastAlert'[k] = time(r.block) /\ k \in r.found
            BY <1>4, <2>1, <2>2
        <3> QED BY <1>6, <3>1
    <2>3. CASE k \notin K
        <3>1. lastAlert'[k] = lastAlert[k]
            BY <1>4, <2>1, <2>3
        <3> QED BY <1>7, <1>8, <2>3, <3>1
    <2> QED BY <2>2, <2>3
<1> QED BY <1>2, <1>3, <1>5, <1>8 DEF AlertsInv, IsHeld, time, IsAlertCall

(* Without a new alert.                                                       *)
LEMMA KeptAlerts ==
    ASSUME AlertsInv, NEW b, lastAlert' = lastAlert
    PROVE  lastAlert' = alerted({}, b)
BY DEF AlertsInv, alerted

LEMMA AlertsStay ==
    ASSUME AlertsInv, UNCHANGED <<call, lastAlert, told, dropped>>
    PROVE  AlertsInv'
BY DEF AlertsInv, IsHeld, IsAlertCall, time

(* The steps of a call before its checks and those of a transaction.          *)
LEMMA QuietAlertSteps ==
    ASSUME AlertsInv, NEW c \in Calls,
           \/ handleBlock(c) \/ lastRequestIdRead(c) \/ refresh(c)
           \/ handleTransaction(c) \/ transactionFails(c)
           \/ handleWithdrawalFinalized(c) \/ handleWithdrawalRequest(c)
           \/ claimsRead(c) \/ handleWithdrawalClaimed(c)
    PROVE  AlertsInv'
<1> USE DEF alerts, cache
<1>1. /\ IsAlertCall(call[c]) /\ DOMAIN call[c] = CallFields
      /\ call[c].at # "checks" => /\ call[c].onPar = "over" /\ call[c].queue = "over"
                                  /\ call[c].unclaimed = "over" /\ call[c].found = {}
      /\ lastAlert = [k \in Alert |-> lastAlert[k]]
    BY DEF AlertsInv, IsAlertCall
<1>2. /\ "claimedMore" \notin Daily /\ "bigRequests" \notin Daily
      /\ Daily \subseteq Alert
    BY DEF Daily, Alert
<1>3. ASSUME NEW r, IsAlertCall(r), r.found = {}, call[c].found = {},
             call' = [call EXCEPT ![c] = r], UNCHANGED <<lastAlert, told, dropped>>
      PROVE  AlertsInv'
    BY <1>1, <1>3, FindsNothing
<1>4. ASSUME call[c].at \in {"last", "refresh"}, check(c), UNCHANGED <<lastAlert, dropped>>
      PROVE  AlertsInv'
    <2>1. call[c].found = {} /\ Closed.found = {}
        BY <1>1, <1>4, ClosedAlertCall
    <2>2. CASE time(call[c].block) % Cadence = 0
        <3> DEFINE r == [Closed EXCEPT !.at = "checks", !.block = call[c].block, !.onPar = "ask",
                                              !.queue = "read", !.unclaimed = "ids"]
        <3>1. goesOn(c, r)
            BY <1>4, <2>2 DEF check
        <3>2. IsAlertCall(r) /\ r.block = call[c].block /\ r.found = {}
            BY ClosedAlertCall DEF IsAlertCall, CallFields
        <3>3. lastAlert' = alerted({}, r.block)
            BY <1>4, KeptAlerts
        <3> HIDE DEF r
        <3> QED BY <1>4, <2>1, <3>1, <3>2, <3>3, AlertGoesOn
    <2>3. CASE ~(time(call[c].block) % Cadence = 0)
        <3>1. goesOn(c, Closed)
            BY <1>4, <2>3 DEF check
        <3>2. call' = [call EXCEPT ![c] = Closed] /\ told' = told
            BY <3>1, ClosedAlertCall DEF goesOn
        <3> QED BY <1>3, <1>4, <2>1, <3>2, ClosedAlertCall
    <2> QED BY <2>2, <2>3
<1>5. ASSUME fails(c), call[c].at # "checks", UNCHANGED dropped
      PROVE  AlertsInv'
    BY <1>1, <1>3, <1>5, ClosedAlertCall DEF fails
<1>6. CASE handleBlock(c)
    <2> DEFINE r == [Closed EXCEPT !.at = "last", !.block = head]
    <2>1. call[c].found = {} /\ call' = [call EXCEPT ![c] = r] /\ UNCHANGED <<lastAlert, told, dropped>>
        BY <1>6, ClosedAlertCall DEF handleBlock
    <2>2. IsAlertCall(r) /\ r.found = {}
        BY ClosedAlertCall DEF IsAlertCall, CallFields
    <2> QED BY <1>3, <2>1, <2>2
<1>7. CASE lastRequestIdRead(c)
    <2>1. call[c].at = "last" /\ UNCHANGED <<lastAlert, dropped>>
        BY <1>7 DEF lastRequestIdRead
    <2>2. CASE fails(c)
        BY <1>5, <2>1, <2>2
    <2>3. CASE check(c)
        BY <1>4, <2>1, <2>3
    <2>4. ASSUME NEW ids, call' = [call EXCEPT ![c].at = "refresh", ![c].ids = ids], told' = told
          PROVE  AlertsInv'
        <3> DEFINE r == [call[c] EXCEPT !.at = "refresh", !.ids = ids]
        <3>1. call' = [call EXCEPT ![c] = r]
            BY <2>4
        <3>2. IsAlertCall(r) /\ r.found = {} /\ call[c].found = {}
            BY <1>1, <2>1 DEF IsAlertCall, CallFields
        <3> QED BY <1>3, <2>1, <2>4, <3>1, <3>2
    <2> QED BY <1>7, <2>2, <2>3, <2>4 DEF lastRequestIdRead
<1>8. CASE refresh(c)
    <2>1. call[c].at = "refresh" /\ UNCHANGED <<lastAlert, dropped>>
        BY <1>8 DEF refresh
    <2> QED BY <1>4, <1>5, <1>8, <2>1 DEF refresh
<1>9. CASE handleTransaction(c)
    <2>1. PICK r : /\ call' = [call EXCEPT ![c] = r]
                   /\ \/ r = Closed
                      \/ awaits(tx) /\ r = [Closed EXCEPT !.at = tx.kind, !.block = head,
                                                                        !.ids = tx.ids, !.to = tx.to]
        BY <1>9 DEF handleTransaction
    <2>2. /\ call[c] = Closed /\ UNCHANGED <<lastAlert, told, dropped>>
        BY <1>9 DEF handleTransaction
    <2>3. awaits(tx) => tx.kind # "checks"
        BY DEF awaits
    <2>4. IsAlertCall(r) /\ r.found = {}
        BY <2>1, <2>3, ClosedAlertCall DEF IsAlertCall, CallFields
    <2> QED BY <1>3, <2>1, <2>2, <2>4, ClosedAlertCall
<1>10. CASE transactionFails(c)
    BY <1>5, <1>10 DEF transactionFails
<1>11. CASE handleWithdrawalFinalized(c)
    <2>1. call[c].at = "report" /\ call' = [call EXCEPT ![c] = Closed] /\ UNCHANGED <<lastAlert, told, dropped>>
        BY <1>11 DEF handleWithdrawalFinalized
    <2> QED BY <1>1, <1>3, <2>1, ClosedAlertCall
<1>12. CASE handleWithdrawalRequest(c)
    <2>1. /\ call[c].at = "request" /\ call' = [call EXCEPT ![c] = Closed]
          /\ UNCHANGED <<told, dropped>>
        BY <1>12 DEF handleWithdrawalRequest
    <2>2. PICK t : lastAlert' = [lastAlert EXCEPT !["bigRequests"] = t]
        <3>1. lastAlert' = lastAlert \/ lastAlert' = [lastAlert EXCEPT !["bigRequests"] = time(call[c].block)]
            BY <1>12 DEF handleWithdrawalRequest
        <3>2. lastAlert = [lastAlert EXCEPT !["bigRequests"] = lastAlert["bigRequests"]]
            BY <1>1
        <3> QED BY <3>1, <3>2
    <2>3. /\ lastAlert' = [k \in Alert |-> lastAlert'[k]]
          /\ \A k \in Daily : lastAlert'[k] = lastAlert[k]
        BY <1>1, <1>2, <2>2
    <2> QED BY <1>1, <2>1, <2>3, ClosedAlertCall, FindsNothing
<1>13. CASE claimsRead(c)
    <2>1. call[c].at = "claim" /\ UNCHANGED <<lastAlert, told, dropped>>
        BY <1>13 DEF claimsRead
    <2>2. PICK r : /\ call' = [call EXCEPT ![c] = r]
                   /\ \/ r = Closed
                      \/ \E S : r = [call[c] EXCEPT !.at = "claimed", !.ids = S]
        BY <1>13 DEF claimsRead
    <2>3. IsAlertCall(r) /\ r.found = {}
        BY <1>1, <2>1, <2>2, ClosedAlertCall DEF IsAlertCall, CallFields
    <2> QED BY <1>1, <1>3, <2>1, <2>2, <2>3
<1>14. CASE handleWithdrawalClaimed(c)
    <2>1. /\ call[c].at = "claimed" /\ UNCHANGED <<told, dropped>>
          /\ \E more \in SUBSET (Due \intersect {"claimedMore"}) :
                 lastAlert' = alerted(more, call[c].block)
        BY <1>14 DEF handleWithdrawalClaimed
    <2>2. PICK r : /\ call' = [call EXCEPT ![c] = r]
                   /\ \/ r = Closed
                      \/ \E S : r = [call[c] EXCEPT !.ids = S]
        BY <1>14 DEF handleWithdrawalClaimed
    <2>3. IsAlertCall(r) /\ r.found = {}
        BY <1>1, <2>1, <2>2, ClosedAlertCall DEF IsAlertCall, CallFields
    <2>4. /\ lastAlert' = [k \in Alert |-> lastAlert'[k]]
          /\ \A k \in Daily : lastAlert'[k] = lastAlert[k]
        BY <1>2, <2>1 DEF alerted
    <2> QED BY <1>1, <2>1, <2>2, <2>3, <2>4, FindsNothing
<1> QED BY <1>6, <1>7, <1>8, <1>9, <1>10, <1>11, <1>12, <1>13, <1>14

(* The steps of the checks.                                                   *)
LEMMA CheckSteps ==
    ASSUME AlertsInv, NEW c \in Calls,
           \/ handleQueueOnParWithStakeLimit(c)
           \/ unfinalizedRead(c) \/ handleUnfinalizedRequestNumber(c)
           \/ scanFails(c) \/ unclaimedRead(c) \/ unclaimedWritten(c)
           \/ finalizedRead(c) \/ removed(c) \/ balanceFails(c)
           \/ balanceAnswered(c)
    PROVE  AlertsInv'
<1> USE DEF alerts, cache
<1>1. /\ DOMAIN call[c] = CallFields
      /\ call[c].at # "checks" => /\ call[c].onPar = "over" /\ call[c].queue = "over"
                                  /\ call[c].unclaimed = "over" /\ call[c].found = {}
    BY DEF AlertsInv, IsAlertCall
<1>2. ASSUME NEW r, NEW K, call[c].at = "checks", DOMAIN r = CallFields, r.at = call[c].at,
             r.block = call[c].block, r.found = call[c].found \union K,
             lastAlert' = alerted(K, call[c].block), dropped' = dropped, goesOn(c, r)
      PROVE  AlertsInv'
    <2>1. IsAlertCall(r)
        BY <1>2 DEF IsAlertCall
    <2> QED BY <1>2, <2>1, AlertGoesOn
<1>3. ASSUME NEW r, call[c].at = "checks", DOMAIN r = CallFields, r.at = call[c].at,
             r.block = call[c].block, r.found = call[c].found,
             lastAlert' = lastAlert, dropped' = dropped, goesOn(c, r)
      PROVE  AlertsInv'
    <2>1. r.found = call[c].found \union {}
        BY <1>3
    <2>2. lastAlert' = alerted({}, call[c].block)
        BY <1>3, KeptAlerts
    <2> QED BY <1>2, <1>3, <2>1, <2>2
<1>4. CASE handleQueueOnParWithStakeLimit(c)
    <2>1. PICK K : /\ lastAlert' = alerted(K, call[c].block)
                   /\ goesOn(c, [call[c] EXCEPT !.onPar = "over", !.found = call[c].found \union K])
        BY <1>4 DEF handleQueueOnParWithStakeLimit
    <2>2. call[c].at = "checks" /\ dropped' = dropped
        BY <1>1, <1>4 DEF handleQueueOnParWithStakeLimit
    <2> DEFINE r == [call[c] EXCEPT !.onPar = "over", !.found = call[c].found \union K]
    <2>3. /\ DOMAIN r = CallFields /\ r.at = call[c].at /\ r.block = call[c].block
          /\ r.found = call[c].found \union K
        BY <1>1 DEF CallFields
    <2> HIDE DEF r
    <2> QED BY <1>2, <2>1, <2>2, <2>3 DEF r
<1>5. CASE unfinalizedRead(c)
    <2>1. PICK r : /\ goesOn(c, r)
                   /\ \/ r = [call[c] EXCEPT !.queue = "over"]
                      \/ \E n : r = [call[c] EXCEPT !.queue = "ask", !.first = n]
        BY <1>5 DEF unfinalizedRead
    <2>2. call[c].at = "checks" /\ UNCHANGED <<dropped, lastAlert>>
        BY <1>1, <1>5 DEF unfinalizedRead
    <2>3. /\ DOMAIN r = CallFields /\ r.at = call[c].at /\ r.block = call[c].block
          /\ r.found = call[c].found
        BY <1>1, <2>1 DEF CallFields
    <2> QED BY <1>3, <2>1, <2>2, <2>3
<1>6. CASE handleUnfinalizedRequestNumber(c)
    <2>1. call[c].at = "checks" /\ dropped' = dropped
        BY <1>1, <1>6 DEF handleUnfinalizedRequestNumber
    <2>2. CASE /\ goesOn(c, [call[c] EXCEPT !.queue = "over", !.first = 0])
               /\ UNCHANGED lastAlert
        <3> DEFINE r == [call[c] EXCEPT !.queue = "over", !.first = 0]
        <3>1. /\ DOMAIN r = CallFields /\ r.at = call[c].at /\ r.block = call[c].block
              /\ r.found = call[c].found
            BY <1>1 DEF CallFields
        <3> HIDE DEF r
        <3> QED BY <1>3, <2>1, <2>2, <3>1 DEF r
    <2>3. ASSUME NEW K, lastAlert' = alerted(K, call[c].block),
                 goesOn(c, [call[c] EXCEPT !.queue = "over", !.first = 0,
                                                  !.found = call[c].found \union K])
          PROVE  AlertsInv'
        <3> DEFINE r == [call[c] EXCEPT !.queue = "over", !.first = 0, !.found = call[c].found \union K]
        <3>1. /\ DOMAIN r = CallFields /\ r.at = call[c].at /\ r.block = call[c].block
              /\ r.found = call[c].found \union K
            BY <1>1 DEF CallFields
        <3> HIDE DEF r
        <3> QED BY <1>2, <2>1, <2>3, <3>1 DEF r
    <2>4. ASSUME NEW big, NEW long, lastAlert' = alerted(big \union long, call[c].block),
                 goesOn(c, [call[c] EXCEPT !.queue = "over", !.first = 0,
                                                  !.found = call[c].found \union big \union long])
          PROVE  AlertsInv'
        <3>1. call[c].found \union big \union long = call[c].found \union (big \union long)
            OBVIOUS
        <3> QED BY <2>3, <2>4, <3>1
    <2> QED BY <1>6, <2>2, <2>4 DEF handleUnfinalizedRequestNumber
<1>7. CASE scanFails(c) \/ unclaimedRead(c) \/ unclaimedWritten(c) \/ finalizedRead(c)
    <2>1. /\ call[c].unclaimed \in {"ids", "write", "rows", "remove"}
          /\ UNCHANGED <<lastAlert, dropped>>
          /\ \E u, S : goesOn(c, [call[c] EXCEPT !.unclaimed = u, !.rows = S])
        BY <1>7 DEF scanFails, unclaimedRead, unclaimedWritten, finalizedRead
    <2>2. PICK r : /\ goesOn(c, r)
                   /\ \E u, S : r = [call[c] EXCEPT !.unclaimed = u, !.rows = S]
        BY <2>1
    <2>3. /\ DOMAIN r = CallFields /\ r.at = call[c].at /\ r.block = call[c].block
          /\ r.found = call[c].found
        BY <1>1, <2>2 DEF CallFields
    <2> QED BY <1>1, <1>3, <2>1, <2>2, <2>3
<1>8. CASE removed(c)
    <2>1. /\ call[c].at = "checks" /\ dropped' = dropped
          /\ \E K, u : /\ lastAlert' = alerted(K, call[c].block)
                       /\ goesOn(c, [call[c] EXCEPT !.unclaimed = u, !.rows = {},
                                                           !.found = call[c].found \union K])
        BY <1>1, <1>8 DEF removed
    <2>2. PICK K : \E u : /\ lastAlert' = alerted(K, call[c].block)
                          /\ goesOn(c, [call[c] EXCEPT !.unclaimed = u, !.rows = {},
                                                              !.found = call[c].found \union K])
        BY <2>1
    <2>3. PICK r : /\ goesOn(c, r)
                   /\ \E u : r = [call[c] EXCEPT !.unclaimed = u, !.rows = {}, !.found = call[c].found \union K]
        BY <2>2
    <2>4. /\ DOMAIN r = CallFields /\ r.at = call[c].at /\ r.block = call[c].block
          /\ r.found = call[c].found \union K
        BY <1>1, <2>3 DEF CallFields
    <2> QED BY <1>2, <2>1, <2>2, <2>3, <2>4
<1>9. CASE balanceFails(c)
    <2> DEFINE r == [call[c] EXCEPT !.unclaimed = "over", !.found = losesRate(call[c].found)]
    <2>1. /\ goesOn(c, r) /\ call[c].at = "checks" /\ UNCHANGED lastAlert
          /\ dropped' = IF "unclaimedRate" \in call[c].found
                        THEN dropped \union {time(call[c].block)} ELSE dropped
        BY <1>1, <1>9 DEF balanceFails
    <2>2. /\ DOMAIN r = CallFields /\ r.at = call[c].at /\ r.block = call[c].block
          /\ r.found = call[c].found \ {"unclaimedRate"}
        BY <1>1 DEF CallFields, losesRate
    <2> HIDE DEF r
    <2>3. IsAlertCall(r) /\ lastAlert' = alerted({}, r.block)
        BY <2>1, <2>2, KeptAlerts DEF IsAlertCall
    <2>4. dropped \subseteq dropped'
        BY <2>1
    <2>5. "unclaimedRate" \in call[c].found \ r.found => time(r.block) \in dropped'
        BY <2>1, <2>2
    <2> QED BY <2>1, <2>2, <2>3, <2>4, <2>5, AlertGoesOn
<1>10. CASE balanceAnswered(c)
    <2>1. PICK K : /\ lastAlert' = alerted(K, call[c].block)
                   /\ goesOn(c, [call[c] EXCEPT !.unclaimed = "over", !.found = call[c].found \union K])
        BY <1>10 DEF balanceAnswered
    <2>2. call[c].at = "checks" /\ dropped' = dropped
        BY <1>1, <1>10 DEF balanceAnswered
    <2> DEFINE r == [call[c] EXCEPT !.unclaimed = "over", !.found = call[c].found \union K]
    <2>3. /\ DOMAIN r = CallFields /\ r.at = call[c].at /\ r.block = call[c].block
          /\ r.found = call[c].found \union K
        BY <1>1 DEF CallFields
    <2> HIDE DEF r
    <2> QED BY <1>2, <2>1, <2>2, <2>3 DEF r
<1> QED BY <1>4, <1>5, <1>6, <1>7, <1>8, <1>9, <1>10

LEMMA AlertsNext == AlertsInv /\ [Next]_(vars) => AlertsInv'
<1> SUFFICES ASSUME AlertsInv, [Next]_(vars) PROVE AlertsInv'
    OBVIOUS
<1>1. CASE initialize \/ nextBlock \/ UNCHANGED vars
    BY <1>1, AlertsStay DEF initialize, nextBlock, vars, cache, alerts
<1> QED BY <1>1, QuietAlertSteps, CheckSteps DEF Next

(* A daily alert of the withdrawals that sets its throttle is answered with   *)
(* its block, or is the unclaimed-rate alert of a call whose balance request  *)
(* failed: for any calls, overlapping ones too, and any amounts.              *)
THEOREM AlertsLeaveCorrect == Spec => []AlertsLeave
<1>1. AlertsInv => AlertsLeave
    BY DEF AlertsInv, IsHeld, AlertsLeave
<1> QED BY AlertsInit, AlertsNext, <1>1, PTL DEF Spec

-----------------------------------------------------------------------------
(* The types of the withdrawals.  Times of alerts are those of blocks, and    *)
(* only finalized requests are claimed.                                       *)
AlertTimes == {0} \union (Epoch + 1)..(Epoch + MaxBlocks)
TypesInv ==
    /\ Len(chain) <= MaxBlocks
    /\ \A i \in 1..Len(chain) : chain[i].claimed \subseteq 1..chain[i].finalizedTo
    /\ todo \subseteq {"block", "tx"} /\ isBunkerMode \in BOOLEAN /\ bigReported \in BOOLEAN
    /\ lastAlert \in [Alert -> AlertTimes]
    /\ lastTokenRebaseTimestamp \in 0..(Epoch + MaxBlocks) /\ alertsCount \in Nat
    /\ \A c \in Calls : call[c].block \in 0..Len(chain)

(* The amount is that of requests on the chain that no open call and no       *)
(* transaction to come is going to add; nor are two going to add the same.    *)
Adds(c) == call[c].at = "request"
Pending == "tx" \in todo /\ tx.kind = "request"
AddedOnce ==
    /\ \A c \in Calls : Adds(c) => call[c].ids \subseteq 1..tip.last
    /\ \A c, d \in Calls : c # d /\ Adds(c) /\ Adds(d) => call[c].ids \intersect call[d].ids = {}
    /\ Pending => /\ tx.ids \subseteq 1..tip.last
                  /\ \A c \in Calls : Adds(c) => call[c].ids \intersect tx.ids = {}
IsSumOf(S) ==
    /\ S \subseteq 1..tip.last /\ amountRequested = Cardinality(S)
    /\ \A c \in Calls : Adds(c) => S \intersect call[c].ids = {}
    /\ Pending => S \intersect tx.ids = {}
SumInv == AddedOnce /\ \E S \in SUBSET (1..MaxRequests) : IsSumOf(S)

WithdrawalsInv == RequestsInv /\ AlertsInv /\ TypesInv /\ SumInv

LEMMA ConstantNumbers ==
    ASSUME WithdrawalsAssumption
    PROVE  /\ MaxRequests \in Nat /\ MaxBlocks \in Nat /\ Epoch \in Nat /\ ReportLag \in Nat
           /\ MaxBlocks >= 1 /\ ReportLag <= Epoch
<1>1. \A x \in {OneHour, OneDay, FiveDays, TwoWeeks, MaxAlerts, BigSum, ReportLag, MaxRequests,
                MaxBlocks, Epoch} : x \in Nat
    BY DEF WithdrawalsAssumption
<1>2. MaxRequests \in Nat /\ MaxBlocks \in Nat /\ Epoch \in Nat /\ ReportLag \in Nat
    BY <1>1, Zenon
<1> QED BY <1>2 DEF WithdrawalsAssumption

LEMMA WithdrawalsInit == WithdrawalsAssumption /\ Init => WithdrawalsInv
<1> SUFFICES ASSUME WithdrawalsAssumption, Init PROVE WithdrawalsInv
    OBVIOUS
<1>1. RequestsInv /\ AlertsInv
    BY RequestsInit, AlertsInit
<1>2. PICK now \in Past : chain = <<now>>
    BY DEF Init
<1>3. Len(chain) = 1 /\ tip = now /\ \A i \in 1..Len(chain) : chain[i] = now
    BY <1>2 DEF tip
<1>4. \A c \in Calls : call[c].at = "closed" /\ call[c].block = 0
    BY DEF Init, Closed
<1>5. /\ todo = {} /\ isBunkerMode = FALSE /\ bigReported = FALSE /\ alertsCount = 0
      /\ lastTokenRebaseTimestamp = 0 /\ amountRequested = 0 /\ lastAlert = [k \in Alert |-> 0]
    BY DEF Init
<1>6. TypesInv
    <2>1. lastAlert \in [Alert -> AlertTimes]
        BY <1>5 DEF AlertTimes
    <2>2. now.claimed \subseteq 1..now.finalizedTo
        BY DEF WithdrawalsAssumption
    <2>3. Len(chain) <= MaxBlocks /\ 0 \in 0..(Epoch + MaxBlocks) /\ 0 \in 0..Len(chain)
        BY <1>3, ConstantNumbers
    <2> QED BY <1>3, <1>4, <1>5, <2>1, <2>2, <2>3 DEF TypesInv
<1>7. SumInv
    <2>1. AddedOnce
        BY <1>4, <1>5 DEF AddedOnce, Adds, Pending
    <2>2. IsSumOf({})
        BY <1>4, <1>5, FS_EmptySet DEF IsSumOf, Adds, Pending
    <2> QED BY <2>1, <2>2 DEF SumInv
<1> QED BY <1>1, <1>6, <1>7 DEF WithdrawalsInv

(* A new block: its transaction requests what no call adds yet.               *)
LEMMA WithdrawalsNextBlock ==
    ASSUME WithdrawalsAssumption, WithdrawalsInv, nextBlock
    PROVE  TypesInv' /\ SumInv'
<1>1. PICK k \in Kinds : \E t \in transactions(k) :
          /\ chain' = Append(chain, after(chain[head], t))
          /\ tx' = t
          /\ todo' = IF t = NoTx THEN {"block"} ELSE {"block", "tx"}
    BY DEF nextBlock
<1>2. PICK t \in transactions(k) :
          /\ chain' = Append(chain, after(tip, t)) /\ tx' = t
          /\ todo' \subseteq {"block", "tx"}
    BY <1>1 DEF tip, head
<1>3. /\ UNCHANGED <<cache, call, bigReported>> /\ todo = {} /\ Len(chain) < MaxBlocks
    BY DEF nextBlock, head
<1> DEFINE q == after(tip, t)
<1>4. /\ ChainGrows /\ chain \in Seq(Queues) /\ Len(chain) \in Nat /\ Len(chain) >= 1 /\ tip \in Queues
      /\ tip = chain[Len(chain)] /\ tip.last \in 1..MaxRequests /\ tip.finalizedTo \in Nat
      /\ MaxRequests \in Nat /\ tip.finalizedTo <= tip.last
    BY QueueNumbers DEF WithdrawalsInv, RequestsInv, ChainGrows
<1>5. /\ q \in Queues /\ tip.last <= q.last /\ q.last \in 1..MaxRequests
      /\ tip.finalizedTo <= q.finalizedTo /\ q.finalizedTo \in Nat
    BY <1>4, AfterTx DEF Queues
<1>6. /\ t.kind = "request" => t.ids \subseteq 1..q.last /\ \A n \in t.ids : n > tip.last
      /\ q.claimed \subseteq 1..q.finalizedTo
    <2>1. /\ t.ids \in SUBSET (1..MaxRequests) /\ t.to \in Nat
          /\ t.kind = "request" => t.ids # {} /\ \A n \in t.ids : n > tip.last
      BY <1>4, TxOfBlock
    <2>2. tip.claimed \subseteq 1..tip.finalizedTo
      BY <1>4 DEF WithdrawalsInv, TypesInv
    <2>3. 1..tip.finalizedTo \subseteq 1..q.finalizedTo
      BY <1>4, <1>5
    <2>4. CASE t.kind = "request"
      <3> DEFINE m == Max(t.ids)
      <3>1. t.ids \subseteq 0..MaxRequests
          BY <1>4, <2>1
      <3>2. m \in t.ids /\ \A n \in t.ids : m >= n
          BY <1>4, <2>1, <2>4, <3>1, GreatestIs
      <3>3. q = [tip EXCEPT !.last = m]
          BY <2>4 DEF after
      <3> HIDE DEF m, q
      <3>4. q.last = m /\ q.claimed = tip.claimed
          BY <1>4, <3>3 DEF Queues
      <3>5. \A n \in t.ids : n \in 1..m
          BY <1>4, <2>1, <3>2
      <3> QED BY <2>1, <2>2, <2>3, <2>4, <3>4, <3>5
    <2>5. CASE t.kind = "claim"
      <3>1. k = "claim"
          BY <2>5 DEF transactions, NoTx
      <3>2. t.ids \subseteq 1..tip.finalizedTo
          BY <3>1, <1>4 DEF transactions, head, tip
      <3>3. q = [tip EXCEPT !.claimed = tip.claimed \union t.ids]
          BY <2>5 DEF after
      <3>4. q.claimed = tip.claimed \union t.ids
          BY <1>4, <3>3 DEF Queues
      <3> HIDE DEF q
      <3> QED BY <2>2, <2>3, <2>5, <3>2, <3>4
    <2>6. CASE t.kind \notin {"request", "claim"}
      <3>1. q.claimed = tip.claimed
          BY <1>4, <2>6 DEF after, Queues
      <3> HIDE DEF q
      <3> QED BY <2>2, <2>3, <2>6, <3>1
    <2> QED BY <2>4, <2>5, <2>6
<1> HIDE DEF q
<1>7. /\ Len(chain') = Len(chain) + 1 /\ chain'[Len(chain) + 1] = q
      /\ \A i \in 1..Len(chain) : chain'[i] = chain[i]
    BY <1>2, <1>4, <1>5, AppendProperties, AppendKeeps DEF q
<1>8. tip' = q
    BY <1>7 DEF tip
<1>9. TypesInv'
    <2>1. Len(chain') <= MaxBlocks
        BY <1>3, <1>4, <1>7, ConstantNumbers
    <2>2. \A i \in 1..Len(chain') : chain'[i].claimed \subseteq 1..chain'[i].finalizedTo
        <3> TAKE i \in 1..Len(chain')
        <3>1. CASE i \in 1..Len(chain)
            BY <1>7, <3>1 DEF WithdrawalsInv, TypesInv
        <3>2. CASE i = Len(chain) + 1
            BY <1>6, <1>7, <3>2
        <3> QED BY <1>4, <1>7, <3>1, <3>2
    <2>3. \A c \in Calls : call'[c].block \in 0..Len(chain')
        BY <1>3, <1>4, <1>7 DEF WithdrawalsInv, TypesInv
    <2> QED BY <1>2, <1>3, <2>1, <2>2, <2>3 DEF WithdrawalsInv, TypesInv, cache, AlertTimes
<1>10. SumInv'
    <2>1. AddedOnce /\ 1..tip.last \subseteq 1..q.last
        BY <1>4, <1>5 DEF WithdrawalsInv, SumInv
    <2>2. PICK S \in SUBSET (1..MaxRequests) : IsSumOf(S)
        BY DEF WithdrawalsInv, SumInv
    <2>3. t.kind = "request" => \A n \in 1..tip.last : n \notin t.ids
        BY <1>4, <1>6
    <2>4. AddedOnce'
        BY <1>2, <1>3, <1>6, <1>8, <2>1, <2>3 DEF AddedOnce, Adds, Pending
    <2>5. IsSumOf(S)'
        BY <1>2, <1>3, <1>6, <1>8, <2>1, <2>2, <2>3 DEF IsSumOf, Adds, Pending, cache
    <2> QED BY <2>4, <2>5 DEF SumInv
<1> QED BY <1>9, <1>10

(* What the steps of a call, but the first one of a transaction's, leave.     *)
GoesTo(c, r) ==
    call' = [call EXCEPT ![c] = r] /\ r.block \in {0, call[c].block, Len(chain)} /\ r.at # "request"

LEMMA GoesOnTo ==
    ASSUME NEW c, NEW r, goesOn(c, r), r.block \in {0, call[c].block, Len(chain)}, r.at # "request"
    PROVE  \E s : GoesTo(c, s)
<1>1. Closed.block = 0 /\ Closed.at # "request"
    BY DEF Closed
<1>2. PICK s \in {Closed, r} : call' = [call EXCEPT ![c] = s]
    BY DEF goesOn
<1> QED BY <1>1, <1>2 DEF GoesTo

LEMMA ClosesTo ==
    ASSUME NEW c, call' = [call EXCEPT ![c] = Closed]
    PROVE  \E s : GoesTo(c, s)
<1>1. Closed.block = 0 /\ Closed.at # "request"
    BY DEF Closed
<1> QED BY <1>1 DEF GoesTo

LEMMA ChecksTo ==
    ASSUME NEW c, check(c)
    PROVE  \E s : GoesTo(c, s)
<1> DEFINE r == [Closed EXCEPT !.at = "checks", !.block = call[c].block, !.onPar = "ask",
                               !.queue = "read", !.unclaimed = "ids"]
<1>1. r.block = call[c].block /\ r.at # "request" /\ Closed.block = 0 /\ Closed.at # "request"
    BY DEF Closed
<1>2. goesOn(c, r) \/ goesOn(c, Closed)
    BY DEF check
<1> HIDE DEF r
<1> QED BY <1>1, <1>2, GoesOnTo

LEMMA CallsGo ==
    ASSUME RequestsInv, AlertsInv, NEW c \in Calls,
           \/ handleBlock(c) \/ lastRequestIdRead(c) \/ refresh(c)
           \/ handleQueueOnParWithStakeLimit(c)
           \/ unfinalizedRead(c) \/ handleUnfinalizedRequestNumber(c)
           \/ scanFails(c) \/ unclaimedRead(c) \/ unclaimedWritten(c) \/ finalizedRead(c)
           \/ removed(c) \/ balanceFails(c) \/ balanceAnswered(c)
           \/ transactionFails(c)
           \/ handleWithdrawalFinalized(c) \/ handleWithdrawalRequest(c)
           \/ claimsRead(c) \/ handleWithdrawalClaimed(c)
    PROVE  \E r : GoesTo(c, r)
<1>1. /\ DOMAIN call[c] = CallFields
      /\ call[c].at # "checks" => /\ call[c].onPar = "over" /\ call[c].queue = "over"
                                  /\ call[c].unclaimed = "over" /\ call[c].found = {}
    BY DEF AlertsInv, IsAlertCall
<1>2. ASSUME NEW r, goesOn(c, r), call[c].at = "checks", r.block = call[c].block, r.at = call[c].at
      PROVE  \E s : GoesTo(c, s)
    BY <1>2, GoesOnTo
<1>3. CASE handleBlock(c)
    <2> DEFINE r == [Closed EXCEPT !.at = "last", !.block = head]
    <2>1. r.block = Len(chain) /\ r.at = "last"
        BY DEF Closed, head
    <2> QED BY <1>3, <2>1 DEF handleBlock, GoesTo
<1>4. CASE lastRequestIdRead(c)
    <2>1. ASSUME NEW ids, call' = [call EXCEPT ![c].at = "refresh", ![c].ids = ids]
          PROVE  \E r : GoesTo(c, r)
        <3> DEFINE r == [call[c] EXCEPT !.at = "refresh", !.ids = ids]
        <3>1. call' = [call EXCEPT ![c] = r] /\ r.block = call[c].block /\ r.at = "refresh"
            BY <1>1, <2>1 DEF CallFields
        <3> QED BY <3>1 DEF GoesTo
    <2> QED BY <1>4, <2>1, ChecksTo, ClosesTo DEF lastRequestIdRead, fails
<1>5. CASE refresh(c)
    BY <1>5, ChecksTo, ClosesTo DEF refresh, fails
<1>6. CASE \/ handleQueueOnParWithStakeLimit(c) \/ unfinalizedRead(c)
           \/ handleUnfinalizedRequestNumber(c) \/ removed(c) \/ balanceFails(c) \/ balanceAnswered(c)
    <2>1. call[c].at = "checks"
        BY <1>1, <1>6 DEF handleQueueOnParWithStakeLimit, unfinalizedRead,
               handleUnfinalizedRequestNumber, removed, balanceFails, balanceAnswered
    <2>2. CASE handleQueueOnParWithStakeLimit(c)
        <3>1. PICK r : goesOn(c, r) /\ \E n, u, S, F : r = [call[c] EXCEPT !.onPar = "over", !.found = F]
            BY <2>2 DEF handleQueueOnParWithStakeLimit
        <3>2. r.block = call[c].block /\ r.at = call[c].at
            BY <1>1, <3>1 DEF CallFields
        <3> QED BY <1>2, <2>1, <3>1, <3>2
    <2>3. CASE unfinalizedRead(c)
        <3>1. PICK r : goesOn(c, r) /\ \E n, u, S, F : \/ r = [call[c] EXCEPT !.queue = "over"]
                                                       \/ r = [call[c] EXCEPT !.queue = "ask", !.first = n]
            BY <2>3 DEF unfinalizedRead
        <3>2. r.block = call[c].block /\ r.at = call[c].at
            BY <1>1, <3>1 DEF CallFields
        <3> QED BY <1>2, <2>1, <3>1, <3>2
    <2>4. CASE handleUnfinalizedRequestNumber(c)
        <3>1. PICK r : goesOn(c, r) /\ \E n, u, S, F : 
                           \/ r = [call[c] EXCEPT !.queue = "over", !.first = 0]
                           \/ r = [call[c] EXCEPT !.queue = "over", !.first = 0, !.found = F]
            BY <2>4 DEF handleUnfinalizedRequestNumber
        <3>2. r.block = call[c].block /\ r.at = call[c].at
            BY <1>1, <3>1 DEF CallFields
        <3> QED BY <1>2, <2>1, <3>1, <3>2
    <2>5. CASE removed(c)
        <3>1. PICK r : goesOn(c, r) /\ \E n, u, S, F : r = [call[c] EXCEPT !.unclaimed = u, !.rows = S, !.found = F]
            BY <2>5, ZenonT(60) DEF removed
        <3>2. r.block = call[c].block /\ r.at = call[c].at
            BY <1>1, <3>1 DEF CallFields
        <3> QED BY <1>2, <2>1, <3>1, <3>2
    <2>6. CASE balanceFails(c) \/ balanceAnswered(c)
        <3>1. PICK r : goesOn(c, r) /\ \E n, u, S, F : r = [call[c] EXCEPT !.unclaimed = "over", !.found = F]
            BY <2>6 DEF balanceFails, balanceAnswered
        <3>2. r.block = call[c].block /\ r.at = call[c].at
            BY <1>1, <3>1 DEF CallFields
        <3> QED BY <1>2, <2>1, <3>1, <3>2
    <2> QED BY <1>6, <2>2, <2>3, <2>4, <2>5, <2>6
<1>7. CASE scanFails(c) \/ unclaimedRead(c) \/ unclaimedWritten(c) \/ finalizedRead(c)
    <2>1. /\ call[c].unclaimed \in {"ids", "write", "rows", "remove"}
          /\ \E u, S : goesOn(c, [call[c] EXCEPT !.unclaimed = u, !.rows = S])
        BY <1>7 DEF scanFails, unclaimedRead, unclaimedWritten, finalizedRead
    <2>2. PICK r : goesOn(c, r) /\ \E u, S : r = [call[c] EXCEPT !.unclaimed = u, !.rows = S]
        BY <2>1
    <2>3. r.block = call[c].block /\ r.at = call[c].at
        BY <1>1, <2>2 DEF CallFields
    <2> QED BY <1>1, <1>2, <2>1, <2>2, <2>3
<1>8. CASE transactionFails(c) \/ handleWithdrawalFinalized(c) \/ handleWithdrawalRequest(c)
    BY <1>8, ClosesTo DEF transactionFails, fails, handleWithdrawalFinalized, handleWithdrawalRequest
<1>9. CASE claimsRead(c) \/ handleWithdrawalClaimed(c)
    <2>1. PICK r : /\ call' = [call EXCEPT ![c] = r]
                   /\ \/ r = Closed
                      \/ \E S : r = [call[c] EXCEPT !.at = "claimed", !.ids = S]
                      \/ \E S : call[c].at = "claimed" /\ r = [call[c] EXCEPT !.ids = S]
        BY <1>9 DEF claimsRead, handleWithdrawalClaimed
    <2>2. CASE r = Closed
        BY <2>1, <2>2, ClosesTo
    <2>3. CASE r # Closed
        <3>1. r.block = call[c].block /\ r.at # "request"
            BY <1>1, <2>1, <2>3 DEF CallFields
        <3> QED BY <2>1, <3>1 DEF GoesTo
    <2> QED BY <2>2, <2>3
<1> QED BY <1>3, <1>4, <1>5, <1>6, <1>7, <1>8, <1>9

(* What else they leave: an alert's time is that of the call's block.         *)
LEMMA TimeOfCall ==
    ASSUME WithdrawalsAssumption, WithdrawalsInv, NEW c \in Calls, call[c].at # "closed"
    PROVE  time(call[c].block) \in AlertTimes
<1>1. call[c].block \in 1..Len(chain)
    BY DEF WithdrawalsInv, RequestsInv, CallsHold, ReadHolds
<1>2. Len(chain) \in Nat /\ Len(chain) <= MaxBlocks
    BY QueueNumbers DEF WithdrawalsInv, RequestsInv, TypesInv
<1> QED BY <1>1, <1>2, ConstantNumbers, SMTT(30) DEF time, AlertTimes

LEMMA AlertedTimes ==
    ASSUME WithdrawalsAssumption, WithdrawalsInv, NEW c \in Calls, call[c].at # "closed", NEW K,
           lastAlert' = alerted(K, call[c].block)
    PROVE  lastAlert' \in [Alert -> AlertTimes]
BY TimeOfCall DEF alerted, WithdrawalsInv, TypesInv

LEMMA CallsLeave ==
    ASSUME WithdrawalsAssumption, WithdrawalsInv, NEW c \in Calls,
           \/ handleBlock(c) \/ lastRequestIdRead(c) \/ refresh(c)
           \/ handleQueueOnParWithStakeLimit(c)
           \/ unfinalizedRead(c) \/ handleUnfinalizedRequestNumber(c)
           \/ scanFails(c) \/ unclaimedRead(c) \/ unclaimedWritten(c) \/ finalizedRead(c)
           \/ removed(c) \/ balanceFails(c) \/ balanceAnswered(c)
           \/ transactionFails(c)
           \/ handleWithdrawalFinalized(c) \/ handleWithdrawalRequest(c)
           \/ claimsRead(c) \/ handleWithdrawalClaimed(c)
    PROVE  /\ UNCHANGED <<chain, tx, isBunkerMode, lastTokenRebaseTimestamp>>
           /\ todo' \subseteq todo /\ ("tx" \in todo' => "tx" \in todo)
           /\ lastAlert' \in [Alert -> AlertTimes]
           /\ bigReported' \in BOOLEAN /\ alertsCount' \in Nat
           /\ handleWithdrawalRequest(c) \/ amountRequested' = amountRequested
<1> USE DEF node, cache, alerts
<1>1. /\ lastAlert \in [Alert -> AlertTimes] /\ bigReported \in BOOLEAN /\ alertsCount \in Nat
      /\ call[c].at # "checks" => call[c].onPar = "over" /\ call[c].queue = "over" /\ call[c].unclaimed = "over"
    BY DEF WithdrawalsInv, TypesInv, AlertsInv, IsAlertCall
<1>2. CASE handleBlock(c)
    BY <1>1, <1>2 DEF handleBlock
<1>3. CASE lastRequestIdRead(c) \/ refresh(c)
    BY <1>1, <1>3 DEF lastRequestIdRead, refresh, fails
<1>4. CASE handleQueueOnParWithStakeLimit(c) \/ removed(c) \/ balanceAnswered(c)
    <2>1. call[c].at = "checks" /\ \E K : lastAlert' = alerted(K, call[c].block)
        BY <1>1, <1>4 DEF handleQueueOnParWithStakeLimit, removed, balanceAnswered
    <2>2. lastAlert' \in [Alert -> AlertTimes]
        BY <2>1, AlertedTimes
    <2> QED BY <1>1, <1>4, <2>2 DEF handleQueueOnParWithStakeLimit, removed, balanceAnswered
<1>5. CASE handleUnfinalizedRequestNumber(c)
    <2>1. call[c].at = "checks" /\ (lastAlert' = lastAlert \/ \E K : lastAlert' = alerted(K, call[c].block))
        BY <1>1, <1>5 DEF handleUnfinalizedRequestNumber
    <2>2. lastAlert' \in [Alert -> AlertTimes]
        BY <1>1, <2>1, AlertedTimes
    <2> QED BY <1>1, <1>5, <2>2 DEF handleUnfinalizedRequestNumber
<1>6. CASE \/ unfinalizedRead(c) \/ scanFails(c) \/ unclaimedRead(c) \/ unclaimedWritten(c)
           \/ finalizedRead(c) \/ balanceFails(c)
    BY <1>1, <1>6 DEF unfinalizedRead, scanFails, unclaimedRead, unclaimedWritten, finalizedRead, balanceFails
<1>7. CASE transactionFails(c) \/ handleWithdrawalFinalized(c) \/ claimsRead(c)
    BY <1>1, <1>7 DEF transactionFails, fails, handleWithdrawalFinalized, claimsRead
<1>8. CASE handleWithdrawalRequest(c)
    <2>1. call[c].at # "closed"
        BY <1>8 DEF handleWithdrawalRequest
    <2>2. lastAlert' = lastAlert \/ lastAlert' = [lastAlert EXCEPT !["bigRequests"] = time(call[c].block)]
        BY <1>8 DEF handleWithdrawalRequest
    <2>3. lastAlert' \in [Alert -> AlertTimes]
        BY <1>1, <2>1, <2>2, TimeOfCall
    <2>4. bigReported' \in BOOLEAN
        <3>1. bigReported' = (bigReported \/ /\ amountRequested + Cardinality(call[c].ids) >= BigSum
                                             /\ lastAlert["bigRequests"] < lastTokenRebaseTimestamp)
            BY <1>8 DEF handleWithdrawalRequest
        <3> QED BY <3>1, Zenon
    <2> QED BY <1>1, <1>8, <2>3, <2>4 DEF handleWithdrawalRequest
<1>9. CASE handleWithdrawalClaimed(c)
    <2>1. PICK more \in SUBSET (Due \intersect {"claimedMore"}) :
              alertsCount' = alertsCount + Cardinality(more) /\ lastAlert' = alerted(more, call[c].block)
        BY <1>9 DEF handleWithdrawalClaimed
    <2>2. more = {} \/ more = {"claimedMore"}
        OBVIOUS
    <2>3. Cardinality(more) \in Nat
        <3>1. CASE more = {}
            BY <3>1, FS_EmptySet
        <3>2. CASE more = {"claimedMore"}
            <4>1. Cardinality({"claimedMore"}) = 1
                BY FS_Singleton, Zenon
            <4> QED BY <3>2, <4>1
        <3> QED BY <2>2, <3>1, <3>2
    <2>4. alertsCount' \in Nat
        BY <1>1, <2>1, <2>3
    <2>5. call[c].at # "closed"
        BY <1>9 DEF handleWithdrawalClaimed
    <2>6. lastAlert' \in [Alert -> AlertTimes]
        BY <2>1, <2>5, AlertedTimes
    <2> QED BY <1>1, <1>9, <2>4, <2>6 DEF handleWithdrawalClaimed
<1> QED BY <1>2, <1>3, <1>4, <1>5, <1>6, <1>7, <1>8, <1>9

(* A call that adds no requests afterwards leaves the others theirs.          *)
LEMMA SumStays ==
    ASSUME RequestsInv, SumInv, NEW c \in Calls, NEW r, GoesTo(c, r),
           UNCHANGED <<chain, tx, amountRequested>>, "tx" \in todo' => "tx" \in todo
    PROVE  SumInv'
<1>1. PICK S \in SUBSET (1..MaxRequests) : IsSumOf(S)
    BY DEF SumInv
<1>2. /\ call'[c] = r /\ ~Adds(c)' /\ tip' = tip /\ (Pending' => Pending)
      /\ \A d \in Calls \ {c} : call'[d] = call[d]
    BY DEF GoesTo, RequestsInv, CallsHold, tip, Adds, Pending
<1>3. AddedOnce'
    BY <1>2 DEF SumInv, AddedOnce, Adds
<1>4. IsSumOf(S)'
    BY <1>1, <1>2 DEF IsSumOf, Adds
<1> QED BY <1>3, <1>4 DEF SumInv

(* A call adds its requests to the others'.                                   *)
LEMMA SumGrows ==
    ASSUME WithdrawalsAssumption, WithdrawalsInv, NEW c \in Calls, handleWithdrawalRequest(c)
    PROVE  SumInv'
<1>1. PICK S \in SUBSET (1..MaxRequests) : IsSumOf(S)
    BY DEF WithdrawalsInv, SumInv
<1>2. /\ Adds(c) /\ amountRequested' = amountRequested + Cardinality(call[c].ids)
      /\ call' = [call EXCEPT ![c] = Closed] /\ UNCHANGED <<chain, tx, todo>>
    BY DEF handleWithdrawalRequest, node, Adds
<1>3. /\ call'[c] = Closed /\ ~Adds(c)' /\ tip' = tip /\ (Pending' => Pending)
      /\ \A d \in Calls \ {c} : call'[d] = call[d]
    BY <1>2 DEF WithdrawalsInv, RequestsInv, CallsHold, tip, Adds, Pending, Closed
<1>4. AddedOnce /\ call[c].ids \subseteq 1..tip.last /\ S \intersect call[c].ids = {}
    BY <1>1, <1>2 DEF WithdrawalsInv, SumInv, AddedOnce, IsSumOf
<1>0. PICK T : T = S \union call[c].ids
    OBVIOUS
<1>5. T \subseteq 1..tip.last /\ T \subseteq 1..MaxRequests
    <2>1. 1..tip.last \subseteq 1..MaxRequests
        BY QueueNumbers DEF WithdrawalsInv, RequestsInv
    <2> QED BY <1>0, <1>1, <1>4, <2>1 DEF IsSumOf
<1>6. Cardinality(T) = amountRequested'
    <2>1. IsFiniteSet(1..MaxRequests)
        BY ConstantNumbers, FS_Interval
    <2>2. IsFiniteSet(S) /\ IsFiniteSet(call[c].ids)
        <3>1. S \in SUBSET (1..MaxRequests) /\ call[c].ids \in SUBSET (1..MaxRequests)
            BY <1>0, <1>5
        <3> QED BY <2>1, <3>1, FS_Subset
    <2>3. Cardinality(T) = Cardinality(S) + Cardinality(call[c].ids) - Cardinality(S \intersect call[c].ids)
        BY <1>0, <2>2, FS_Union
    <2>4. Cardinality(S \intersect call[c].ids) = 0
        BY <1>4, FS_EmptySet
    <2>5. Cardinality(S) \in Nat /\ Cardinality(call[c].ids) \in Nat
        BY <2>2, FS_CardinalityType
    <2> QED BY <1>1, <1>2, <2>3, <2>4, <2>5 DEF IsSumOf
<1>7. AddedOnce'
    BY <1>2, <1>3, <1>4 DEF AddedOnce, Adds
<1>8. IsSumOf(T)'
    <2>1. \A d \in Calls : Adds(d)' => T \intersect call'[d].ids = {}
        BY <1>0, <1>1, <1>2, <1>3, <1>4 DEF IsSumOf, Adds, AddedOnce
    <2>2. Pending' => T \intersect tx'.ids = {}
        BY <1>0, <1>1, <1>2, <1>3, <1>4 DEF IsSumOf, AddedOnce
    <2> QED BY <1>3, <1>5, <1>6, <2>1, <2>2 DEF IsSumOf
<1> QED BY <1>5, <1>7, <1>8 DEF SumInv

(* A transaction's call takes its requests over; a rebase starts a new sum.   *)
LEMMA WithdrawalsTransaction ==
    ASSUME WithdrawalsAssumption, WithdrawalsInv, NEW c \in Calls, handleTransaction(c)
    PROVE  TypesInv' /\ SumInv'
<1>1. /\ "tx" \in todo /\ todo' = todo \ {"tx"} /\ call[c] = Closed
      /\ UNCHANGED <<chain, tx, started, lastAlert>>
      /\ alertsCount' = IF tx.kind = "claim" THEN claimsCounted ELSE alertsCount
    BY DEF handleTransaction
<1>2. PICK r : /\ call' = [call EXCEPT ![c] = r]
               /\ \/ r = Closed
                  \/ r = [Closed EXCEPT !.at = tx.kind, !.block = head, !.ids = tx.ids, !.to = tx.to]
    BY DEF handleTransaction
<1>3. /\ r.block \in {0, Len(chain)} /\ (r.at = "request" => r.ids = tx.ids /\ tx.kind = "request")
    <2>1. CASE r = Closed
        BY <2>1 DEF Closed
    <2>2. CASE r = [Closed EXCEPT !.at = tx.kind, !.block = head, !.ids = tx.ids, !.to = tx.to]
        <3>1. r.at = tx.kind /\ r.block = head /\ r.ids = tx.ids
            BY <2>2 DEF Closed
        <3> QED BY <3>1 DEF head
    <2> QED BY <1>2, <2>1, <2>2
<1>4. /\ call'[c] = r /\ \A d \in Calls \ {c} : call'[d] = call[d]
      /\ tip' = tip /\ ~Pending' /\ ~Adds(c)
    BY <1>1, <1>2 DEF WithdrawalsInv, RequestsInv, CallsHold, tip, Pending, Adds, Closed
<1>5. TypesInv'
    <2>1. isBunkerMode' \in BOOLEAN
        BY DEF handleTransaction, bunkerModeAfter, WithdrawalsInv, TypesInv
    <2>2. bigReported' \in BOOLEAN
        BY DEF handleTransaction, WithdrawalsInv, TypesInv
    <2>3. lastTokenRebaseTimestamp' \in 0..(Epoch + MaxBlocks)
        <3>1. /\ lastTokenRebaseTimestamp \in 0..(Epoch + MaxBlocks)
              /\ Len(chain) \in Nat /\ Len(chain) <= MaxBlocks /\ head = Len(chain)
            BY QueueNumbers DEF WithdrawalsInv, RequestsInv, TypesInv
        <3>2. \/ lastTokenRebaseTimestamp' = lastTokenRebaseTimestamp
              \/ lastTokenRebaseTimestamp' = (Epoch + head) - ReportLag
            <4>1. CASE tx.kind = "report"
                <5>1. lastTokenRebaseTimestamp' = time(head) - ReportLag
                    BY <4>1 DEF handleTransaction
                <5>2. time(head) = Epoch + head
                    BY DEF time
                <5> QED BY <5>1, <5>2
            <4>2. CASE tx.kind # "report"
                BY <4>2 DEF handleTransaction
            <4> QED BY <4>1, <4>2
        <3> QED BY <3>1, <3>2, ConstantNumbers
    <2>4. alertsCount' \in Nat
        BY <1>1 DEF claimsCounted, WithdrawalsInv, TypesInv
    <2>5. \A d \in Calls : call'[d].block \in 0..Len(chain)
        <3>1. Len(chain) \in Nat
            BY QueueNumbers DEF WithdrawalsInv, RequestsInv
        <3> QED BY <1>3, <1>4, <3>1 DEF WithdrawalsInv, TypesInv
    <2> QED BY <1>1, <2>1, <2>2, <2>3, <2>4, <2>5 DEF WithdrawalsInv, TypesInv, AlertTimes
<1>6. SumInv'
    <2>1. AddedOnce
        BY DEF WithdrawalsInv, SumInv
    <2>2. Adds(c)' => Pending /\ call'[c].ids = tx.ids
        BY <1>1, <1>3, <1>4 DEF Adds, Pending
    <2>3. AddedOnce'
        BY <1>1, <1>4, <2>1, <2>2 DEF AddedOnce, Adds
    <2>4. PICK S \in SUBSET (1..MaxRequests) : IsSumOf(S)
        BY DEF WithdrawalsInv, SumInv
    <2>5. CASE amountRequested' = amountRequested
        <3>1. IsSumOf(S)'
            BY <1>1, <1>4, <2>2, <2>4, <2>5 DEF IsSumOf, Adds
        <3> QED BY <2>3, <3>1 DEF SumInv
    <2>6. CASE amountRequested' = 0
        <3>1. IsSumOf({})'
            BY <2>6, FS_EmptySet DEF IsSumOf
        <3> QED BY <2>3, <3>1 DEF SumInv
    <2> QED BY <2>5, <2>6 DEF handleTransaction
<1> QED BY <1>5, <1>6

LEMMA WithdrawalsNext == WithdrawalsAssumption /\ WithdrawalsInv /\ [Next]_vars => WithdrawalsInv'
<1> SUFFICES ASSUME WithdrawalsAssumption, WithdrawalsInv, [Next]_vars PROVE WithdrawalsInv'
    OBVIOUS
<1>1. RequestsInv' /\ AlertsInv'
    BY RequestsNext, AlertsNext DEF WithdrawalsInv
<1> SUFFICES TypesInv' /\ SumInv'
    BY <1>1 DEF WithdrawalsInv
<1>2. ASSUME UNCHANGED <<chain, tx, todo, lastAlert, lastTokenRebaseTimestamp, amountRequested, alertsCount,
                         call, bigReported>>,
             isBunkerMode' \in BOOLEAN
      PROVE  TypesInv' /\ SumInv'
    BY <1>2 DEF WithdrawalsInv, TypesInv, SumInv, AddedOnce, IsSumOf, Adds, Pending, tip, AlertTimes
<1>3. CASE UNCHANGED vars
    BY <1>2, <1>3 DEF vars, node, cache, WithdrawalsInv, TypesInv
<1>4. CASE initialize
    <2>1. isBunkerMode' \in BOOLEAN
        <3>1. Len(chain) \in 1..Len(chain) /\ chain[Len(chain)] \in Queues
            BY QueueNumbers DEF WithdrawalsInv, RequestsInv, tip
        <3> QED BY <1>4, <3>1 DEF initialize, head, Queues
    <2> QED BY <1>2, <1>4, <2>1 DEF initialize
<1>5. CASE nextBlock
    BY <1>5, WithdrawalsNextBlock
<1>6. ASSUME NEW c \in Calls,
             \/ handleBlock(c) \/ lastRequestIdRead(c) \/ refresh(c)
             \/ handleQueueOnParWithStakeLimit(c)
             \/ unfinalizedRead(c) \/ handleUnfinalizedRequestNumber(c)
             \/ scanFails(c) \/ unclaimedRead(c) \/ unclaimedWritten(c) \/ finalizedRead(c)
             \/ removed(c) \/ balanceFails(c) \/ balanceAnswered(c)
             \/ transactionFails(c)
             \/ handleWithdrawalFinalized(c) \/ handleWithdrawalRequest(c)
             \/ claimsRead(c) \/ handleWithdrawalClaimed(c)
      PROVE  TypesInv' /\ SumInv'
    <2>1. PICK r : GoesTo(c, r)
        BY <1>6, CallsGo DEF WithdrawalsInv
    <2>2. /\ UNCHANGED <<chain, tx, isBunkerMode, lastTokenRebaseTimestamp>>
          /\ todo' \subseteq todo /\ ("tx" \in todo' => "tx" \in todo)
          /\ lastAlert' \in [Alert -> AlertTimes]
          /\ bigReported' \in BOOLEAN /\ alertsCount' \in Nat
          /\ handleWithdrawalRequest(c) \/ amountRequested' = amountRequested
        BY <1>6, CallsLeave
    <2>3. \A d \in Calls : call'[d].block \in 0..Len(chain)
        <3>1. /\ call'[c] = r /\ r.block \in {0, call[c].block, Len(chain)}
              /\ \A d \in Calls \ {c} : call'[d] = call[d]
            BY <2>1 DEF GoesTo, WithdrawalsInv, RequestsInv, CallsHold
        <3>2. Len(chain) \in Nat
            BY QueueNumbers DEF WithdrawalsInv, RequestsInv
        <3> QED BY <3>1, <3>2 DEF WithdrawalsInv, TypesInv
    <2>4. TypesInv'
        BY <2>2, <2>3 DEF WithdrawalsInv, TypesInv, AlertTimes
    <2>5. SumInv'
        BY <2>1, <2>2, SumStays, SumGrows DEF WithdrawalsInv
    <2> QED BY <2>4, <2>5
<1>7. ASSUME NEW c \in Calls, handleTransaction(c)
      PROVE  TypesInv' /\ SumInv'
    BY <1>7, WithdrawalsTransaction
<1> QED BY <1>3, <1>4, <1>5, <1>6, <1>7 DEF Next

(* Every variable of the withdrawals keeps its type: no time lies after the   *)
(* head block, and the amount requested counts no request twice.              *)
THEOREM WithdrawalsAreTyped == WithdrawalsAssumption /\ Spec => []TypeOK
<1> SUFFICES ASSUME WithdrawalsAssumption PROVE Spec => []TypeOK
    OBVIOUS
<1>1. WithdrawalsInv => TypeOK
    <2> SUFFICES ASSUME WithdrawalsInv PROVE TypeOK
        OBVIOUS
    <2>1. /\ head = Len(chain) /\ Len(chain) \in Nat /\ Len(chain) >= 1 /\ Len(chain) <= MaxBlocks
          /\ MaxRequests \in Nat /\ MaxBlocks \in Nat
        BY QueueNumbers, ConstantNumbers DEF WithdrawalsInv, RequestsInv, TypesInv
    <2>2. \A b \in 1..Len(chain) : chain[b].last \in Requests /\ chain[b].claimed \subseteq Requests
        <3> TAKE b \in 1..Len(chain)
        <3>1. /\ chain[b].last \in 1..MaxRequests /\ chain[b].finalizedTo \in Nat
              /\ chain[b].finalizedTo <= chain[b].last
            BY QueueNumbers DEF WithdrawalsInv, RequestsInv
        <3>2. 1..chain[b].finalizedTo \subseteq 1..MaxRequests
            BY <2>1, <3>1
        <3> QED BY <3>1, <3>2 DEF Requests, WithdrawalsInv, TypesInv
    <2>3. amountRequested \in 0..MaxRequests
        <3>1. PICK S \in SUBSET (1..MaxRequests) : amountRequested = Cardinality(S)
            BY DEF WithdrawalsInv, SumInv, IsSumOf
        <3>2. IsFiniteSet(1..MaxRequests) /\ Cardinality(1..MaxRequests) = MaxRequests
            <4>1. 1 \in Int /\ MaxRequests \in Int
                BY <2>1
            <4>2. /\ IsFiniteSet(1..MaxRequests)
                  /\ Cardinality(1..MaxRequests) = IF 1 > MaxRequests THEN 0 ELSE MaxRequests - 1 + 1
                BY <4>1, FS_Interval
            <4> QED BY <2>1, <4>2
        <3>3. IsFiniteSet(S) /\ Cardinality(S) <= MaxRequests
            BY <3>2, FS_Subset
        <3>4. Cardinality(S) \in Nat
            BY <3>3, FS_CardinalityType
        <3> QED BY <2>1, <3>1, <3>3, <3>4
    <2>4. \A c \in Calls : call[c].found \subseteq Daily
        BY DEF WithdrawalsInv, RequestsInv, CallsHold, RequestCall
    <2> QED BY <2>1, <2>2, <2>3, <2>4
            DEF TypeOK, WithdrawalsInv, RequestsInv, TableTyped, TypesInv, AlertTimes, Requests, Flags
<1>2. Init => WithdrawalsInv
    BY WithdrawalsInit
<1>3. WithdrawalsInv /\ [Next]_vars => WithdrawalsInv'
    BY WithdrawalsNext
<1> QED BY <1>1, <1>2, <1>3, PTL DEF Spec
===============================================================================
