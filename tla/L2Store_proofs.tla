---------------------------- MODULE L2Store_proofs ----------------------------
(***************************************************************************)
(* The proof that the block store of l2-bridge-arbitrum keeps the stream of *)
(* L2 blocks and records the withdrawals of every block it has looked at,   *)
(* for any number of calls that overlap, of blocks and of restarts, and any *)
(* lag and age.  No flag keeps the calls apart: the proof rests on what a   *)
(* call has read of the cursor being behind it for good (CallsAreBehind),   *)
(* since the newest row there ever was only grows, whatever other calls     *)
(* remove or store.                                                         *)
(***************************************************************************)
EXTENDS L2Store, WellFoundedInduction, TLAPS

Requests == [at : Stages, prev : Blocks \union {Undefined}, to : Blocks \union {Undefined},
             blocks : SUBSET Blocks, logs : SUBSET Blocks]

(* No row is ahead of the newest there ever was, and that one exists.         *)
RowsArePassed == (\A b \in l2_blocks : b <= passed) /\ passed <= head

(* A call asks for blocks that exist, behind a row that was passed.           *)
Behind(r, h, p) ==
    /\ r.at \in {"cursor", "insert", "store"} => r.to \in 1..h
    /\ r.at = "logs" => r.prev = r.to /\ r.to \in 1..p
    /\ r.at \in {"store", "closest"} => r.prev \in 1..p
    /\ r.at = "store" => r.blocks \subseteq r.prev + 1..r.to /\ r.logs \subseteq r.prev + 1..r.to
    /\ r.at \in {"monitor", "remove"} => r.blocks \subseteq 1..h /\ r.blocks # {}
    /\ r.logs \subseteq 1..h
CallsAreBehind == \A c \in Calls : Behind(call[c], head, passed)

SeenExist == seen \subseteq 1..head

IInv == TypeOK /\ RowsArePassed /\ CallsAreBehind /\ SeenExist

(* Every block passed was handled, is held by a call, or was given up.        *)
UnderWay == UNION {held(c) : c \in Calls}
Accounted == 1..passed \subseteq UnderWay \union seen \union lost

(* What the table owes a block: nothing, or what it has, or had long ago.     *)
Recorded(b) ==
    \/ Sent[b] = 0 \/ Row(b) \in withdrawals \/ b \in hidden
    \/ expired(b, head)

(* A call that is about to record withdrawals will find the row, or the       *)
(* withdrawals are recorded already, or left out for a reason.                *)
Findable(r) ==
    /\ r.at = "logs" => r.to \in hidden
    /\ r.at \in {"closest", "record"} =>
           \A b \in r.logs : Recorded(b) \/ (b \in l2_blocks /\ b > r.prev)
RowsAreFound == \A c \in Calls : Findable(call[c])

-----------------------------------------------------------------------------
LEMMA Numbers ==
    ASSUME IInv
    PROVE  /\ MaxBlock \in Nat /\ head \in 1..MaxBlock /\ passed \in 0..head
           /\ Blocks = 1..MaxBlock /\ 1..head \subseteq Blocks
           /\ call \in [Calls -> Requests]
           /\ l2_blocks \subseteq 1..passed
BY StoreAssumption DEF IInv, TypeOK, RowsArePassed, Blocks, Undefined, Requests

(* A set of blocks that has a member has a greatest one.                      *)
LEMMA MaxOfBlocks ==
    ASSUME NEW N \in Nat, NEW S \in SUBSET (0..N), S # {}
    PROVE  Max(S) \in S /\ \A x \in S : x <= Max(S)
<1> DEFINE T == {N - x : x \in S}
<1>1. T \in SUBSET Nat /\ T # {}
    <2>1. \A x \in S : N - x \in Nat
        OBVIOUS
    <2> QED BY <2>1
<1>2. PICK t \in T : \A u \in T : ~(<<u, t>> \in OpToRel(<, Nat))
    BY <1>1, NatLessThanWellFounded, WFMin
<1>3. \A u \in T : ~(u < t)
    BY <1>1, <1>2 DEF OpToRel
<1>4. PICK m \in S : t = N - m
    OBVIOUS
<1>5. \A x \in S : m >= x
    <2> TAKE x \in S
    <2>1. ~(N - x < N - m) /\ x \in 0..N /\ m \in 0..N
        BY <1>3, <1>4
    <2> QED BY <2>1
<1> QED BY <1>4, <1>5 DEF Max

(* createOrUpdate inserts rows of the table.                                  *)
LEMMA MergedRows ==
    ASSUME NEW bs, bs \subseteq Blocks
    PROVE  merged(bs) \subseteq Blocks \X Nat /\ \A b \in bs : Sent[b] > 0 => Row(b) \in merged(bs)
<1>1. \A b \in Blocks : Sent[b] \in Nat
    BY StoreAssumption DEF Blocks
<1> QED BY <1>1 DEF merged, Row

(* What a step of one call has to keep; the other calls stay as they are.     *)
LEMMA CallStep ==
    ASSUME IInv, NEW c \in Calls, NEW r \in Requests, call' = [call EXCEPT ![c] = r],
           UNCHANGED <<head, restarts>>,
           passed' \in passed..head, l2_blocks' \subseteq 1..passed',
           withdrawals' \subseteq Blocks \X Nat, hidden' \subseteq Blocks, lost' \subseteq Blocks,
           seen' \subseteq 1..head, Behind(r, head, passed')
    PROVE  /\ IInv'
           /\ call'[c] = r
           /\ \A d \in Calls \ {c} : call'[d] = call[d]
<1>1. call'[c] = r /\ (\A d \in Calls \ {c} : call'[d] = call[d]) /\ call' \in [Calls -> Requests]
    BY Numbers
<1>2. passed' \in 0..head /\ passed <= passed' /\ head' = head /\ passed \in Nat /\ passed' \in Nat
      /\ head \in Nat
    BY Numbers
<1>3. TypeOK'
    <2>1. passed' \in Blocks \union {Undefined}
        BY <1>2, Numbers DEF Undefined
    <2>2. l2_blocks' \subseteq Blocks /\ seen' \subseteq Blocks
        BY <1>2, Numbers
    <2> QED BY <1>1, <2>1, <2>2 DEF IInv, TypeOK, Requests, Blocks
<1>4. RowsArePassed'
    BY <1>2 DEF RowsArePassed
<1>5. CallsAreBehind'
    <2> SUFFICES ASSUME NEW d \in Calls PROVE Behind(call'[d], head', passed')
        BY DEF CallsAreBehind
    <2>1. CASE d = c
        BY <1>1, <2>1 DEF Behind
    <2>2. CASE d # c
        <3>1. Behind(call[d], head, passed) /\ call'[d] = call[d]
            BY <1>1, <2>2 DEF IInv, CallsAreBehind
        <3>2. 1..passed \subseteq 1..passed'
            BY <1>2
        <3> QED BY <1>2, <3>1, <3>2 DEF Behind
    <2> QED BY <2>1, <2>2
<1>6. SeenExist'
    BY DEF SeenExist
<1> QED BY <1>1, <1>3, <1>4, <1>5, <1>6 DEF IInv

-----------------------------------------------------------------------------
(* What every action of a call does, with the invariant after it.             *)
LEMMA HandleBlockStep ==
    ASSUME IInv, NEW c \in Calls, handleBlock(c)
    PROVE  /\ IInv'
           /\ call[c].at = "idle" /\ call'[c].at = "latest"
           /\ \A d \in Calls \ {c} : call'[d] = call[d]
<1> DEFINE r == [call[c] EXCEPT !.at = "latest"]
<1>1. r \in Requests /\ call' = [call EXCEPT ![c] = r] /\ r.at = "latest" /\ r.logs = call[c].logs
    BY Numbers DEF handleBlock, Requests, Stages
<1>2. l2_blocks' \subseteq l2_blocks /\ hidden' \subseteq hidden \union l2_blocks
    BY DEF handleBlock
<1>3. Behind(r, head, passed')
    BY <1>1 DEF Behind, handleBlock, IInv, CallsAreBehind
<1>4. passed' \in passed..head /\ l2_blocks' \subseteq 1..passed' /\ hidden' \subseteq Blocks
    BY <1>2, Numbers DEF handleBlock, IInv, TypeOK
<1> HIDE DEF r
<1>5. IInv' /\ call'[c] = r /\ \A d \in Calls \ {c} : call'[d] = call[d]
    BY <1>1, <1>3, <1>4, CallStep DEF handleBlock, IInv, TypeOK, SeenExist
<1> QED BY <1>1, <1>5 DEF handleBlock

LEMMA LatestAnsweredStep ==
    ASSUME IInv, NEW c \in Calls, latestAnswered(c)
    PROVE  /\ IInv'
           /\ call[c].at = "latest" /\ call'[c].at = "cursor"
           /\ \A d \in Calls \ {c} : call'[d] = call[d]
<1>1. PICK n \in Latest : call' = [call EXCEPT ![c].at = "cursor", ![c].to = n]
    BY DEF latestAnswered
<1> DEFINE r == [call[c] EXCEPT !.at = "cursor", !.to = n]
<1>2. n \in 1..head
    BY Numbers, StoreAssumption DEF Latest
<1>3. r \in Requests /\ call' = [call EXCEPT ![c] = r] /\ r.at = "cursor" /\ r.to = n /\ r.logs = call[c].logs
    BY <1>1, <1>2, Numbers DEF Requests, Stages
<1>4. Behind(r, head, passed')
    BY <1>2, <1>3 DEF Behind, latestAnswered, IInv, CallsAreBehind
<1>5. passed' \in passed..head /\ l2_blocks' \subseteq 1..passed'
    BY Numbers DEF latestAnswered
<1> HIDE DEF r
<1>6. IInv' /\ call'[c] = r /\ \A d \in Calls \ {c} : call'[d] = call[d]
    BY <1>3, <1>4, <1>5, CallStep DEF latestAnswered, IInv, TypeOK, SeenExist
<1> QED BY <1>3, <1>6 DEF latestAnswered

(* A call that ends, with the logs it gives up.                               *)
LEMMA GivesUpStep ==
    ASSUME IInv, NEW c \in Calls, fails(c) \/ storeFails(c)
    PROVE  /\ IInv'
           /\ call'[c] = Idle
           /\ lost' = lost \union (IF call[c].at = "closest" THEN call[c].logs ELSE {})
           /\ call[c].at \in {"latest", "cursor", "insert", "store", "closest"}
           /\ \A d \in Calls \ {c} : call'[d] = call[d]
<1>1. Idle \in Requests /\ Behind(Idle, head, passed')
    BY DEF Idle, Requests, Stages, Behind
<1>2. call' = [call EXCEPT ![c] = Idle]
      /\ lost' = lost \union (IF call[c].at = "closest" THEN call[c].logs ELSE {})
      /\ call[c].at \in {"latest", "cursor", "insert", "store", "closest"}
    BY DEF fails, storeFails, givesUp
<1>3. UNCHANGED <<head, l2_blocks, withdrawals, restarts, passed, seen, hidden>>
    BY DEF fails, storeFails
<1>4. passed' \in passed..head /\ l2_blocks' \subseteq 1..passed'
    BY <1>3, Numbers
<1>5. lost' \subseteq Blocks
    <2>1. call[c].logs \subseteq Blocks
        BY Numbers DEF Requests
    <2> QED BY <1>2, <2>1 DEF IInv, TypeOK
<1>6. IInv' /\ \A d \in Calls \ {c} : call'[d] = call[d]
    BY <1>1, <1>2, <1>3, <1>4, <1>5, CallStep DEF IInv, TypeOK, SeenExist
<1> QED BY <1>2, <1>6, Numbers

LEMMA CursorReadStep ==
    ASSUME IInv, NEW c \in Calls, cursorRead(c)
    PROVE  /\ IInv'
           /\ call[c].at = "cursor" /\ call'[c].at \in {"insert", "store"}
           /\ \A d \in Calls \ {c} : call'[d] = call[d]
<1>1. UNCHANGED <<head, l2_blocks, withdrawals, restarts, passed, seen, lost, hidden>> /\ call[c].at = "cursor"
    BY DEF cursorRead
<1>2. passed' \in passed..head /\ l2_blocks' \subseteq 1..passed'
    BY <1>1, Numbers
<1>3. call[c].to \in 1..head /\ call[c].logs \subseteq 1..head
    BY <1>1 DEF IInv, CallsAreBehind, Behind
<1>4. ASSUME NEW r \in Requests, call' = [call EXCEPT ![c] = r], Behind(r, head, passed'), r.at \in {"insert", "store"}
      PROVE  IInv' /\ call'[c].at \in {"insert", "store"} /\ \A d \in Calls \ {c} : call'[d] = call[d]
    BY <1>1, <1>2, <1>4, CallStep DEF IInv, TypeOK, SeenExist
<1>5. CASE l2_blocks = {}
    <2> DEFINE r == [call[c] EXCEPT !.at = "insert"]
    <2>1. r \in Requests /\ call' = [call EXCEPT ![c] = r] /\ r.at = "insert" /\ r.to = call[c].to
          /\ r.logs = call[c].logs
        BY <1>5, Numbers DEF cursorRead, Requests, Stages
    <2>2. Behind(r, head, passed')
        BY <1>1, <1>3, <2>1 DEF Behind
    <2> HIDE DEF r
    <2> QED BY <1>1, <1>4, <2>1, <2>2
<1>6. CASE l2_blocks # {}
    <2>1. Max(l2_blocks) \in 1..passed
        <3>1. passed \in Nat /\ l2_blocks \in SUBSET (0..passed) /\ l2_blocks \subseteq 1..passed
            BY Numbers
        <3>2. Max(l2_blocks) \in l2_blocks
            BY <1>6, <3>1, MaxOfBlocks
        <3> QED BY <3>1, <3>2
    <2> DEFINE prev == Max(l2_blocks)
    <2>2. PICK blocks \in SUBSET behind(prev, call[c].to), logs \in SUBSET behind(prev, call[c].to) :
              call' = [call EXCEPT ![c].at = "store", ![c].prev = prev, ![c].blocks = blocks, ![c].logs = logs]
        BY <1>6 DEF cursorRead, fetched
    <2> DEFINE r == [call[c] EXCEPT !.at = "store", !.prev = prev, !.blocks = blocks, !.logs = logs]
    <2> HIDE DEF prev
    <2>3. prev \in 1..passed
        BY <2>1 DEF prev
    <2>4. prev + 1..call[c].to \subseteq 1..head /\ prev \in Blocks
        BY <1>3, <2>3, Numbers
    <2>5. blocks \subseteq prev + 1..call[c].to /\ logs \subseteq prev + 1..call[c].to
        BY <2>2 DEF behind
    <2>6. r \in Requests /\ call' = [call EXCEPT ![c] = r]
        BY <2>2, <2>4, <2>5, Numbers DEF Requests, Stages
    <2>7. r.at = "store" /\ r.prev = prev /\ r.to = call[c].to /\ r.blocks = blocks /\ r.logs = logs
        BY Numbers DEF Requests
    <2>8. Behind(r, head, passed')
        BY <1>1, <1>3, <2>3, <2>4, <2>5, <2>7 DEF Behind
    <2> HIDE DEF r
    <2> QED BY <1>1, <1>4, <2>6, <2>7, <2>8
<1> QED BY <1>5, <1>6

LEMMA InsertedStep ==
    ASSUME IInv, NEW c \in Calls, inserted(c)
    PROVE  /\ IInv'
           /\ call'[c].at = "logs" /\ call'[c].to = call[c].to
           /\ call[c].at = "insert" /\ call[c].to \in 1..head
           /\ passed' = (IF call[c].to > passed THEN call[c].to ELSE passed)
           /\ \A d \in Calls \ {c} : call'[d] = call[d]
<1> DEFINE n == call[c].to
           r == [call[c] EXCEPT !.at = "logs", !.prev = n]
<1>1. n \in 1..head /\ call[c].logs \subseteq 1..head /\ passed \in 0..head /\ head \in Nat
    BY Numbers DEF inserted, IInv, CallsAreBehind, Behind
<1>2. passed' = (IF n > passed THEN n ELSE passed)
    <2>1. {passed, n} \in SUBSET (0..head) /\ {passed, n} # {}
        BY <1>1
    <2>2. Max({passed, n}) \in {passed, n} /\ \A x \in {passed, n} : x <= Max({passed, n})
        BY <1>1, <2>1, MaxOfBlocks
    <2>3. passed' = Max({passed, n})
        BY DEF inserted
    <2> QED BY <1>1, <2>2, <2>3
<1>3. passed' \in passed..head /\ n \in 1..passed'
    BY <1>1, <1>2
<1>4. l2_blocks' \subseteq 1..passed'
    <2>1. l2_blocks \subseteq 1..passed /\ l2_blocks' = l2_blocks \union {n}
        BY Numbers DEF inserted
    <2>2. 1..passed \subseteq 1..passed'
        BY <1>1, <1>3
    <2> QED BY <1>3, <2>1, <2>2
<1>5. r \in Requests /\ call' = [call EXCEPT ![c] = r] /\ r.at = "logs" /\ r.prev = n /\ r.to = n
      /\ r.logs = call[c].logs
    <2>1. n \in Blocks /\ call[c] \in Requests
        BY <1>1, Numbers
    <2> QED BY <2>1 DEF inserted, Requests, Stages
<1>6. Behind(r, head, passed')
    BY <1>1, <1>3, <1>5 DEF Behind
<1>7. hidden' \subseteq Blocks /\ lost' \subseteq Blocks
    <2>1. n \in Blocks /\ passed + 1..n - 1 \subseteq Blocks
        BY <1>1, Numbers
    <2> QED BY <2>1 DEF inserted, IInv, TypeOK
<1> HIDE DEF r
<1>8. IInv' /\ call'[c] = r /\ \A d \in Calls \ {c} : call'[d] = call[d]
    BY <1>3, <1>4, <1>5, <1>6, <1>7, CallStep DEF inserted, IInv, TypeOK, SeenExist
<1> QED BY <1>1, <1>2, <1>5, <1>8 DEF inserted

(* The event watcher is given the logs of the call.                           *)
LEMMA HandleLogsStep ==
    ASSUME IInv, NEW c \in Calls, NEW logs \in SUBSET (1..head), handleLogs(c, logs),
           UNCHANGED <<head, l2_blocks, withdrawals, restarts, passed, hidden>>, lost' \subseteq Blocks
    PROVE  /\ IInv'
           /\ call'[c].at = "record" /\ call'[c].logs = logs /\ call'[c].prev = call[c].prev
           /\ seen' = seen \union logs
           /\ \A d \in Calls \ {c} : call'[d] = call[d]
<1> DEFINE r == [Idle EXCEPT !.at = "record", !.prev = call[c].prev, !.logs = logs]
<1>1. r \in Requests /\ call' = [call EXCEPT ![c] = r] /\ r.at = "record" /\ r.logs = logs
      /\ r.prev = call[c].prev
    <2>1. logs \subseteq Blocks /\ call[c] \in Requests
        BY Numbers
    <2> QED BY <2>1 DEF handleLogs, Requests, Stages, Idle
<1>2. Behind(r, head, passed')
    BY <1>1 DEF Behind
<1>3. passed' \in passed..head /\ l2_blocks' \subseteq 1..passed'
    BY Numbers
<1>4. seen' \subseteq 1..head /\ seen' = seen \union logs
    BY DEF IInv, SeenExist, handleLogs
<1> HIDE DEF r
<1>5. IInv' /\ call'[c] = r /\ \A d \in Calls \ {c} : call'[d] = call[d]
    BY <1>1, <1>2, <1>3, <1>4, CallStep DEF IInv, TypeOK
<1> QED BY <1>1, <1>4, <1>5

LEMMA LogsOfLatestStep ==
    ASSUME IInv, NEW c \in Calls, logsOfLatest(c)
    PROVE  /\ IInv'
           /\ call[c].at = "logs" /\ call'[c].at = "record"
           /\ call'[c].logs \subseteq {call[c].to}
           /\ seen' = seen \union call'[c].logs
           /\ lost' = lost \union ({call[c].to} \ call'[c].logs)
           /\ \A d \in Calls \ {c} : call'[d] = call[d]
<1>1. PICK logs \in SUBSET {call[c].to} : handleLogs(c, logs) /\ lost' = lost \union ({call[c].to} \ logs)
    BY DEF logsOfLatest
<1>2. call[c].to \in 1..passed /\ call[c].at = "logs"
    BY DEF logsOfLatest, IInv, CallsAreBehind, Behind
<1>3. logs \in SUBSET (1..head) /\ lost' \subseteq Blocks
    BY <1>1, <1>2, Numbers DEF IInv, TypeOK
<1> QED BY <1>1, <1>2, <1>3, HandleLogsStep DEF logsOfLatest

LEMMA ClosestReadStep ==
    ASSUME IInv, NEW c \in Calls, closestRead(c)
    PROVE  /\ IInv'
           /\ call[c].at = "closest" /\ call'[c].at = "record"
           /\ call'[c].logs = call[c].logs /\ call'[c].prev = call[c].prev
           /\ seen' = seen \union call[c].logs
           /\ \A d \in Calls \ {c} : call'[d] = call[d]
<1>1. call[c].logs \in SUBSET (1..head) /\ lost' \subseteq Blocks
    BY DEF closestRead, IInv, TypeOK, CallsAreBehind, Behind
<1> QED BY <1>1, HandleLogsStep DEF closestRead

LEMMA RowsReadStep ==
    ASSUME IInv, NEW c \in Calls, rowsRead(c)
    PROVE  /\ IInv'
           /\ call[c].at = "record"
           /\ getL2BlocksFrom(c) = {} => call'[c] = Idle
           /\ getL2BlocksFrom(c) # {} => /\ call'[c].at = "monitor" /\ call'[c].logs = call[c].logs
                                         /\ call'[c].blocks = getL2BlocksFrom(c)
           /\ \A d \in Calls \ {c} : call'[d] = call[d]
<1> DEFINE rows == getL2BlocksFrom(c)
<1>1. passed' \in passed..head /\ l2_blocks' \subseteq 1..passed'
    BY Numbers DEF rowsRead
<1>2. rows \subseteq 1..head
    <2>1. l2_blocks \subseteq 1..passed /\ passed \in 0..head /\ head \in Nat
        BY Numbers
    <2>2. rows \subseteq l2_blocks
        BY DEF getL2BlocksFrom
    <2> HIDE DEF rows
    <2> QED BY <2>1, <2>2
<1>3. CASE rows = {}
    <2>1. Idle \in Requests /\ Behind(Idle, head, passed')
        BY DEF Idle, Requests, Stages, Behind
    <2>2. call' = [call EXCEPT ![c] = Idle]
        BY <1>3 DEF rowsRead
    <2> QED BY <1>1, <1>3, <2>1, <2>2, CallStep DEF rowsRead, IInv, TypeOK, SeenExist
<1>4. CASE rows # {}
    <2> DEFINE r == [call[c] EXCEPT !.at = "monitor", !.blocks = rows]
    <2>1. call' = [call EXCEPT ![c] = r]
        BY <1>4, Numbers DEF rowsRead
    <2>2. /\ r \in Requests /\ r.at = "monitor" /\ r.logs = call[c].logs /\ r.blocks = rows
        BY <1>2, Numbers DEF Requests, Stages
    <2>3. Behind(r, head, passed')
        BY <1>2, <1>4, <2>2 DEF Behind, IInv, CallsAreBehind
    <2> HIDE DEF r, rows
    <2>4. IInv' /\ call'[c] = r /\ \A d \in Calls \ {c} : call'[d] = call[d]
        BY <1>1, <2>1, <2>2, <2>3, CallStep DEF rowsRead, IInv, TypeOK, SeenExist
    <2> QED BY <1>4, <2>2, <2>4 DEF rowsRead, rows
<1> QED BY <1>3, <1>4

LEMMA RecordedStep ==
    ASSUME IInv, NEW c \in Calls, recorded(c)
    PROVE  /\ IInv'
           /\ call[c].at = "monitor" /\ call'[c].at \in {"idle", "remove"}
           /\ \A d \in Calls \ {c} : call'[d] = call[d]
<1>1. passed' \in passed..head /\ l2_blocks' \subseteq 1..passed' /\ call[c].at = "monitor"
    BY Numbers DEF recorded
<1>2. withdrawals' \subseteq Blocks \X Nat
    <2>1. getWithdrawals(c) \subseteq Blocks
        BY Numbers DEF Requests, getWithdrawals
    <2> QED BY <2>1, MergedRows DEF recorded, IInv, TypeOK
<1>3. CASE getWithdrawals(c) = {}
    <2>1. Idle \in Requests /\ Behind(Idle, head, passed') /\ Idle.at = "idle"
        BY DEF Idle, Requests, Stages, Behind
    <2>2. call' = [call EXCEPT ![c] = Idle]
        BY <1>3 DEF recorded
    <2> QED BY <1>1, <1>2, <2>1, <2>2, CallStep DEF recorded, IInv, TypeOK, SeenExist
<1>4. CASE getWithdrawals(c) # {}
    <2> DEFINE r == [call[c] EXCEPT !.at = "remove"]
    <2>1. call' = [call EXCEPT ![c] = r]
        BY <1>4, Numbers DEF recorded
    <2>2. /\ r \in Requests /\ r.at = "remove" /\ r.logs = call[c].logs /\ r.blocks = call[c].blocks
        BY Numbers DEF Requests, Stages
    <2>3. Behind(r, head, passed')
        BY <1>1, <2>2 DEF Behind, IInv, CallsAreBehind
    <2> HIDE DEF r
    <2>4. IInv' /\ call'[c] = r /\ \A d \in Calls \ {c} : call'[d] = call[d]
        BY <1>1, <1>2, <2>1, <2>2, <2>3, CallStep DEF recorded, IInv, TypeOK, SeenExist
    <2> QED BY <1>1, <2>2, <2>4
<1> QED BY <1>3, <1>4

LEMMA RecordEndsStep ==
    ASSUME IInv, NEW c \in Calls, recordFails(c) \/ removed(c)
    PROVE  /\ IInv'
           /\ call[c].at \in {"record", "monitor", "remove"} /\ call'[c] = Idle
           /\ \A d \in Calls \ {c} : call'[d] = call[d]
<1>1. Idle \in Requests /\ Behind(Idle, head, passed')
    BY DEF Idle, Requests, Stages, Behind
<1>2. passed' \in passed..head /\ l2_blocks' \subseteq 1..passed'
    BY Numbers DEF recordFails, removed
<1>3. withdrawals' \subseteq Blocks \X Nat /\ hidden' \subseteq Blocks
    <2>1. call[c].logs \subseteq Blocks
        BY Numbers DEF Requests
    <2> QED BY <2>1 DEF recordFails, removed, getWithdrawals, IInv, TypeOK
<1> QED BY <1>1, <1>2, <1>3, CallStep DEF recordFails, removed, IInv, TypeOK, SeenExist

(* The rows of a call are stored: the newest row is one of them, or the one   *)
(* that was the newest.                                                       *)
LEMMA StoredStep ==
    ASSUME IInv, NEW c \in Calls, stored(c)
    PROVE  /\ IInv'
           /\ call[c].at = "store" /\ call'[c].at = "closest"
           /\ call'[c].logs = call[c].logs /\ call'[c].prev = call[c].prev
           /\ call[c].prev \in 1..passed /\ call[c].logs \subseteq call[c].prev + 1..call[c].to
           /\ passed' = passed \/ passed' \in call[c].prev + 1..call[c].to
           /\ passed' \in passed..head
           /\ \A d \in Calls \ {c} : call'[d] = call[d]
<1> DEFINE old == call[c]
           r == [Idle EXCEPT !.at = "closest", !.prev = old.prev, !.logs = old.logs]
<1>1. /\ old.at = "store" /\ old.to \in 1..head /\ old.prev \in 1..passed
      /\ old.blocks \subseteq old.prev + 1..old.to /\ old.logs \subseteq old.prev + 1..old.to
      /\ old.logs \subseteq 1..head
    BY DEF stored, IInv, CallsAreBehind, Behind
<1>2. head \in Nat /\ passed \in 0..head
    BY Numbers
<1>3. asked(c) \subseteq 1..head
    BY <1>1, <1>2 DEF asked, behind
<1>4. passed' \in old.blocks \union {passed} /\ \A b \in old.blocks \union {passed} : b <= passed'
    <2>1. old.blocks \union {passed} \in SUBSET (0..head)
        BY <1>1, <1>2
    <2>2. passed' = Max(old.blocks \union {passed})
        BY DEF stored
    <2> QED BY <1>2, <2>1, <2>2, MaxOfBlocks
<1>5. passed' \in passed..head /\ (passed' = passed \/ passed' \in old.prev + 1..old.to)
    BY <1>1, <1>2, <1>4
<1>6. l2_blocks' \subseteq 1..passed'
    <2>1. l2_blocks \subseteq 1..passed /\ l2_blocks' = l2_blocks \union old.blocks
        BY Numbers DEF stored
    <2>2. 1..passed \subseteq 1..passed'
        BY <1>2, <1>5
    <2>3. old.blocks \subseteq 1..passed'
        BY <1>1, <1>2, <1>4, <1>5
    <2> QED BY <2>1, <2>2, <2>3
<1>7. r \in Requests /\ call' = [call EXCEPT ![c] = r] /\ r.at = "closest" /\ r.prev = old.prev
      /\ r.logs = old.logs
    <2>1. old \in Requests
        BY Numbers
    <2> QED BY <2>1 DEF stored, Requests, Stages, Idle
<1>8. Behind(r, head, passed')
    <2>1. old.prev \in 1..passed'
        BY <1>1, <1>2, <1>5
    <2> QED BY <1>1, <1>7, <2>1 DEF Behind
<1>9. hidden' \subseteq Blocks /\ lost' \subseteq Blocks
    <2>1. asked(c) \subseteq Blocks
        BY <1>3, Numbers
    <2> QED BY <2>1 DEF stored, IInv, TypeOK
<1> HIDE DEF r
<1>10. IInv' /\ call'[c] = r /\ \A d \in Calls \ {c} : call'[d] = call[d]
    BY <1>5, <1>6, <1>7, <1>8, <1>9, CallStep DEF stored, IInv, TypeOK, SeenExist
<1> QED BY <1>1, <1>5, <1>7, <1>10

-----------------------------------------------------------------------------
LEMMA InitIInv == Init => IInv
<1> SUFFICES ASSUME Init PROVE IInv
    OBVIOUS
<1>1. 1 \in Blocks /\ 0 \in 0..MaxRestarts
    BY StoreAssumption DEF Blocks
<1>2. Idle \in Requests /\ Behind(Idle, head, passed)
    BY DEF Idle, Requests, Stages, Behind
<1>3. TypeOK
    <2>1. withdrawals \subseteq Blocks \X Nat
        BY <1>1, MergedRows DEF Init
    <2> QED BY <1>1, <1>2, <2>1 DEF Init, TypeOK, Requests
<1>4. RowsArePassed /\ SeenExist
    BY DEF Init, RowsArePassed, SeenExist, Undefined
<1>5. CallsAreBehind
    BY <1>2 DEF Init, CallsAreBehind
<1> QED BY <1>3, <1>4, <1>5 DEF IInv

LEMMA NewL2BlockIInv ==
    ASSUME IInv, newL2Block
    PROVE  IInv'
<1>1. head \in 1..MaxBlock /\ head' \in 1..MaxBlock /\ head <= head' /\ MaxBlock \in Nat /\ passed \in 0..head
    BY Numbers DEF newL2Block
<1>2. 1..head \subseteq 1..head'
    BY <1>1
<1>3. TypeOK'
    BY <1>1 DEF newL2Block, IInv, TypeOK, Blocks
<1>4. RowsArePassed' /\ SeenExist'
    BY <1>1, <1>2 DEF newL2Block, IInv, RowsArePassed, SeenExist
<1>5. CallsAreBehind'
    BY <1>2 DEF newL2Block, IInv, CallsAreBehind, Behind
<1> QED BY <1>3, <1>4, <1>5 DEF IInv

LEMMA RestartIInv ==
    ASSUME IInv, restart
    PROVE  IInv'
<1>1. PICK n \in Latest : \E found \in SUBSET (1..n) :
          withdrawals' = merged(found) /\ hidden' = hidden \union (1..head \ found)
    BY DEF restart
<1>2. withdrawals' \subseteq Blocks \X Nat /\ hidden' \subseteq Blocks
    <2>1. 1..n \subseteq Blocks /\ 1..head \subseteq Blocks
        BY Numbers, StoreAssumption DEF Latest
    <2> QED BY <1>1, <2>1, MergedRows DEF IInv, TypeOK
<1>3. lost' \subseteq Blocks
    <2>1. \A c \in Calls : held(c) \subseteq Blocks
        <3> TAKE c \in Calls
        <3>1. call[c] \in Requests /\ Behind(call[c], head, passed)
            BY Numbers DEF IInv, CallsAreBehind
        <3>2. 1..passed \subseteq Blocks
            BY Numbers
        <3> QED BY <3>1, <3>2 DEF held, Behind
    <2> QED BY <2>1 DEF restart, IInv, TypeOK
<1>4. Idle \in Requests /\ Behind(Idle, head, passed)
    BY DEF Idle, Requests, Stages, Behind
<1>5. TypeOK'
    <2>1. restarts' \in 0..MaxRestarts
        BY StoreAssumption DEF restart, IInv, TypeOK
    <2> QED BY <1>2, <1>3, <1>4, <2>1 DEF restart, IInv, TypeOK, Requests
<1>6. RowsArePassed' /\ SeenExist' /\ CallsAreBehind'
    BY <1>4 DEF restart, IInv, RowsArePassed, SeenExist, CallsAreBehind
<1> QED BY <1>5, <1>6 DEF IInv

LEMMA NextIInv == IInv /\ [Next]_vars => IInv'
<1> SUFFICES ASSUME IInv, [Next]_vars PROVE IInv'
    OBVIOUS
<1>1. CASE UNCHANGED vars
    BY <1>1 DEF vars, IInv, TypeOK, RowsArePassed, CallsAreBehind, SeenExist, Behind
<1>2. ASSUME NEW c \in Calls, handleBlock(c) \/ continues(c) PROVE IInv'
    BY <1>2, HandleBlockStep, LatestAnsweredStep, GivesUpStep, CursorReadStep, InsertedStep,
       LogsOfLatestStep, ClosestReadStep, RowsReadStep, RecordedStep, RecordEndsStep, StoredStep DEF continues
<1> QED BY <1>1, <1>2, NewL2BlockIInv, RestartIInv DEF Next

(* The types of the store's variables.                                        *)
THEOREM TypeCorrect == Spec => []TypeOK
<1>1. IInv => TypeOK
    BY DEF IInv
<1> QED BY InitIInv, NextIInv, <1>1, PTL DEF Spec

-----------------------------------------------------------------------------
LEMMA HeldByCalls ==
    /\ \A b : b \in UnderWay <=> \E c \in Calls : b \in held(c)
    /\ \A b : b \in UnderWay' <=> \E c \in Calls : b \in held(c)'
BY DEF UnderWay

(* A step of one call forgets no block: what the call held it still holds, or *)
(* it was handled or given up, and so is what the step passes.                *)
LEMMA CallStepAccounted ==
    ASSUME IInv, Accounted, NEW c \in Calls, passed' \in passed..MaxBlock,
           \A d \in Calls \ {c} : call'[d] = call[d],
           seen \subseteq seen', lost \subseteq lost',
           \A b \in held(c) \union (passed + 1..passed') : b \in held(c)' \union seen' \union lost'
    PROVE  /\ Accounted'
           /\ UnderWay \subseteq UnderWay' \union seen' \union lost'
<1>1. passed \in Nat /\ passed' \in Nat /\ passed <= passed'
    BY Numbers
<1>2. ASSUME NEW d \in Calls, NEW b \in held(d)
      PROVE  b \in UnderWay' \union seen' \union lost'
    <2>1. CASE d = c
        BY <1>2, <2>1, HeldByCalls
    <2>2. CASE d # c
        <3>1. call'[d] = call[d]
            BY <2>2
        <3>2. 1..passed \subseteq 1..passed'
            BY <1>1
        <3>3. held(d) \subseteq held(d)'
            BY <3>1, <3>2 DEF held
        <3> QED BY <1>2, <3>3, HeldByCalls
    <2> QED BY <2>1, <2>2
<1>3. \A b \in 1..passed' : b \in 1..passed \/ b \in passed + 1..passed'
    BY <1>1
<1>4. UnderWay \subseteq UnderWay' \union seen' \union lost'
    BY <1>2, HeldByCalls
<1>5. passed + 1..passed' \subseteq UnderWay' \union seen' \union lost'
    BY HeldByCalls
<1>6. Accounted'
    BY <1>3, <1>4, <1>5 DEF Accounted
<1> QED BY <1>4, <1>6

LEMMA OtherAccounted ==
    ASSUME IInv, Accounted, NEW c \in Calls,
           \/ handleBlock(c) \/ latestAnswered(c) \/ fails(c) \/ cursorRead(c) \/ storeFails(c)
           \/ rowsRead(c) \/ recorded(c) \/ recordFails(c) \/ removed(c)
    PROVE  /\ Accounted'
           /\ UnderWay \subseteq UnderWay' \union seen' \union lost'
<1>1. \A d \in Calls \ {c} : call'[d] = call[d]
    BY HandleBlockStep, LatestAnsweredStep, GivesUpStep, CursorReadStep, RowsReadStep, RecordedStep, RecordEndsStep
<1>2. seen' = seen /\ passed' = passed
    BY DEF handleBlock, latestAnswered, fails, cursorRead, rowsRead, recorded, recordFails, removed, storeFails
<1>3. \A b \in held(c) : b \in lost'
    BY DEF held, handleBlock, latestAnswered, fails, cursorRead, rowsRead, recorded, recordFails, removed, storeFails, givesUp
<1>4. lost \subseteq lost'
    BY DEF handleBlock, latestAnswered, fails, cursorRead, rowsRead, recorded, recordFails, removed, storeFails, givesUp
<1>5. passed' \in passed..MaxBlock /\ passed + 1..passed' = {}
    BY <1>2, Numbers
<1> QED BY <1>1, <1>2, <1>3, <1>4, <1>5, CallStepAccounted

LEMMA InsertedAccounted ==
    ASSUME IInv, Accounted, NEW c \in Calls, inserted(c)
    PROVE  /\ Accounted'
           /\ UnderWay \subseteq UnderWay' \union seen' \union lost'
<1>1. call[c].to \in 1..head /\ passed' = (IF call[c].to > passed THEN call[c].to ELSE passed)
      /\ passed \in 0..head /\ head \in 1..MaxBlock /\ MaxBlock \in Nat
    BY InsertedStep, Numbers
<1>2. held(c) = {} /\ held(c)' = {call[c].to}
    BY InsertedStep DEF held
<1>3. lost' = lost \union (passed + 1..call[c].to - 1) /\ seen' = seen
    BY DEF inserted
<1>4. \A b \in passed + 1..passed' : b = call[c].to \/ b \in passed + 1..call[c].to - 1
    BY <1>1
<1>5. passed' \in passed..MaxBlock
    BY <1>1
<1> QED BY <1>2, <1>3, <1>4, <1>5, InsertedStep, CallStepAccounted

LEMMA HandleLogsAccounted ==
    ASSUME IInv, Accounted, NEW c \in Calls, logsOfLatest(c) \/ closestRead(c)
    PROVE  /\ Accounted'
           /\ UnderWay \subseteq UnderWay' \union seen' \union lost'
<1>1. passed' = passed /\ passed' \in passed..MaxBlock /\ passed + 1..passed' = {}
    BY Numbers DEF logsOfLatest, closestRead
<1>2. CASE logsOfLatest(c)
    <2>1. held(c) = {call[c].to}
        BY <1>2 DEF logsOfLatest, held
    <2>2. held(c) \subseteq seen' \union lost' /\ seen \subseteq seen' /\ lost \subseteq lost'
        BY <1>2, <2>1, LogsOfLatestStep
    <2> QED BY <1>1, <1>2, <2>2, LogsOfLatestStep, CallStepAccounted
<1>3. CASE closestRead(c)
    <2>1. held(c) \subseteq call[c].logs
        BY <1>3 DEF closestRead, held
    <2>2. held(c) \subseteq seen' /\ seen \subseteq seen' /\ lost' = lost
        BY <1>3, <2>1, ClosestReadStep DEF closestRead
    <2> QED BY <1>1, <1>3, <2>2, ClosestReadStep, CallStepAccounted
<1> QED BY <1>2, <1>3

LEMMA StoredAccounted ==
    ASSUME IInv, Accounted, NEW c \in Calls, stored(c)
    PROVE  /\ Accounted'
           /\ UnderWay \subseteq UnderWay' \union seen' \union lost'
<1>1. passed' \in passed..head /\ head \in 1..MaxBlock /\ passed \in Nat /\ MaxBlock \in Nat
    BY StoredStep, Numbers
<1>2. held(c) = {} /\ held(c)' = call[c].logs \intersect (1..passed')
    BY StoredStep DEF held
<1>3. lost' = lost \union ((asked(c) \ call[c].logs) \intersect (1..passed')) /\ seen' = seen
    BY DEF stored
<1>4. passed + 1..passed' \subseteq asked(c) \intersect (1..passed')
    <2>1. call[c].prev \in 1..passed /\ (passed' = passed \/ passed' \in call[c].prev + 1..call[c].to)
        BY StoredStep
    <2>2. call[c].to \in Nat
        BY Numbers DEF stored, IInv, CallsAreBehind, Behind
    <2> QED BY <1>1, <2>1, <2>2 DEF asked, behind
<1>5. passed' \in passed..MaxBlock
    BY <1>1
<1> QED BY <1>2, <1>3, <1>4, <1>5, StoredStep, CallStepAccounted

LEMMA NextAccounted ==
    ASSUME IInv, Accounted, [Next]_vars
    PROVE  /\ Accounted'
           /\ UnderWay \subseteq UnderWay' \union seen' \union lost'
<1>1. CASE newL2Block \/ UNCHANGED vars
    BY <1>1 DEF newL2Block, vars, Accounted, UnderWay, held
<1>2. CASE restart
    <2>1. UNCHANGED <<passed, seen>> /\ lost' = lost \union UnderWay
        BY <1>2 DEF restart, UnderWay
    <2> QED BY <2>1 DEF Accounted
<1>3. ASSUME NEW c \in Calls, handleBlock(c) \/ continues(c)
      PROVE  /\ Accounted'
             /\ UnderWay \subseteq UnderWay' \union seen' \union lost'
    BY <1>3, OtherAccounted, InsertedAccounted, HandleLogsAccounted, StoredAccounted DEF continues
<1> QED BY <1>1, <1>2, <1>3 DEF Next

(* The newest row there ever was stays, and so do the blocks that were        *)
(* handled or given up.                                                       *)
LEMMA HistoryGrows ==
    ASSUME IInv, [Next]_vars
    PROVE  passed <= passed' /\ seen \subseteq seen' /\ lost \subseteq lost'
<1>1. passed \in Nat /\ head \in Nat
    BY Numbers
<1>2. ASSUME NEW c \in Calls, inserted(c) \/ stored(c) PROVE passed <= passed'
    <2>1. CASE inserted(c)
        <3>1. call[c].to \in 1..head /\ passed' = (IF call[c].to > passed THEN call[c].to ELSE passed)
            BY <2>1, InsertedStep
        <3> QED BY <1>1, <3>1
    <2>2. CASE stored(c)
        <3>1. passed' \in passed..head
            BY <2>2, StoredStep
        <3> QED BY <1>1, <3>1
    <2> QED BY <1>2, <2>1, <2>2
<1>3. ASSUME NEW c \in Calls, handleBlock(c) \/ continues(c), ~inserted(c), ~stored(c)
      PROVE  passed' = passed
    BY <1>3 DEF continues, handleBlock, latestAnswered, fails, cursorRead, logsOfLatest, storeFails,
                closestRead, rowsRead, recorded, recordFails, removed
<1>4. passed <= passed'
    BY <1>1, <1>2, <1>3 DEF Next, newL2Block, restart, vars
<1>5. ASSUME NEW c \in Calls, handleBlock(c) \/ continues(c)
      PROVE  seen \subseteq seen' /\ lost \subseteq lost'
    BY <1>5 DEF continues, handleBlock, latestAnswered, fails, cursorRead, inserted, logsOfLatest, stored,
                storeFails, closestRead, rowsRead, recorded, recordFails, removed, givesUp, handleLogs
<1>6. seen \subseteq seen' /\ lost \subseteq lost'
    BY <1>5 DEF Next, newL2Block, restart, vars
<1> QED BY <1>4, <1>6

(* Before there was a row nothing is under way, handled or given up.          *)
LEMMA NothingBeforeStart ==
    ASSUME IInv, [Next]_vars, passed' = 0
    PROVE  UNCHANGED <<passed, UnderWay, seen, lost>>
<1>1. passed = 0 /\ passed \in Nat
    BY HistoryGrows, Numbers
<1>2. 1..passed = {}
    BY <1>1
<1>3. \A c \in Calls : call[c].at \notin {"logs", "store", "closest"}
    BY <1>2 DEF IInv, CallsAreBehind, Behind
<1>4. \A c \in Calls : ~inserted(c)
    <2> SUFFICES ASSUME NEW c \in Calls, inserted(c) PROVE FALSE
        OBVIOUS
    <2>1. call[c].to \in 1..head /\ passed' = (IF call[c].to > passed THEN call[c].to ELSE passed)
        BY InsertedStep
    <2> QED BY <1>1, <2>1, Numbers
<1>5. \A c \in Calls : held(c) = {}
    BY <1>3 DEF held
<1>6. ASSUME NEW c \in Calls, handleBlock(c) \/ continues(c) PROVE UNCHANGED <<seen, lost>>
    BY <1>3, <1>4, <1>6 DEF continues, handleBlock, latestAnswered, fails, cursorRead, logsOfLatest, stored,
                storeFails, closestRead, rowsRead, recorded, recordFails, removed, givesUp
<1>7. UNCHANGED <<seen, lost>>
    <2>1. CASE restart
        <3>1. lost' = lost \union UnderWay
            BY <2>1 DEF restart, UnderWay
        <3> QED BY <1>5, <2>1, <3>1, HeldByCalls DEF restart
    <2> QED BY <1>6, <2>1 DEF Next, newL2Block, vars
<1>8. IInv'
    BY NextIInv
<1>9. \A c \in Calls : held(c)' = {}
    <2>1. \A c \in Calls : call'[c].at # "logs"
        BY <1>8 DEF IInv, CallsAreBehind, Behind
    <2> QED BY <2>1 DEF held
<1> QED BY <1>1, <1>5, <1>7, <1>9, HeldByCalls

LEMMA NextIsStep ==
    ASSUME IInv, IInv', Accounted, [Next]_vars
    PROVE  [Stream!Step]_<<passed, UnderWay, seen, lost>>
<1>1. CASE passed' = 0
    BY <1>1, NothingBeforeStart
<1>2. CASE passed' # 0
    <2>1. passed' \in Stream!Blocks
        BY <1>2 DEF IInv, TypeOK, Blocks, Stream!Blocks, Undefined
    <2>2. passed' >= passed
        BY HistoryGrows, Numbers, <2>1 DEF Stream!Blocks
    <2>3. Stream!Accounted'
        BY NextAccounted DEF Accounted, Stream!Accounted, UnderWay
    <2> QED BY <2>1, <2>2, <2>3, NextAccounted, HistoryGrows DEF Stream!Step, UnderWay
<1> QED BY <1>1, <1>2

(* The store implements the stream of L2 blocks: whichever calls overlap, and *)
(* however often the process begins again, what lies behind the newest row    *)
(* was handled, is held by a call or was given up.                            *)
THEOREM KeepsStreamCorrect == Spec => KeepsStream
<1>1. Init => Stream!Init /\ Accounted
    BY DEF Init, Stream!Init, Accounted, UnderWay, held, Idle, Undefined
<1>2. IInv /\ Accounted /\ [Next]_vars => Accounted'
    BY NextAccounted
<1>3. IInv /\ IInv' /\ Accounted /\ [Next]_vars
          => [Stream!Step]_<<passed, UnderWay, seen, lost>>
    BY NextIsStep
<1> QED BY InitIInv, NextIInv, <1>1, <1>2, <1>3, PTL DEF Spec, KeepsStream, Stream!Spec, UnderWay

-----------------------------------------------------------------------------
(* A row leaves the table only when its withdrawals are recorded or given up; *)
(* so what a call is about to record stays findable whatever others do.       *)
LEMMA CallStepFound ==
    ASSUME IInv, RowsAreFound, WithdrawalsAreRecorded, NEW c \in Calls,
           \A d \in Calls \ {c} : call'[d] = call[d],
           \A b \in Blocks : Recorded(b) => Recorded(b)', hidden \subseteq hidden',
           \A b \in l2_blocks : b \in l2_blocks' \/ Recorded(b)',
           Findable(call[c])',
           seen' \subseteq seen \union ToRecord(c)',
           \A b \in ToRecord(c) : b \in ToRecord(c)' \/ Recorded(b)'
    PROVE  RowsAreFound' /\ WithdrawalsAreRecorded'
<1>1. RowsAreFound'
    <2> SUFFICES ASSUME NEW d \in Calls PROVE Findable(call[d])'
        BY DEF RowsAreFound
    <2>1. CASE d = c
        BY <2>1
    <2>2. CASE d # c
        <3>1. call'[d] = call[d] /\ Findable(call[d]) /\ call[d].logs \subseteq Blocks
            BY <2>2, Numbers DEF RowsAreFound, Requests
        <3>2. ASSUME call[d].at \in {"closest", "record"}, NEW b \in call[d].logs
              PROVE  Recorded(b)' \/ (b \in l2_blocks' /\ b > call[d].prev)
            BY <3>1, <3>2 DEF Findable
        <3>3. call[d].at = "logs" => call[d].to \in hidden'
            BY <3>1 DEF Findable
        <3> QED BY <3>1, <3>2, <3>3 DEF Findable
    <2> QED BY <2>1, <2>2
<1>2. ASSUME NEW b \in seen'
      PROVE  Recorded(b)' \/ \E d \in Calls : b \in ToRecord(d)'
    <2>1. CASE b \in seen
        <3>1. b \in Blocks
            BY <2>1 DEF IInv, TypeOK
        <3>2. CASE Recorded(b)
            BY <3>1, <3>2
        <3>3. ASSUME NEW d \in Calls, b \in ToRecord(d), d # c
              PROVE  b \in ToRecord(d)'
            BY <3>3 DEF ToRecord
        <3> QED BY <2>1, <3>2, <3>3 DEF WithdrawalsAreRecorded, Recorded
    <2>2. CASE b \notin seen
        BY <1>2, <2>2
    <2> QED BY <2>1, <2>2
<1> QED BY <1>1, <1>2 DEF WithdrawalsAreRecorded, Recorded

LEMMA CallFound ==
    ASSUME IInv, RowsAreFound, WithdrawalsAreRecorded, NEW c \in Calls, handleBlock(c) \/ continues(c)
    PROVE  RowsAreFound' /\ WithdrawalsAreRecorded'
<1>1. CASE handleBlock(c)
    <2>1. /\ \A d \in Calls \ {c} : call'[d] = call[d]
          /\ Findable(call[c])' /\ ToRecord(c) = {}
        BY <1>1, HandleBlockStep DEF Findable, ToRecord
    <2>2. UNCHANGED <<withdrawals, seen, head>> /\ hidden \subseteq hidden'
        BY <1>1 DEF handleBlock
    <2>3. \A b \in l2_blocks : b \in l2_blocks' \/ Recorded(b)'
        BY <1>1 DEF handleBlock, Recorded
    <2> QED BY <2>1, <2>2, <2>3, CallStepFound DEF Recorded
<1>2. CASE latestAnswered(c) \/ fails(c) \/ storeFails(c) \/ cursorRead(c)
    <2>1. /\ \A d \in Calls \ {c} : call'[d] = call[d]
          /\ Findable(call[c])' /\ ToRecord(c) = {}
        BY <1>2, LatestAnsweredStep, GivesUpStep, CursorReadStep DEF Findable, Idle, ToRecord
    <2>2. UNCHANGED <<withdrawals, seen, hidden, l2_blocks, head>>
        BY <1>2 DEF latestAnswered, fails, storeFails, cursorRead
    <2> QED BY <2>1, <2>2, CallStepFound DEF Recorded
<1>3. CASE inserted(c)
    <2>1. /\ \A d \in Calls \ {c} : call'[d] = call[d]
          /\ call'[c].at = "logs" /\ call'[c].to = call[c].to /\ ToRecord(c) = {}
          /\ hidden' = hidden \union {call[c].to}
        BY <1>3, InsertedStep DEF inserted, ToRecord
    <2>2. Findable(call[c])'
        BY <2>1 DEF Findable
    <2>3. UNCHANGED <<withdrawals, seen, head>> /\ hidden \subseteq hidden' /\ l2_blocks \subseteq l2_blocks'
        BY <1>3 DEF inserted
    <2> QED BY <2>1, <2>2, <2>3, CallStepFound DEF Recorded
<1>4. CASE logsOfLatest(c)
    <2>1. /\ call[c].at = "logs" /\ call'[c].at = "record"
          /\ call'[c].logs \subseteq {call[c].to} /\ seen' = seen \union call'[c].logs
          /\ \A d \in Calls \ {c} : call'[d] = call[d]
        BY <1>4, LogsOfLatestStep
    <2>2. UNCHANGED <<withdrawals, hidden, l2_blocks, head>>
        BY <1>4 DEF logsOfLatest
    <2>3. call[c].to \in hidden
        BY <2>1 DEF RowsAreFound, Findable
    <2>4. Findable(call[c])'
        BY <2>1, <2>2, <2>3 DEF Findable, Recorded
    <2>5. ToRecord(c) = {} /\ ToRecord(c)' = call'[c].logs
        BY <2>1 DEF ToRecord
    <2> QED BY <2>1, <2>2, <2>4, <2>5, CallStepFound DEF Recorded
<1>5. CASE closestRead(c)
    <2>1. /\ call[c].at = "closest" /\ call'[c].at = "record"
          /\ call'[c].logs = call[c].logs /\ call'[c].prev = call[c].prev
          /\ seen' = seen \union call[c].logs
          /\ \A d \in Calls \ {c} : call'[d] = call[d]
        BY <1>5, ClosestReadStep
    <2>2. UNCHANGED <<withdrawals, hidden, l2_blocks, head>>
        BY <1>5 DEF closestRead
    <2>3. Findable(call[c])'
        BY <2>1, <2>2 DEF RowsAreFound, Findable, Recorded
    <2>4. ToRecord(c) = {} /\ ToRecord(c)' = call[c].logs
        BY <2>1 DEF ToRecord
    <2> QED BY <2>1, <2>2, <2>3, <2>4, CallStepFound DEF Recorded
<1>6. CASE rowsRead(c)
    <2>1. /\ call[c].at = "record"
          /\ getL2BlocksFrom(c) = {} => call'[c] = Idle
          /\ getL2BlocksFrom(c) # {} => /\ call'[c].at = "monitor" /\ call'[c].logs = call[c].logs
                                        /\ call'[c].blocks = getL2BlocksFrom(c)
          /\ \A d \in Calls \ {c} : call'[d] = call[d]
        BY <1>6, RowsReadStep
    <2>2. UNCHANGED <<withdrawals, seen, hidden, l2_blocks, head>>
        BY <1>6 DEF rowsRead
    <2>3. Findable(call[c])'
        BY <2>1 DEF Findable, Idle
    <2>4. ToRecord(c) = call[c].logs /\ \A b \in call[c].logs : Recorded(b) \/ b \in getL2BlocksFrom(c)
        BY <2>1 DEF RowsAreFound, Findable, ToRecord, getL2BlocksFrom
    <2>5. \A b \in call[c].logs \intersect getL2BlocksFrom(c) : b \in ToRecord(c)'
        BY <2>1 DEF ToRecord
    <2> QED BY <2>1, <2>2, <2>3, <2>4, <2>5, CallStepFound DEF Recorded
<1>7. CASE recorded(c)
    <2>1. /\ call[c].at = "monitor" /\ call'[c].at \in {"idle", "remove"}
          /\ \A d \in Calls \ {c} : call'[d] = call[d]
        BY <1>7, RecordedStep
    <2>2. UNCHANGED <<seen, hidden, l2_blocks, head>> /\ withdrawals' = withdrawals \union merged(getWithdrawals(c))
        BY <1>7 DEF recorded
    <2>3. Findable(call[c])'
        BY <2>1 DEF Findable
    <2>4. ToRecord(c) = call[c].logs \intersect call[c].blocks /\ ToRecord(c) \subseteq Blocks
        BY <2>1, Numbers DEF ToRecord, Requests
    <2>5. ASSUME NEW b \in ToRecord(c) PROVE Recorded(b)'
        <3>1. Sent[b] \in Nat /\ getWithdrawals(c) \subseteq Blocks
            BY <2>4, StoreAssumption DEF Blocks, getWithdrawals
        <3>2. CASE Sent[b] = 0
            BY <3>2 DEF Recorded
        <3>3. CASE Sent[b] # 0
            <4>1. Sent[b] > 0 /\ b \in getWithdrawals(c)
                BY <2>4, <3>1, <3>3 DEF getWithdrawals
            <4>2. Row(b) \in merged(getWithdrawals(c))
                BY <3>1, <4>1, MergedRows
            <4> QED BY <2>2, <4>2 DEF Recorded
        <3> QED BY <3>2, <3>3
    <2> QED BY <2>1, <2>2, <2>3, <2>5, CallStepFound DEF Recorded
<1>8. CASE recordFails(c)
    <2>1. /\ call[c].at \in {"record", "monitor"} /\ call'[c] = Idle
          /\ \A d \in Calls \ {c} : call'[d] = call[d]
        BY <1>8, RecordEndsStep DEF recordFails
    <2>2. UNCHANGED <<withdrawals, seen, l2_blocks, head>> /\ hidden \subseteq hidden'
        BY <1>8 DEF recordFails
    <2>3. Findable(call[c])'
        BY <2>1 DEF Findable, Idle
    <2>4. ASSUME NEW b \in ToRecord(c) PROVE Recorded(b)'
        <3>1. CASE call[c].at = "record"
            BY <1>8, <3>1 DEF recordFails, ToRecord, Recorded
        <3>2. CASE call[c].at = "monitor"
            <4>1. b \in call[c].logs \intersect call[c].blocks /\ b \in Blocks
                BY <3>2, Numbers DEF ToRecord, Requests
            <4>2. Sent[b] \in Nat
                BY <4>1, StoreAssumption DEF Blocks
            <4>3. Sent[b] = 0 \/ b \in hidden'
                BY <1>8, <3>2, <4>1, <4>2 DEF recordFails, getWithdrawals
            <4> QED BY <4>3 DEF Recorded
        <3> QED BY <2>1, <3>1, <3>2
    <2> QED BY <2>1, <2>2, <2>3, <2>4, CallStepFound DEF Recorded
<1>9. CASE removed(c)
    <2>1. /\ call[c].at = "remove" /\ call'[c] = Idle
          /\ \A d \in Calls \ {c} : call'[d] = call[d]
        BY <1>9, RecordEndsStep DEF removed
    <2>2. UNCHANGED <<seen, hidden, l2_blocks, head>>
        BY <1>9 DEF removed
    <2>3. Findable(call[c])' /\ ToRecord(c) = {}
        BY <2>1 DEF Findable, Idle, ToRecord
    <2>4. Max(call[c].blocks) \in 1..head /\ head \in Nat
        <3>1. call[c].blocks \in SUBSET (0..head) /\ call[c].blocks # {} /\ call[c].blocks \subseteq 1..head
              /\ head \in Nat
            BY <2>1, Numbers DEF IInv, CallsAreBehind, Behind
        <3> QED BY <3>1, MaxOfBlocks
    <2>5. \A b \in Blocks : Recorded(b) => Recorded(b)'
        <3> SUFFICES ASSUME NEW b \in Blocks, Row(b) \in withdrawals, Row(b) \notin withdrawals'
                     PROVE  expired(b, head)
            BY <2>2 DEF Recorded
        <3>1. expired(b, Max(call[c].blocks))
            BY <1>9 DEF removed, Row
        <3> QED BY <2>4, <3>1, StoreAssumption DEF expired, Blocks
    <2> QED BY <2>1, <2>2, <2>3, <2>5, CallStepFound
<1>10. CASE stored(c)
    <2>1. /\ call[c].at = "store" /\ call'[c].at = "closest"
          /\ call'[c].logs = call[c].logs /\ call'[c].prev = call[c].prev
          /\ call[c].logs \subseteq call[c].prev + 1..call[c].to
          /\ \A d \in Calls \ {c} : call'[d] = call[d]
        BY <1>10, StoredStep
    <2>2. /\ UNCHANGED <<withdrawals, seen, head>> /\ hidden' = hidden \union (asked(c) \ call[c].blocks)
          /\ l2_blocks' = l2_blocks \union call[c].blocks
        BY <1>10 DEF stored
    <2>3. call[c].prev \in Int /\ call[c].to \in Int
        BY <2>1, Numbers DEF IInv, CallsAreBehind, Behind
    <2>4. Findable(call[c])'
        BY <2>1, <2>2, <2>3 DEF Findable, Recorded, asked, behind
    <2>5. ToRecord(c) = {}
        BY <2>1 DEF ToRecord
    <2> QED BY <2>1, <2>2, <2>4, <2>5, CallStepFound DEF Recorded
<1> QED BY <1>1, <1>2, <1>3, <1>4, <1>5, <1>6, <1>7, <1>8, <1>9, <1>10 DEF continues

LEMMA NextFound ==
    ASSUME IInv, RowsAreFound, WithdrawalsAreRecorded, [Next]_vars
    PROVE  RowsAreFound' /\ WithdrawalsAreRecorded'
<1>1. CASE UNCHANGED vars
    BY <1>1 DEF vars, RowsAreFound, Findable, Recorded, WithdrawalsAreRecorded, ToRecord
<1>2. CASE newL2Block
    <2>1. UNCHANGED <<l2_blocks, withdrawals, call, seen, hidden>>
        BY <1>2 DEF newL2Block
    <2>2. \A b \in Blocks : Recorded(b) => Recorded(b)'
        BY <1>2, <2>1, Numbers, StoreAssumption DEF newL2Block, Recorded, expired, Blocks
    <2>3. RowsAreFound'
        <3> SUFFICES ASSUME NEW c \in Calls PROVE Findable(call[c])'
            BY DEF RowsAreFound
        <3>1. Findable(call[c]) /\ call[c].logs \subseteq Blocks
            BY Numbers DEF RowsAreFound, Requests
        <3> QED BY <2>1, <2>2, <3>1 DEF Findable
    <2>4. WithdrawalsAreRecorded'
        <3> SUFFICES ASSUME NEW b \in seen
                     PROVE  Recorded(b)' \/ \E c \in Calls : b \in ToRecord(c)'
            BY <2>1 DEF WithdrawalsAreRecorded, Recorded
        <3>1. b \in Blocks /\ (Recorded(b) \/ \E c \in Calls : b \in ToRecord(c))
            BY DEF IInv, TypeOK, WithdrawalsAreRecorded, Recorded
        <3>2. \A c \in Calls : ToRecord(c)' = ToRecord(c)
            BY <2>1 DEF ToRecord
        <3> QED BY <2>2, <3>1, <3>2
    <2> QED BY <2>3, <2>4
<1>3. CASE restart
    <2>1. PICK found \in SUBSET Blocks : withdrawals' = merged(found) /\ hidden' = hidden \union (1..head \ found)
        <3>1. \A n \in Latest : 1..n \subseteq Blocks
            BY Numbers, StoreAssumption DEF Latest, Blocks
        <3> QED BY <1>3, <3>1 DEF restart
    <2>2. \A b \in seen' : Recorded(b)'
        <3> SUFFICES ASSUME NEW b \in seen PROVE Recorded(b)'
            BY <1>3 DEF restart
        <3>1. b \in 1..head /\ b \in Blocks /\ Sent[b] \in Nat
            BY StoreAssumption DEF IInv, SeenExist, TypeOK, Blocks
        <3>2. CASE b \in found /\ Sent[b] # 0
            <4>1. Sent[b] > 0
                BY <3>1, <3>2
            <4> QED BY <2>1, <3>2, <4>1, MergedRows DEF Recorded
        <3> QED BY <2>1, <3>1, <3>2 DEF Recorded
    <2>3. \A c \in Calls : call'[c] = Idle
        BY <1>3 DEF restart
    <2> QED BY <2>2, <2>3 DEF RowsAreFound, Findable, WithdrawalsAreRecorded, Recorded, Idle
<1> QED BY <1>1, <1>2, <1>3, CallFound DEF Next

(* The last withdrawal of every transaction that was looked at is recorded,   *)
(* about to be, too old, or left out for a reason: calls that overlap hide    *)
(* and remove no row of each other.                                           *)
THEOREM RecordCorrect == Spec => []WithdrawalsAreRecorded
<1>1. Init => RowsAreFound /\ WithdrawalsAreRecorded
    BY DEF Init, RowsAreFound, Findable, WithdrawalsAreRecorded, Idle
<1>2. IInv /\ RowsAreFound /\ WithdrawalsAreRecorded /\ [Next]_vars
          => RowsAreFound' /\ WithdrawalsAreRecorded'
    BY NextFound
<1> QED BY InitIInv, NextIInv, <1>1, <1>2, PTL DEF Spec
===============================================================================
