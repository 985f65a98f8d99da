----------------------------- MODULE StethBuffer -----------------------------
(***************************************************************************)
(* handleBufferedEth of the stETH operation service of ethereum-steth: has  *)
(* the buffered ether of Lido decreased in a block without an event that    *)
(* explains it?  The check of a block is made three blocks later, so that a *)
(* reorganisation of the chain does not reach it: the cache keeps the four  *)
(* blocks before the one to come, and the older two are compared.  When the *)
(* block that comes is not a child of the newest one kept, the four are     *)
(* read again by their hashes.                                              *)
(*                                                                          *)
(* A call is cut at its awaits: the latest block, which the handler of the  *)
(* block asks first, the hashes, the buffers, the events, and the other     *)
(* services, without which it is not answered.  The handler does not keep a *)
(* call back while another one is open.  A request that answers an error    *)
(* leaves an alert of the network only, and the four blocks as they are;    *)
(* getUnbufferedEvents throws instead: Promise.all rejects, nobody catches  *)
(* it, and Node ends the process, which is started again.                   *)
(*                                                                          *)
(* One block of the chain decreases the buffer; all the others leave it.    *)
(* The calls for the other alerts of the service touch none of this.        *)
(***************************************************************************)
EXTENDS Integers, Sequences

CONSTANTS
    Calls,      \* the calls of handleBlock that may be open at the same time
    Start,      \* the block initialize was called at
    MaxBlock,   \* bound: the last block
    MaxReorg    \* how many blocks a reorganisation of the chain replaces

Depth == 4

BufferAssumption == /\ Start \in Nat /\ MaxBlock \in Nat /\ MaxReorg \in Nat
                    /\ Start > Depth /\ MaxBlock >= Start /\ MaxReorg < Depth

(* A block is a number and the branch it lies on: 1 after a reorganisation.   *)
Blocks == (1..MaxBlock) \X {0, 1}

VARIABLES
    head,           \* the chain: its newest number
    forkAt,         \* the first number on branch 1, MaxBlock + 1 as long as there is none
    drain,          \* the block that decreases the buffer, and whether an event explains it
    delivered,      \* the number of the last block given to the bot
    running,        \* the process is up
    prev4Blocks,    \* the cache
    call,           \* what every call waits for
    reported,       \* history: the numbers named by BUFFERED-ETH-DRAIN, with the block that did
    unchecked,      \* history: the numbers whose check was lost: their block was never given
                    \* to the bot, or the call for it has failed
    overlapped      \* history: the blocks whose check was open together with another one

chain == <<head, forkAt, drain>>
vars == <<chain, delivered, running, prev4Blocks, call, reported, unchecked, overlapped>>

waiting(at, b, lo, hi) == [at |-> at, block |-> b, lo |-> lo, hi |-> hi]
Idle == waiting("idle", <<0, 0>>, 0, 0)

TypeOK ==
    /\ head \in 1..MaxBlock /\ forkAt \in 1..MaxBlock + 1
    /\ drain \in [block : Blocks, explained : BOOLEAN]
    /\ delivered \in 0..MaxBlock /\ running \in BOOLEAN
    /\ prev4Blocks \in [1..Depth -> Blocks]
    /\ call \in [Calls -> [at : {"idle", "latest", "prev", "buffer", "events", "others"},
                           block : Blocks \union {<<0, 0>>}, lo : 0..MaxBlock, hi : 0..MaxBlock]]
    /\ reported \subseteq (1..MaxBlock) \X (1..MaxBlock)
    /\ unchecked \subseteq 1..MaxBlock /\ overlapped \subseteq 1..MaxBlock

branchOf(n) == IF n >= forkAt THEN 1 ELSE 0
onChain(n) == <<n, branchOf(n)>>

(* The block a number has among the ancestors of b, along the parent hashes.  *)
ancestor(b, n) == <<n, IF b[2] = 1 THEN branchOf(n) ELSE 0>>
parent(b) == ancestor(b, b[1] - 1)

(* getChainPrevBlocks: the four blocks before b, the oldest one first.        *)
chainPrev(b) == [i \in 1..Depth |-> ancestor(b, b[1] - 1 - Depth + i)]

(* initialize: the four blocks before the current one.                        *)
Init ==
    /\ head = Start /\ forkAt = MaxBlock + 1
    /\ drain \in [block : (Start - Depth + 1..MaxBlock) \X {0, 1}, explained : BOOLEAN]
    /\ delivered = Start - 1 /\ running = TRUE
    /\ prev4Blocks = [i \in 1..Depth |-> <<Start - 1 - Depth + i, 0>>]
    /\ call = [c \in Calls |-> Idle]
    /\ reported = {} /\ unchecked = {} /\ overlapped = {}

-----------------------------------------------------------------------------
newBlock ==
    /\ head < MaxBlock
    /\ head' = head + 1
    /\ UNCHANGED <<forkAt, drain, delivered, running, prev4Blocks, call, reported, unchecked, overlapped>>

(* The newest blocks are replaced, and will be given to the bot again.        *)
reorganised ==
    /\ forkAt > MaxBlock
    /\ \E d \in 1..MaxReorg :
          /\ head - d + 1 >= Start
          /\ forkAt' = head - d + 1
    /\ delivered' = IF delivered < forkAt' THEN delivered ELSE forkAt' - 1
    /\ UNCHANGED <<head, drain, running, prev4Blocks, call, reported, unchecked, overlapped>>

(* The number whose check is made with a block.                               *)
checkOf(b) == b[1] - Depth + 1

(* The next block, or a later one, is given to the bot.                       *)
handleBlock(c) ==
    /\ running /\ call[c].at = "idle"
    /\ \E n \in delivered + 1..head :
          /\ call' = [call EXCEPT ![c] = waiting("latest", onChain(n), 0, 0)]
          /\ delivered' = n
          /\ unchecked' = unchecked \union {checkOf(<<m, 0>>) : m \in delivered + 1..n - 1}
    /\ UNCHANGED <<chain, running, prev4Blocks, reported, overlapped>>

(* The two blocks that are compared: prev4Blocks[0] and prev4Blocks[1] of the *)
(* code.  A bug would take the two newest ones.                               *)
newestTwo(win) == [lo |-> win[3][1], hi |-> win[4][1]]
compared(win) == [lo |-> win[1][1], hi |-> win[2][1]]

asksBuffer(c, b, win) ==
    call' = [call EXCEPT ![c] = waiting("buffer", b, compared(win).lo, compared(win).hi)]

checking(c) == call[c].at \in {"prev", "buffer", "events"}
besides(c) == {d \in Calls \ {c} : checking(d)}

(* The latest block has come, or an error.  A bug would not look at the hash. *)
alwaysFollows(b) == TRUE
followsCache(b) == prev4Blocks[Depth] = parent(b)

handleBufferedEth(c) ==
    LET b == call[c].block
    IN  /\ call[c].at = "latest"
        /\ IF followsCache(b) THEN asksBuffer(c, b, prev4Blocks)
           ELSE call' = [call EXCEPT ![c] = waiting("prev", b, 0, 0)]
        /\ overlapped' = IF besides(c) = {} THEN overlapped
                         ELSE overlapped \union {call[d].block[1] : d \in besides(c) \union {c}}
        /\ UNCHANGED <<chain, delivered, running, prev4Blocks, reported, unchecked>>

prevAnswered(c) ==
    /\ call[c].at = "prev"
    /\ prev4Blocks' = chainPrev(call[c].block)
    /\ asksBuffer(c, call[c].block, prev4Blocks')
    /\ UNCHANGED <<chain, delivered, running, reported, unchecked, overlapped>>

(* setPrevBlock: the four blocks move on by one.                              *)
setPrevBlock(b) == Append(Tail(prev4Blocks), b)

(* The check ends, and the call waits for the other services: hi is the       *)
(* number it has a finding of, 0 for none.                                    *)
ends(c, hi) ==
    /\ prev4Blocks' = setPrevBlock(call[c].block)
    /\ call' = [call EXCEPT ![c] = waiting("others", call[c].block, 0, hi)]

(* What the node can answer when it is asked whether the buffer was less at   *)
(* hi than at lo; anything, where the one is not the block before the other.  *)
less(lo, hi) ==
    IF hi = lo + 1 THEN {onChain(hi) = drain.block}
    ELSE IF hi = lo THEN {FALSE}
    ELSE BOOLEAN

bufferAnswered(c) ==
    LET r == call[c]
    IN  /\ r.at = "buffer"
        /\ \/ /\ FALSE \in less(r.lo, r.hi)
              /\ ends(c, 0)
           \/ /\ TRUE \in less(r.lo, r.hi)
              /\ call' = [call EXCEPT ![c] = waiting("events", r.block, r.lo, r.hi)]
              /\ UNCHANGED prev4Blocks
        /\ UNCHANGED <<chain, delivered, running, reported, unchecked, overlapped>>

(* The events of the block, of which only those of the drain are given.       *)
events(n) == IF onChain(n) = drain.block THEN {drain.explained} ELSE BOOLEAN

eventsAnswered(c) ==
    LET r == call[c]
    IN  /\ r.at = "events"
        /\ \E explained \in events(r.hi) : ends(c, IF explained THEN 0 ELSE r.hi)
        /\ UNCHANGED <<chain, delivered, running, reported, unchecked, overlapped>>

(* A request fails, of the blocks, the buffer, the events or, for every       *)
(* hundredth block, the depositable ether: nothing of the check is left, the  *)
(* finding neither if there was one.                                          *)
fails(c) ==
    /\ checking(c)
    /\ unchecked' = unchecked \union {checkOf(call[c].block)}
    /\ call' = [call EXCEPT ![c] = waiting("others", call[c].block, 0, 0)]
    /\ UNCHANGED <<chain, delivered, running, prev4Blocks, reported, overlapped>>

(* All services have answered: the finding leaves with the others.            *)
answers(c) ==
    LET r == call[c]
    IN  /\ r.at = "others"
        /\ reported' = IF r.hi = 0 THEN reported ELSE reported \union {<<r.hi, r.block[1]>>}
        /\ call' = [call EXCEPT ![c] = Idle]
        /\ UNCHANGED <<chain, delivered, running, prev4Blocks, unchecked, overlapped>>

(* getUnbufferedEvents throws: the process ends, with every call that is open.*)
throws(c) ==
    /\ call[c].at = "events"
    /\ running' = FALSE
    /\ unchecked' = unchecked \union {checkOf(call[d].block) : d \in {d \in Calls : call[d].at # "idle"}}
    /\ call' = [d \in Calls |-> Idle]
    /\ UNCHANGED <<chain, delivered, prev4Blocks, reported, overlapped>>

(* main: the process is started again, at the newest block.                   *)
initialize ==
    /\ ~running
    /\ running' = TRUE
    /\ prev4Blocks' = chainPrev(onChain(head))
    /\ UNCHANGED <<chain, delivered, call, reported, unchecked, overlapped>>

Next ==
    \/ newBlock \/ reorganised \/ initialize
    \/ \E c \in Calls :
          \/ handleBlock(c) \/ handleBufferedEth(c) \/ prevAnswered(c) \/ bufferAnswered(c)
          \/ eventsAnswered(c) \/ fails(c) \/ answers(c) \/ throws(c)

Spec == Init /\ [][Next]_vars

-----------------------------------------------------------------------------
Quiet == \A c \in Calls : call[c].at = "idle"

(* The block, or one of the two after it, had its check open together with    *)
(* another one: such checks may enter the cache in any order.                 *)
disturbed(n) == \E m \in n..n + 2 : m \in overlapped

(* A decrease that no event explains is reported as soon as the third block   *)
(* after it was answered, in spite of blocks left out, a reorganisation,      *)
(* calls that fail or overlap elsewhere and a process that ends in between,   *)
(* unless the one call that was to check it has failed or was never made, or  *)
(* checks of the three blocks before that call have overlapped.               *)
DrainIsReported ==
    LET n == drain.block[1]
    IN  Quiet /\ onChain(n) = drain.block /\ ~drain.explained /\ delivered >= n + Depth - 1
            => <<n, n + Depth - 1>> \in reported \/ n \in unchecked \/ disturbed(n)

(* And what a block reports is so, unless checks of the three blocks before   *)
(* it have overlapped: the number named is the one the block was to check, it *)
(* lies on the chain, whatever was reorganised since, and has decreased the   *)
(* buffer without an event.                                                   *)
DrainIsTrue ==
    \A r \in reported :
        LET n == r[2] - Depth + 1
        IN  disturbed(n) \/ (r[1] = n /\ ~drain.explained /\ drain.block = onChain(n))
=============================================================================
