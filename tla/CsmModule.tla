------------------------------ MODULE CsmModule ------------------------------
(***************************************************************************)
(* The CSModule service of csm-alerts, as far as it watches for addresses   *)
(* that manage, or are rewarded for, too many node operators.  It keeps the *)
(* NodeOperatorAdded events, all of them from initialize and afterwards the *)
(* first one of the block of every transaction, and counts their addresses  *)
(* with every block.  Calls of handleBlock do not wait for each other: a    *)
(* block may be taken up, and answered, before an earlier one is.           *)
(*                                                                          *)
(* Nothing catches a request that fails: the promise of the gRPC handler is *)
(* rejected, the process ends, and starts again with initialize.  The other *)
(* checks of the service only matter here in that they may fail.            *)
(***************************************************************************)
EXTENDS Naturals, FiniteSets

CONSTANTS
    Operators,      \* the node operators, by their numbers
    Addresses,
    MaxSame,        \* MAX_OPERATORS_WITH_SAME_MANAGER_OR_REWARD_ADDRESS
    OneDay,         \* in blocks
    Start,          \* the block of the first initialize
    MaxBlock,       \* bound: the last block
    MaxCalls,       \* bound: the calls of handleBlock under way
    MaxTxs,         \* bound: the transactions that are handled
    MaxCrashes      \* bound: how often a request fails

CsmAssumption == /\ Operators \subseteq Nat /\ IsFiniteSet(Operators) /\ MaxSame \in Nat /\ OneDay \in Nat
                 /\ Start \in Nat /\ MaxBlock \in Nat /\ OneDay < Start /\ Start <= MaxBlock
                 /\ MaxCalls \in Nat /\ MaxTxs \in Nat /\ MaxCrashes \in Nat

Blocks == Start..MaxBlock
Never == 0
Times == {Never} \union Blocks

VARIABLES
    head,                   \* the chain: its newest block
    added,                  \* the chain: the block that adds an operator, and its addresses
    nodeOperatorAddedEvents,    \* how often the event of every operator is in the list
    addressCounts,
    lastDuplicateAddressesAlertTimestamp,
    delivered,              \* the newest block given to handleBlock
    calls,                  \* the calls of handleBlock, their blocks and what they have found
    txs,                    \* the blocks whose logs calls of handleTransaction wait for
    txCount, crashes,
    answered,               \* history: the block that was answered last
    toldAt,                 \* history: when an address was alerted last
    sharedFrom,             \* history: the newest block when it was counted as shared first
    falseAlerts             \* history: the addresses alerted without being shared

chainVars == <<head, added>>
serviceVars == <<nodeOperatorAddedEvents, addressCounts, lastDuplicateAddressesAlertTimestamp>>
history == <<answered, toldAt, sharedFrom, falseAlerts>>
vars == <<chainVars, serviceVars, delivered, calls, txs, txCount, crashes, history>>

Call == [at : {"summary", "checks"}, number : Blocks, found : SUBSET Addresses]

TypeOK ==
    /\ head \in Blocks
    /\ added \in [Operators -> [in : Blocks, manager : Addresses, reward : Addresses]]
    /\ nodeOperatorAddedEvents \in [Operators -> 0..1 + MaxTxs]
    /\ addressCounts \in [Addresses -> Nat]
    /\ lastDuplicateAddressesAlertTimestamp \in Times
    /\ delivered \in Blocks
    /\ calls \subseteq Call
    /\ txs \subseteq Blocks
    /\ txCount \in 0..MaxTxs /\ crashes \in 0..MaxCrashes
    /\ answered \in Times
    /\ toldAt \in [Addresses -> Times] /\ sharedFrom \in [Addresses -> Times]
    /\ falseAlerts \subseteq Addresses

(* initialize reads the events of all blocks up to the newest.                *)
eventsTo(n) == [o \in Operators |-> IF added[o].in <= n THEN 1 ELSE 0]

(* Operators are added in the order of their numbers.                         *)
Init ==
    /\ head = Start
    /\ added \in [Operators -> [in : Blocks, manager : Addresses, reward : Addresses]]
    /\ \A o, p \in Operators : o < p => added[o].in <= added[p].in
    /\ nodeOperatorAddedEvents = eventsTo(Start)
    /\ addressCounts = [a \in Addresses |-> 0]
    /\ lastDuplicateAddressesAlertTimestamp = Never
    /\ delivered = Start
    /\ calls = {} /\ txs = {} /\ txCount = 0 /\ crashes = 0
    /\ answered = Never /\ falseAlerts = {}
    /\ toldAt = [a \in Addresses |-> Never] /\ sharedFrom = [a \in Addresses |-> Never]

-----------------------------------------------------------------------------
newBlock ==
    /\ head < MaxBlock
    /\ head' = head + 1
    /\ UNCHANGED <<added, serviceVars, delivered, calls, txs, txCount, crashes, history>>

(* handleTransaction asks for the events of the block of the transaction.     *)
handleTransaction ==
    /\ txCount < MaxTxs
    /\ \E n \in Start..head : n \notin txs /\ txs' = txs \union {n}
    /\ txCount' = txCount + 1
    /\ UNCHANGED <<chainVars, serviceVars, delivered, calls, crashes, history>>

(* const [events] = ...: only the first one is kept, if there is one.         *)
firstOf(n) == {o \in Operators : added[o].in = n /\ \A p \in Operators : added[p].in = n => o <= p}

logsAnswered(n) ==
    /\ n \in txs /\ txs' = txs \ {n}
    /\ nodeOperatorAddedEvents' =
          [o \in Operators |-> nodeOperatorAddedEvents[o] + IF o \in firstOf(n) THEN 1 ELSE 0]
    /\ UNCHANGED <<chainVars, addressCounts, lastDuplicateAddressesAlertTimestamp, delivered,
                   calls, txCount, crashes, history>>

handleBlock ==
    /\ Cardinality(calls) < MaxCalls
    /\ \E n \in delivered + 1..head :
          /\ delivered' = n
          /\ calls' = calls \union {[at |-> "summary", number |-> n, found |-> {}]}
    /\ UNCHANGED <<chainVars, serviceVars, txs, txCount, crashes, history>>

(* Every event counts once for its manager and once for its reward address:   *)
(* on top of what was counted with the blocks before.                         *)
OperatorsOf(a) == {o \in Operators : a \in {added[o].manager, added[o].reward}}
Events == UNION {{o} \X (1..nodeOperatorAddedEvents[o]) : o \in Operators}

counted(a) ==
    addressCounts[a] + Cardinality({e \in Events : added[e[1]].manager = a})
                     + Cardinality({e \in Events : added[e[1]].reward = a})

(* The throttle is set with an alert; a bug would set it with every check.    *)
setAlways(n, found) == n
setWhenFound(n, found) == IF found = {} THEN lastDuplicateAddressesAlertTimestamp ELSE n

(* handleDuplicateAddresses, when the summary of the module and the digests   *)
(* are there.                                                                 *)
Recorded == {o \in Operators : nodeOperatorAddedEvents[o] > 0}
Shared(S) == {a \in Addresses : Cardinality(OperatorsOf(a) \intersect S) > MaxSame}

summaryAnswered(c) ==
    LET n == c.number
        found == IF n > lastDuplicateAddressesAlertTimestamp + OneDay
                 THEN {a \in Addresses : counted(a) > MaxSame} ELSE {}
    IN  /\ c.at = "summary"
        /\ addressCounts' = [a \in Addresses |-> counted(a)]
        /\ lastDuplicateAddressesAlertTimestamp' = setWhenFound(n, found)
        /\ calls' = (calls \ {c}) \union {[at |-> "checks", number |-> n, found |-> found]}
        /\ sharedFrom' = [a \in Addresses |->
              IF a \in Shared(Recorded) /\ sharedFrom[a] = Never THEN delivered ELSE sharedFrom[a]]
        /\ UNCHANGED <<chainVars, nodeOperatorAddedEvents, delivered, txs, txCount, crashes,
                       answered, toldAt, falseAlerts>>

(* The other checks of the block are answered as well.                        *)
checksAnswered(c) ==
    /\ c.at = "checks"
    /\ answered' = c.number
    /\ toldAt' = [a \in Addresses |->
          IF a \in c.found /\ toldAt[a] < c.number THEN c.number ELSE toldAt[a]]
    /\ falseAlerts' = falseAlerts \union (c.found \ Shared(Operators))
    /\ calls' = calls \ {c}
    /\ UNCHANGED <<chainVars, serviceVars, delivered, txs, txCount, crashes, sharedFrom>>

(* A request fails; the process starts again, with a later block perhaps.     *)
(* Alerts under way are lost with it, and so are the throttle and the counts: *)
(* their addresses are found anew.                                            *)
processEnds ==
    /\ calls # {} \/ txs # {}
    /\ crashes < MaxCrashes /\ crashes' = crashes + 1
    /\ nodeOperatorAddedEvents' = eventsTo(head)
    /\ addressCounts' = [a \in Addresses |-> 0]
    /\ lastDuplicateAddressesAlertTimestamp' = Never
    /\ delivered' = head
    /\ calls' = {} /\ txs' = {}
    /\ sharedFrom' = [a \in Addresses |->
          IF \E c \in calls : a \in c.found THEN Never ELSE sharedFrom[a]]
    /\ UNCHANGED <<chainVars, txCount, answered, toldAt, falseAlerts>>

Next ==
    \/ newBlock \/ handleTransaction \/ (\E n \in txs : logsAnswered(n))
    \/ handleBlock \/ (\E c \in calls : summaryAnswered(c) \/ checksAnswered(c))
    \/ processEnds

Spec == Init /\ [][Next]_vars

-----------------------------------------------------------------------------
(* An address that more operators share than there may be, all of them        *)
(* recorded, is alerted at least once a day, in spite of blocks left out,     *)
(* calls that overlap, the one throttle of all addresses, and restarts: with  *)
(* every block that is answered, the address was alerted, or first found,     *)
(* within the last day, or the alert is under way.                            *)
SharedIsTold ==
    \A a \in Addresses :
        sharedFrom[a] # Never /\ answered > sharedFrom[a] + OneDay
            => \/ toldAt[a] + OneDay >= answered
               \/ \E c \in calls : a \in c.found /\ c.number + OneDay >= answered

(* README: "More than 3 operators have the same manager or reward address."   *)
(* An address that is alerted is one that more operators share than may.      *)
DuplicatesAreTrue == falseAlerts = {}
=============================================================================
