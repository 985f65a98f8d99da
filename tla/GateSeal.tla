------------------------------ MODULE GateSeal ------------------------------
(***************************************************************************)
(* GateSealSrv of ethereum-steth (services/gate-seal).  The service watches *)
(* one gate seal, held in gateSealAddress: a transaction that creates a new *)
(* seal replaces it, a block at which it is found expired clears it.        *)
(*                                                                          *)
(* evaluateBlock starts two tasks, handlePauseRole and handleExpiryGateSeal;*)
(* each reads gateSealAddress, asks the node, and goes on when the answer   *)
(* comes, by which time other handlers have run.  Several evaluateBlock     *)
(* calls may be open: the scan node gives up on a slow call, the bot does   *)
(* not.  A block is named by its timestamp.                                 *)
(***************************************************************************)
EXTENDS Naturals

CONSTANTS
    Seals,        \* gate seal contracts
    Default,      \* GATE_SEAL_DEFAULT_ADDRESS
    NoSeal,       \* gateSealAddress === undefined
    Calls,        \* evaluateBlock calls that may be open at once
    OneDay, TwoWeeks, ThreeMonths,  \* the service's periods, in blocks
    Epoch,        \* the block at which the bot starts
    MaxTime       \* bound: the last block

GateSealAssumption ==
    /\ Default \in Seals
    /\ NoSeal \notin Seals
    /\ {OneDay, TwoWeeks, ThreeMonths, Epoch, MaxTime} \subseteq Nat
    /\ OneDay < Epoch /\ TwoWeeks < Epoch /\ Epoch <= MaxTime

VARIABLES
    created,          \* the chain: the seals that exist
    expiry,           \* the chain: get_expiry_timestamp of every seal
    head,             \* the chain: the last block the bot was given
    newest,           \* the chain: the seal created last
    gateSealAddress,
    runner,           \* the seal ETHProvider.gateSealRunner is attached to
    lastNoPauseRoleAlertTimestamp,
    lastExpiryGateSealAlertTimestamp,
    open,             \* the tasks of every open evaluateBlock call
    initialized,
    findings,         \* history: the findings about the expiry
    raced             \* history: a seal was created while a call was open

chain == <<created, expiry, newest>>
cache == <<lastNoPauseRoleAlertTimestamp, lastExpiryGateSealAlertTimestamp>>
vars == <<chain, head, gateSealAddress, runner, cache, open, initialized,
          findings, raced>>

Time == 0..MaxTime
Idle == [ts |-> 0, seal |-> NoSeal, pause |-> FALSE, expiring |-> FALSE]
Finding == [kind : {"NoPauseRole", "Expired", "AboutToExpire"},
            seal : Seals \union {NoSeal}, ts : Time]

TypeOK ==
    /\ created \subseteq Seals
    /\ expiry \in [Seals -> Time]
    /\ head \in Time
    /\ newest \in Seals
    /\ gateSealAddress \in Seals \union {NoSeal}
    /\ runner \in Seals
    /\ lastNoPauseRoleAlertTimestamp \in Time
    /\ lastExpiryGateSealAlertTimestamp \in Time
    /\ open \in [Calls -> [ts : Time, seal : Seals \union {NoSeal},
                           pause : BOOLEAN, expiring : BOOLEAN]]
    /\ initialized \in BOOLEAN
    /\ findings \subseteq Finding
    /\ raced \in BOOLEAN

Init ==
    /\ created = {Default}
    /\ expiry \in {[s \in Seals |-> IF s = Default THEN at ELSE 0] : at \in Epoch..MaxTime}
    /\ head = Epoch
    /\ newest = Default
    /\ gateSealAddress = Default
    /\ runner = Default
    /\ lastNoPauseRoleAlertTimestamp = 0
    /\ lastExpiryGateSealAlertTimestamp = 0
    /\ open = [c \in Calls |-> Idle]
    /\ initialized = FALSE
    /\ findings = {}
    /\ raced = FALSE

Busy(c) == open[c].pause \/ open[c].expiring
found(kind, seal, ts) == {[kind |-> kind, seal |-> seal, ts |-> ts]}

(* The contract's is_expired at a block.                                      *)
isGateSealExpired(seal, ts) == expiry[seal] <= ts

-----------------------------------------------------------------------------
(* main.ts waits for initialize before the server accepts calls; a network    *)
(* error ends the process.  An expired default seal, or one without the role, *)
(* only adds a start-up finding: it stays watched.                            *)
initialize ==
    /\ ~initialized
    /\ initialized' = TRUE
    /\ runner' = gateSealAddress
    /\ UNCHANGED <<chain, head, gateSealAddress, cache, open, findings, raced>>

(* The tasks return at once when no seal is watched; a bug would go on.       *)
alwaysWatching == TRUE
isWatching == gateSealAddress # NoSeal

(* evaluateBlock: both tasks read the address at once, and checkGateSeal      *)
(* attaches the provider's runner to it before its first await.               *)
handleBlock(c) ==
    /\ initialized /\ ~Busy(c) /\ head < MaxTime
    /\ head' = head + 1
    /\ \/ ~isWatching /\ UNCHANGED <<open, runner>>
       \/ /\ isWatching
          /\ runner' = gateSealAddress
          /\ open' = [open EXCEPT ![c] = [ts |-> head + 1, seal |-> gateSealAddress,
                                          pause |-> TRUE, expiring |-> TRUE]]
    /\ UNCHANGED <<chain, gateSealAddress, cache, initialized, findings, raced>>

(* checkGateSeal has answered: a network error, expired, or the two roles.    *)
(* The first two give a finding and change nothing.  For a missing role the   *)
(* finding is built but not pushed to the result; its timestamp is kept.  A   *)
(* retried is_expired goes to the seal the runner is attached to by then.     *)
handlePauseRole(c) ==
    /\ open[c].pause
    /\ open' = [open EXCEPT ![c].pause = FALSE]
    /\ \/ UNCHANGED lastNoPauseRoleAlertTimestamp
       \/ LET ts == open[c].ts
          IN  /\ \E asked \in {open[c].seal, runner} : ~isGateSealExpired(asked, ts)
              /\ lastNoPauseRoleAlertTimestamp' =
                    IF ts > lastNoPauseRoleAlertTimestamp + OneDay
                    THEN ts ELSE lastNoPauseRoleAlertTimestamp
    /\ UNCHANGED <<chain, head, gateSealAddress, runner, lastExpiryGateSealAlertTimestamp,
                   initialized, findings, raced>>

(* A seal that is not expired and expires within three months is announced,   *)
(* at most every two weeks.                                                   *)
aboutToExpire(ts, at) ==
    /\ ts > lastExpiryGateSealAlertTimestamp + TwoWeeks
    /\ ts + ThreeMonths >= at

(* An expired seal is reported and no longer watched.                         *)
expired(ts) ==
    /\ findings' = findings \union found("Expired", gateSealAddress, ts)
    /\ gateSealAddress' = NoSeal
    /\ UNCHANGED cache

(* getExpiryTimestamp has answered.  A retried request goes to the seal the   *)
(* runner is attached to by then.                                             *)
handleExpiryGateSeal(c) ==
    /\ open[c].expiring
    /\ open' = [open EXCEPT ![c].expiring = FALSE]
    /\ LET ts == open[c].ts
       IN  \/ UNCHANGED <<findings, cache, gateSealAddress>>
           \/ \E asked \in {open[c].seal, runner} :
                LET at == expiry[asked]
                IN  \/ at <= ts /\ expired(ts)
                    \/ /\ at > ts /\ aboutToExpire(ts, at)
                       /\ findings' = findings \union found("AboutToExpire", gateSealAddress, ts)
                       /\ lastExpiryGateSealAlertTimestamp' = ts
                       /\ UNCHANGED <<gateSealAddress, lastNoPauseRoleAlertTimestamp>>
                    \/ /\ at > ts /\ ~aboutToExpire(ts, at)
                       /\ UNCHANGED <<findings, cache, gateSealAddress>>
    /\ UNCHANGED <<chain, head, runner, initialized, raced>>

(* evaluateTx is synchronous here.  A Sealed event of the watched seal is     *)
(* reported without any change of state; GateSealCreated switches the watch.  *)
keepsWatchedSeal(seal) == IF gateSealAddress = NoSeal THEN seal ELSE gateSealAddress
watches(seal) == seal

handleNewGateSeal(seal, at) ==
    /\ initialized
    /\ created' = created \union {seal}
    /\ expiry' = [expiry EXCEPT ![seal] = at]
    /\ newest' = seal
    /\ gateSealAddress' = watches(seal)
    /\ raced' = (raced \/ \E c \in Calls : Busy(c))
    /\ UNCHANGED <<head, runner, cache, open, initialized, findings>>

Next ==
    \/ initialize
    \/ \E c \in Calls : handleBlock(c) \/ handlePauseRole(c) \/ handleExpiryGateSeal(c)
    \/ \E seal \in Seals \ created, at \in head..MaxTime : handleNewGateSeal(seal, at)

Spec == Init /\ [][Next]_vars

-----------------------------------------------------------------------------
(* As long as no seal is created while a block is being evaluated, the bot    *)
(* watches the newest seal, or none once that one has expired: overlapping    *)
(* block calls, failed requests and retries cannot make it lose the seal.     *)
WatchesNewest ==
    ~raced => \/ gateSealAddress = newest
              \/ gateSealAddress = NoSeal /\ isGateSealExpired(newest, head)

(* README: "GateSeal: is expired!".  The alert names a seal that has expired. *)
ExpiredAlertIsTrue ==
    \A f \in findings :
        f.kind = "Expired" /\ f.seal # NoSeal => isGateSealExpired(f.seal, f.ts)
=============================================================================
