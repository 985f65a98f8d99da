--------------------------- MODULE StethHandlers ---------------------------
(***************************************************************************)
(* How findings travel through ethereum-steth: main.ts, InitHandler and     *)
(* BlockHandler (handlers/*.ts).                                            *)
(*                                                                          *)
(* main creates one array of start-up findings, fills it with the gate      *)
(* seal's, and hands it to both handlers.  InitHandler pushes the "launched"*)
(* finding to it; BlockHandler empties it by putting a new array in its own *)
(* field, after which the two handlers no longer hold the same array.       *)
(*                                                                          *)
(* A call of evaluateBlock is cut at its awaits: the latest block, the      *)
(* services, the statistics.  The scan node (external) initializes the bot, *)
(* again if that failed, and then keeps up to Calls blocks open.            *)
(*                                                                          *)
(* Most errors of the node come back as values and end up as findings.  An  *)
(* error that is thrown, as getUnbufferedEvents does, rejects Promise.all;  *)
(* nothing catches that, and Node ends the process: no open call is         *)
(* answered, and main begins again with empty arrays.                       *)
(***************************************************************************)
EXTENDS Naturals, FiniteSets

CONSTANTS
    Services,   \* the services BlockHandler runs for a block
    Returned,   \* the services whose results it takes out of Promise.all
    Calls,      \* evaluateBlock calls that may be open at once
    MaxBlocks,  \* bound: blocks evaluated
    MaxInits,   \* bound: initialize calls of one life
    MaxLives    \* bound: lives of the process

HandlersAssumption ==
    /\ Returned \subseteq Services
    /\ {"launched", "sealWarning", "outdated"} \intersect Services = {}
    /\ {MaxBlocks, MaxInits, MaxLives} \subseteq Nat /\ MaxLives > 0

VARIABLES
    life,       \* how many times the process has been started
    bound,      \* main has bound the server
    onAppFindings,       \* main's array, held by InitHandler for ever
    onAppStartFindings,  \* BlockHandler's own array once it has replaced main's
    shared,     \* BlockHandler still holds main's array
    init,       \* the initialize call: what it awaits, or how it ended
    inits,      \* initialize calls so far in this life
    blocks,     \* evaluateBlock calls so far
    call,       \* the open evaluateBlock calls
    computed,   \* history: the findings the services returned
    answered,   \* history: the findings reported for every block
    done        \* history: the blocks answered

arrays == <<onAppFindings, onAppStartFindings, shared>>
starting == <<init, inits>>
history == <<computed, answered, done>>
vars == <<life, bound, arrays, starting, blocks, call, history>>

(* A finding is its author and the block it is about, or the life it starts.  *)
Launched(n) == <<"launched", n>>
SealWarning(n) == <<"sealWarning", n>>
StartFinding == {"launched", "sealWarning"} \X (1..MaxLives)
ServiceFinding == Services \X (1..MaxBlocks)
Finding == StartFinding \union ({"outdated"} \X (1..MaxBlocks)) \union ServiceFinding
Closed == [at |-> "closed", block |-> 0, findings |-> {}, results |-> {}]

TypeOK ==
    /\ life \in 1..MaxLives /\ bound \in BOOLEAN /\ shared \in BOOLEAN
    /\ onAppFindings \subseteq StartFinding
    /\ onAppStartFindings \subseteq StartFinding
    /\ init \in {"none", "withdrawals", "poolBalance", "error", "success"}
    /\ inits \in 0..MaxInits
    /\ blocks \in 0..MaxBlocks
    /\ call \in [Calls -> [at : {"closed", "latest", "services", "statistics"},
                           block : 0..MaxBlocks,
                           findings : SUBSET Finding, results : SUBSET Finding]]
    /\ computed \subseteq ServiceFinding
    /\ answered \in [1..MaxBlocks -> SUBSET Finding]
    /\ done \subseteq 1..MaxBlocks

Init ==
    /\ life = 1 /\ bound = FALSE /\ shared = TRUE
    /\ onAppFindings = {}
    /\ onAppStartFindings = {}
    /\ init = "none" /\ inits = 0
    /\ blocks = 0
    /\ call = [c \in Calls |-> Closed]
    /\ computed = {}
    /\ answered = [b \in 1..MaxBlocks |-> {}]
    /\ done = {}

-----------------------------------------------------------------------------
(* main: initialize the gate seal service, keep its findings, bind the server *)
main ==
    /\ ~bound
    /\ bound' = TRUE
    /\ onAppFindings' \in {{}, {SealWarning(life)}}
    /\ UNCHANGED <<life, onAppStartFindings, shared, starting, blocks, call, history>>

handleInit ==
    /\ bound /\ init \in {"none", "error"} /\ inits < MaxInits
    /\ init' = "withdrawals" /\ inits' = inits + 1
    /\ UNCHANGED <<life, bound, arrays, blocks, call, history>>

withdrawalsInitialized ==
    /\ init = "withdrawals"
    /\ init' \in {"poolBalance", "error"}
    /\ UNCHANGED <<life, bound, arrays, inits, blocks, call, history>>

(* this.onAppStartFindings.push(f) of InitHandler, to main's array.           *)
poolBalanceInitialized ==
    /\ init = "poolBalance"
    /\ \/ init' = "error" /\ UNCHANGED onAppFindings
       \/ init' = "success" /\ onAppFindings' = onAppFindings \union {Launched(life)}
    /\ UNCHANGED <<life, bound, onAppStartFindings, shared, inits, blocks, call, history>>

handleBlock(c) ==
    /\ init = "success" /\ call[c] = Closed /\ blocks < MaxBlocks
    /\ blocks' = blocks + 1
    /\ call' = [call EXCEPT ![c] = [Closed EXCEPT !.at = "latest", !.block = blocks + 1]]
    /\ UNCHANGED <<life, bound, arrays, starting, history>>

held == IF shared THEN onAppFindings ELSE onAppStartFindings

(* The start-up findings are taken and the array replaced, in one go.  A bug  *)
(* would take them without replacing it.                                      *)
takesOnly == UNCHANGED <<onAppStartFindings, shared>>
replaces ==
    IF held = {} THEN UNCHANGED <<onAppStartFindings, shared>>
    ELSE onAppStartFindings' = {} /\ shared' = FALSE

(* The latest block, or an error, has come: the outdated check, the start-up  *)
(* findings, and the start of all services.                                   *)
latestBlockAnswered(c) ==
    /\ call[c].at = "latest"
    /\ replaces
    /\ \E outdated \in {{}, {<<"outdated", call[c].block>>}} :
          call' = [call EXCEPT ![c].at = "services", ![c].findings = outdated \union held]
    /\ UNCHANGED <<life, bound, onAppFindings, starting, blocks, history>>

(* Promise.all of the services; the destructuring keeps those in Returned.  A *)
(* bug would attribute them to the next block.                                *)
ofNextBlock(results) == {<<r[1], r[2] + 1>> : r \in results}
kept(results) == {r \in results : r[1] \in Returned}

servicesDone(c) ==
    /\ call[c].at = "services"
    /\ \E reporting \in SUBSET Services :
          LET results == reporting \X {call[c].block}
          IN  /\ computed' = computed \union results
              /\ call' = [call EXCEPT ![c].at = "statistics", ![c].results = kept(results)]
    /\ UNCHANGED <<life, bound, arrays, starting, blocks, answered, done>>

(* A service has thrown: the process ends with all its calls, and is started  *)
(* again.                                                                     *)
servicesReject(c) ==
    /\ call[c].at = "services" /\ life < MaxLives
    /\ life' = life + 1
    /\ bound' = FALSE /\ shared' = TRUE
    /\ onAppFindings' = {} /\ onAppStartFindings' = {}
    /\ init' = "none" /\ inits' = 0
    /\ call' = [d \in Calls |-> Closed]
    /\ UNCHANGED <<blocks, history>>

(* The statistics line is only logged.  The findings are put together (a bug  *)
(* would leave out the early ones) and the call is answered.                  *)
onlyResults(c) == call[c].results
blockResponse(c) == call[c].findings \union call[c].results

respond(c) ==
    /\ call[c].at = "statistics"
    /\ answered' = [answered EXCEPT ![call[c].block] = blockResponse(c)]
    /\ done' = done \union {call[c].block}
    /\ call' = [call EXCEPT ![c] = Closed]
    /\ UNCHANGED <<life, bound, arrays, starting, blocks, computed>>

Next ==
    \/ main \/ handleInit \/ withdrawalsInitialized \/ poolBalanceInitialized
    \/ \E c \in Calls :
          \/ handleBlock(c) \/ latestBlockAnswered(c) \/ servicesDone(c) \/ servicesReject(c)
          \/ respond(c)

Spec == Init /\ [][Next]_vars

(* The node's RPC calls return or throw, and handlers run to their end.       *)
startGoesOn == main \/ withdrawalsInitialized \/ poolBalanceInitialized
callGoesOn(c) == latestBlockAnswered(c) \/ servicesDone(c) \/ servicesReject(c) \/ respond(c)

FairSpec == Spec /\ WF_vars(startGoesOn) /\ \A c \in Calls : WF_vars(callGoesOn(c))

-----------------------------------------------------------------------------
(* A start-up finding of a life of the process is reported for one block      *)
(* only, however many block calls are open when it is taken and wherever the  *)
(* process ends.                                                              *)
StartFindingsOnce ==
    \A b1, b2 \in 1..MaxBlocks :
        b1 # b2 => answered[b1] \intersect answered[b2] \intersect StartFinding = {}

(* Once a call has come for a block, the launch of this life of the process   *)
(* is reported, with whichever block took it, unless a service throws before  *)
(* and ends that life.                                                        *)
LaunchIsReported ==
    \A n \in 1..MaxLives :
        (life = n /\ \E c \in Calls : call[c].at = "latest")
            ~> (life > n \/ \E b \in 1..MaxBlocks : Launched(n) \in answered[b])

(* README, sections 2 to 8: what any of the services finds is alerted.        *)
ServiceFindingsAreDelivered ==
    \A f \in computed : f[2] \in done => f \in answered[f[2]]
=============================================================================
