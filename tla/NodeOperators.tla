---------------------------- MODULE NodeOperators ----------------------------
(***************************************************************************)
(* The NodeOperatorsV2 sub-agent of lido-on-polygon                         *)
(* (agent-node-operators-v2.ts) under the runner of agent.ts.  A block      *)
(* starts three checks at once: the statistics of the registry, the owners  *)
(* of the operators' NFTs, and the active set, of which the sub-agent tells *)
(* news.  When a check fails, the findings of the call are dropped and the  *)
(* runner calls again, while the other checks go on.  After 120 s the block *)
(* is answered without the sub-agent, whose run goes on: it still notes     *)
(* what it finds, and calls again when a check fails, for nobody to see.    *)
(*                                                                          *)
(* The request for an owner is not awaited: its answer may come when the    *)
(* block has long been answered, and a failure is a rejection nobody        *)
(* handles.  With that the process ends (Node 16), unless its host listens  *)
(* for such rejections: both may happen here.  It starts again with nothing *)
(* noted; findings of then are lost.                                        *)
(***************************************************************************)
EXTENDS Naturals, FiniteSets

CONSTANTS
    Validators,        \* LIDO_VALIDATORS_IDS
    Operators,         \* getValidatorIds
    Window,            \* both REPORT_WINDOW_...
    BlocksPerDay,      \* every day at noon, what is still inactive is told again
    maxHandlerRetries,
    Epoch,             \* the time at which the bot starts
    Stats,             \* bound: what the registry's statistics give reason to say
    Wrong,             \* bound: the sets of operators whose NFTs may have another owner
    MaxTime,           \* bound: the last block
    MaxOrphans         \* bound: requests under way when a block comes or a call fails

NodeOperatorsAssumption ==
    /\ {Window, BlocksPerDay, maxHandlerRetries, Epoch, MaxTime, MaxOrphans} \subseteq Nat
    /\ BlocksPerDay > 0 /\ maxHandlerRetries > 0 /\ Window < Epoch /\ Epoch <= MaxTime
    /\ Stats \subseteq SUBSET {"none active", "bad state"} /\ Wrong \subseteq SUBSET Operators

VARIABLES
    now,               \* the last block the scan node has sent, by its timestamp
    chain,             \* what the node answers about every block
    status,            \* of the runner's answer for this block
    retries,           \* the attempts that remain of every block's run
    found,             \* the findings of the current call
    pending,           \* the requests and checks that wait for the node
    lidoValidatorGoesInactiveReport,
    lastReported,      \* lastReportedBadOperatorsState, lastReportedBadNftOwner
    news,              \* history: the news of a validator that was answered last
    untold             \* history: validators with later news in dropped findings,
                       \* or told of by a process that has ended

vars == <<now, chain, status, retries, found, pending, lidoValidatorGoesInactiveReport,
          lastReported, news, untold>>

Checks == {"stats", "nfts", "active"}
Blocks == Epoch..MaxTime

(* A finding: what it is about, and what it says.                             *)
Findings == ({"stats"} \X {"none active", "bad state"})
            \union (Operators \X {"bad owner"}) \union (Validators \X {"gone", "back"})
toldOf(said) == {v \in Validators : <<v, "gone">> \in said \/ <<v, "back">> \in said}

(* Who asks for what, and what the node says: of the registry, of the         *)
(* operators whose NFT has another owner, of the validators that are not in   *)
(* the active set.  live: the run of its block still waits for it, in that    *)
(* its call has not failed.                                                   *)
Request == [kind : Checks \union {"info", "owner"}, of : Operators \union {"all"},
            live : BOOLEAN, block : Blocks,
            says : SUBSET ({"none active", "bad state"} \union Operators \union Validators)]

Chain == [stats : Stats, nfts : Wrong,
          active : SUBSET Validators]

TypeOK ==
    /\ now \in Blocks
    /\ chain \in [Blocks -> [stats : SUBSET {"none active", "bad state"},
                            nfts : SUBSET Operators, active : SUBSET Validators]]
    /\ status \in {"none", "running", "answered", "errored"}
    /\ retries \in [Blocks -> 0..maxHandlerRetries]
    /\ found \subseteq Findings
    /\ pending \subseteq Request
    /\ lidoValidatorGoesInactiveReport \subseteq Validators
    /\ lastReported \in [{"stats", "nfts"} -> 0..MaxTime]
    /\ news \in [Validators -> {"none", "gone", "back"}]
    /\ untold \subseteq Validators

Init ==
    /\ now = Epoch
    /\ chain = [b \in Blocks |-> [stats |-> {}, nfts |-> {}, active |-> {}]]
    /\ status = "none"
    /\ retries = [b \in Blocks |-> 0]
    /\ found = {} /\ pending = {}
    /\ lidoValidatorGoesInactiveReport = {}
    /\ lastReported = [k \in {"stats", "nfts"} |-> 0]
    /\ news = [v \in Validators |-> "none"]
    /\ untold = {}

-----------------------------------------------------------------------------
throttled(k, b) == lastReported[k] + Window >= b

(* The block of a run that is answered with what the run finds.               *)
current(b) == b = now /\ status = "running"

(* The checks of a call that has failed go on.                                *)
orphaned(b, requests) == {IF p.block = b THEN [p EXCEPT !.live = FALSE] ELSE p : p \in requests}

(* What a call of the sub-agent's handleBlock asks for.                       *)
calls(b, at) ==
    {[kind |-> k, of |-> "all", live |-> TRUE, block |-> b, says |-> at[k]] :
        k \in {c \in Checks : c = "nfts" => ~throttled("nfts", b)}}

(* The next block, with what the chain holds at it.                           *)
handleBlock ==
    /\ now < MaxTime /\ status # "running"
    /\ Cardinality(pending) <= MaxOrphans
    /\ now' = now + 1
    /\ status' = "running"
    /\ retries' = [retries EXCEPT ![now + 1] = maxHandlerRetries - 1]
    /\ \E at \in Chain : /\ chain' = [chain EXCEPT ![now + 1] = at]
                         /\ pending' = pending \union calls(now + 1, at)
    /\ found' = {}
    /\ UNCHANGED <<lidoValidatorGoesInactiveReport, lastReported, news, untold>>

(* The findings a call that is waited for brings; others are never seen.      *)
seen(p) == p.live /\ current(p.block)
finds(p, said) == found' = IF seen(p) THEN found \union said ELSE found

statsAnswered(p) ==
    LET told == {x \in p.says : x = "bad state" => ~throttled("stats", p.block)}
    IN  /\ p.kind = "stats"
        /\ pending' = pending \ {p}
        /\ finds(p, {"stats"} \X told)
        /\ lastReported' = [lastReported EXCEPT
               !["stats"] = IF "bad state" \in told THEN p.block ELSE @]
        /\ UNCHANGED <<now, chain, status, retries, lidoValidatorGoesInactiveReport, news,
                       untold>>

(* getValidatorIds: the operators are asked for one by one.                   *)
idsAnswered(p) ==
    /\ p.kind = "nfts"
    /\ pending' = (pending \ {p}) \union
           {[p EXCEPT !.kind = "info", !.of = o, !.says = @ \intersect {o}] : o \in Operators}
    /\ UNCHANGED <<now, chain, status, retries, found, lidoValidatorGoesInactiveReport,
                   lastReported, news, untold>>

(* getNodeOperator: the request for the owner is sent and not awaited.        *)
infoAnswered(p) ==
    /\ p.kind = "info"
    /\ pending' = (pending \ {p}) \union {[p EXCEPT !.kind = "owner"]}
    /\ UNCHANGED <<now, chain, status, retries, found, lidoValidatorGoesInactiveReport,
                   lastReported, news, untold>>

ownerAnswered(p) ==
    /\ p.kind = "owner"
    /\ pending' = pending \ {p}
    /\ finds(p, p.says \X {"bad owner"})
    /\ lastReported' = [lastReported EXCEPT !["nfts"] = IF p.says = {} THEN @ ELSE p.block]
    /\ UNCHANGED <<now, chain, status, retries, lidoValidatorGoesInactiveReport, news, untold>>

-----------------------------------------------------------------------------
(* What is inactive is told the first time, and every day.                    *)
mayFire(v, b) == v \notin lidoValidatorGoesInactiveReport \/ b % BlocksPerDay = 0

(* delete(r.vId) && r: a validator that was told of and is active again is    *)
(* forgotten.  A bug would only look it up.                                   *)
keepsReported(inactive) == lidoValidatorGoesInactiveReport \union inactive
popFromReported(inactive) == inactive

activeSetAnswered(p) ==
    LET gone == {v \in p.says : mayFire(v, p.block)}
        back == lidoValidatorGoesInactiveReport \ p.says
    IN  /\ p.kind = "active"
        /\ pending' = pending \ {p}
        /\ finds(p, (gone \X {"gone"}) \union (back \X {"back"}))
        /\ lidoValidatorGoesInactiveReport' = popFromReported(p.says)
        /\ untold' = IF seen(p) THEN untold \ (gone \union back)
                     ELSE untold \union gone \union back
        /\ UNCHANGED <<now, chain, status, retries, lastReported, news>>

(* A request fails, and with it the call that waits for it: the run calls     *)
(* again, or the block is answered with the error.                            *)
requestFails(p) ==
    LET b == p.block
        rest == orphaned(b, pending \ {p})
    IN  /\ p.kind # "owner"
        /\ \/ /\ p.live /\ retries[b] > 0
              /\ Cardinality(pending) - 1 <= MaxOrphans
              /\ retries' = [retries EXCEPT ![b] = @ - 1]
              /\ pending' = rest \union calls(b, chain[b])
              /\ UNCHANGED status
           \/ /\ p.live /\ retries[b] = 0
              /\ status' = IF current(b) THEN "errored" ELSE status
              /\ pending' = rest
              /\ UNCHANGED retries
           \/ /\ ~p.live
              /\ pending' = pending \ {p}
              /\ UNCHANGED <<status, retries>>
        /\ found' = IF seen(p) THEN {} ELSE found
        /\ untold' = IF seen(p) THEN untold \union toldOf(found) ELSE untold
        /\ UNCHANGED <<now, chain, lidoValidatorGoesInactiveReport, lastReported, news>>

(* The request for an owner fails: where nothing handles the rejection, the   *)
(* process ends and starts again, and what it had noted is gone.              *)
ownerFails(p) ==
    /\ p.kind = "owner"
    /\ \/ /\ pending' = pending \ {p}
          /\ UNCHANGED <<status, retries, found, lidoValidatorGoesInactiveReport, lastReported,
                         untold>>
       \/ /\ pending' = {} /\ found' = {}
          /\ status' = "none"
          /\ retries' = [b \in Blocks |-> 0]
          /\ lidoValidatorGoesInactiveReport' = {}
          /\ lastReported' = [k \in {"stats", "nfts"} |-> 0]
          /\ untold' = untold \union lidoValidatorGoesInactiveReport \union toldOf(found)
    /\ UNCHANGED <<now, chain, news>>

(* The checks are done, and the findings the block is answered with are those *)
(* that have come by now: not the owners' that come later.                    *)
callReturns ==
    /\ status = "running"
    /\ \A p \in pending : seen(p) => p.kind = "owner"
    /\ status' = "answered"
    /\ news' = [v \in Validators |-> IF <<v, "gone">> \in found THEN "gone"
                                    ELSE IF <<v, "back">> \in found THEN "back" ELSE news[v]]
    /\ found' = {}
    /\ UNCHANGED <<now, chain, retries, pending, lidoValidatorGoesInactiveReport, lastReported,
                   untold>>

(* The run is not waited for any longer; its findings will not be seen.       *)
timeout ==
    /\ status = "running"
    /\ status' = "errored"
    /\ found' = {}
    /\ untold' = untold \union toldOf(found)
    /\ UNCHANGED <<now, chain, retries, pending, lidoValidatorGoesInactiveReport, lastReported,
                   news>>

Next ==
    \/ handleBlock \/ callReturns \/ timeout
    \/ \E p \in pending : \/ statsAnswered(p) \/ idsAnswered(p) \/ infoAnswered(p)
                          \/ ownerAnswered(p) \/ activeSetAnswered(p)
                          \/ requestFails(p) \/ ownerFails(p)

Spec == Init /\ [][Next]_vars

-----------------------------------------------------------------------------
(* Once a block is answered, the news that was sent last of a validator says  *)
(* whether it is in the active set: unless later news was lost in findings of *)
(* a call that failed or took too long, or the process that told of it ended. *)
NewsIsTrue ==
    status = "answered" =>
        \A v \in Validators \ untold : news[v] = "gone" <=> v \in chain[now].active
=============================================================================
