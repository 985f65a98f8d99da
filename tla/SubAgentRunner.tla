--------------------------- MODULE SubAgentRunner ---------------------------
(***************************************************************************)
(* agent.ts of lido-on-polygon, which arb-subgraph, ethereum-huge-tx,       *)
(* ethereum-validators-set, l2-bridge-ethereum, multisig-watcher,           *)
(* phishing-detect, polygon and voting-watcher share up to the list of      *)
(* sub-agents, the length of the timeout and the merging of long answers.   *)
(*                                                                          *)
(* Every block and every transaction is handed to all sub-agents at once.   *)
(* A run retries a handler that throws and races against a timer; the event *)
(* is answered when every race is settled.  Losing the race does not stop   *)
(* the run.  What a sub-agent does is left open here: its handler returns   *)
(* with or without findings, throws, or hangs.                              *)
(***************************************************************************)
EXTENDS Naturals, FiniteSets

CONSTANTS
    Agents,            \* subAgents
    Blocks, Txs,       \* the events the scan node may send, in any order
    maxHandlerRetries,
    MaxEvents          \* bound: how many of them it sends

ASSUME RunnerAssumption ==
    /\ Blocks \intersect Txs = {}
    /\ maxHandlerRetries \in Nat \ {0}
    /\ MaxEvents \in Nat

Events == Blocks \union Txs

VARIABLES
    initialized,
    findingsOnInit,   \* whether the "Agent launched" finding is waiting
    event,            \* what happened to every event
    run,              \* the run of every sub-agent for every event
    findings,         \* blockFindings or txFindings of every event
    answer            \* history: the findings every event was answered with

vars == <<initialized, findingsOnInit, event, run, findings, answer>>

(* left: the attempts that remain; at: what became of the handler; race: what *)
(* settled Promise.race.                                                      *)
NotRun == [left |-> 0, at |-> "none", race |-> "open"]
NoFindings == [launched |-> FALSE, found |-> {}, error |-> {}, timedOut |-> {}]

Run == [left : 0..maxHandlerRetries,
        at : {"none", "running", "found", "nothing", "failed"},
        race : {"open", "run", "timeout"}]
Findings == [launched : BOOLEAN, found : SUBSET Agents, error : SUBSET Agents,
             timedOut : SUBSET Agents]

TypeOK ==
    /\ initialized \in BOOLEAN /\ findingsOnInit \in BOOLEAN
    /\ event \in [Events -> {"unseen", "open", "answered"}]
    /\ run \in [Events -> [Agents -> Run]]
    /\ findings \in [Events -> Findings]
    /\ answer \in [Events -> Findings]

Init ==
    /\ initialized = FALSE /\ findingsOnInit = FALSE
    /\ event = [e \in Events |-> "unseen"]
    /\ run = [e \in Events |-> [a \in Agents |-> NotRun]]
    /\ findings = [e \in Events |-> NoFindings]
    /\ answer = [e \in Events |-> NoFindings]

-----------------------------------------------------------------------------
(* All sub-agents are initialized; a failure ends the process.                *)
initialize ==
    /\ ~initialized
    /\ initialized' = TRUE
    /\ findingsOnInit' = TRUE
    /\ UNCHANGED <<event, run, findings, answer>>

(* The scan node sends an event once, and not before initialize is done.      *)
isSent(e) ==
    /\ initialized /\ event[e] = "unseen"
    /\ Cardinality({f \in Events : event[f] # "unseen"}) < MaxEvents

(* Every sub-agent's handler is called at once, and its timer started.        *)
started == [a \in Agents |->
               [left |-> maxHandlerRetries - 1, at |-> "running", race |-> "open"]]

(* The launch finding goes to the block that comes first.  A bug would not    *)
(* remove it.                                                                 *)
keepsOnInit == UNCHANGED findingsOnInit
clearsOnInit == findingsOnInit' = FALSE

handleBlock(b) ==
    /\ isSent(b)
    /\ event' = [event EXCEPT ![b] = "open"]
    /\ run' = [run EXCEPT ![b] = started]
    /\ findings' = [findings EXCEPT ![b].launched = findingsOnInit]
    /\ clearsOnInit
    /\ UNCHANGED <<initialized, answer>>

handleTransaction(t) ==
    /\ isSent(t)
    /\ event' = [event EXCEPT ![t] = "open"]
    /\ run' = [run EXCEPT ![t] = started]
    /\ UNCHANGED <<initialized, findingsOnInit, findings, answer>>

Running(e, a) == run[e][a].at = "running"

(* The run is over: it wins the race unless the timer has won it.             *)
ended(r, at) ==
    [left |-> 0, at |-> at, race |-> IF r.race = "open" THEN "run" ELSE r.race]

handlerReturns(e, a) ==
    /\ Running(e, a)
    /\ \/ /\ run' = [run EXCEPT ![e][a] = ended(run[e][a], "found")]
          /\ findings' = [findings EXCEPT ![e].found = findings[e].found \union {a}]
       \/ /\ run' = [run EXCEPT ![e][a] = ended(run[e][a], "nothing")]
          /\ UNCHANGED findings
    /\ UNCHANGED <<initialized, findingsOnInit, event, answer>>

(* retries-- > 0; a bug would count one attempt too many.                     *)
neverExhausted(r) == r.left + 1 = 0
exhausted(r) == r.left = 0

(* blockFindings.push(errorToFinding(...)) once no attempt is left; a bug     *)
(* would give up without a word.                                              *)
givesUpSilently(e, a) == findings
givesUp(e, a) == [findings EXCEPT ![e].error = findings[e].error \union {a}]

handlerThrows(e, a) ==
    /\ Running(e, a)
    /\ \/ /\ ~exhausted(run[e][a])
          /\ run' = [run EXCEPT ![e][a] = [run[e][a] EXCEPT !.left = run[e][a].left - 1]]
          /\ UNCHANGED findings
       \/ /\ exhausted(run[e][a])
          /\ run' = [run EXCEPT ![e][a] = ended(run[e][a], "failed")]
          /\ findings' = givesUp(e, a)
    /\ UNCHANGED <<initialized, findingsOnInit, event, answer>>

(* The timer of a run is running from its start; a bug would look at the time *)
(* only between two attempts.                                                 *)
betweenAttempts(r) == r.race = "open" /\ r.left < maxHandlerRetries - 1
timerRuns(r) == r.race = "open"

timeout(e, a) ==
    /\ event[e] = "open" /\ timerRuns(run[e][a])
    /\ run' = [run EXCEPT ![e][a] = [run[e][a] EXCEPT !.race = "timeout"]]
    /\ UNCHANGED <<initialized, findingsOnInit, event, findings, answer>>

(* Promise.allSettled: every race is settled, those lost are reported.        *)
respond(e) ==
    /\ event[e] = "open"
    /\ \A a \in Agents : run[e][a].race # "open"
    /\ event' = [event EXCEPT ![e] = "answered"]
    /\ LET all == [findings[e] EXCEPT !.timedOut = {a \in Agents : run[e][a].race = "timeout"}]
       IN  /\ findings' = [findings EXCEPT ![e] = all]
           /\ answer' = [answer EXCEPT ![e] = all]
    /\ UNCHANGED <<initialized, findingsOnInit, run>>

Next ==
    \/ initialize
    \/ \E b \in Blocks : handleBlock(b)
    \/ \E t \in Txs : handleTransaction(t)
    \/ \E e \in Events : respond(e)
    \/ \E e \in Events, a \in Agents :
          handlerReturns(e, a) \/ handlerThrows(e, a) \/ timeout(e, a)

Spec == Init /\ [][Next]_vars

(* Timers fire and promises that are settled continue; handlers may hang.     *)
FairSpec == Spec /\ \A e \in Events :
                        /\ WF_vars(respond(e))
                        /\ \A a \in Agents : WF_vars(timeout(e, a))

-----------------------------------------------------------------------------
(* The launch is reported with one block only, and not lost before it is: it  *)
(* waits, is in an open event, or is in an answer.                            *)
LaunchReportedOnce ==
    \A e1, e2 \in Events : answer[e1].launched /\ answer[e2].launched => e1 = e2
LaunchKept ==
    initialized => findingsOnInit \/ \E e \in Events : findings[e].launched

(* No sub-agent fails silently: an answer tells of every sub-agent what it    *)
(* found in time, that it gave up, or that it timed out.                      *)
EveryAgentAnswers ==
    \A e \in Events : event[e] = "answered" => \A a \in Agents :
        \/ a \in answer[e].timedOut
        \/ run[e][a].at = "found" /\ a \in answer[e].found
        \/ run[e][a].at = "failed" /\ a \in answer[e].error
        \/ run[e][a].at = "nothing"

(* Every event is answered, even if some handler hangs for ever.              *)
EveryEventAnswered == \A e \in Events : event[e] = "open" ~> event[e] = "answered"
=============================================================================
