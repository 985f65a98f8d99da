------------------------ MODULE SubAgentRunner_proofs ------------------------
(***************************************************************************)
(* The proof that the runner reports the launch with exactly one block and  *)
(* that no sub-agent fails silently, for any sub-agents, events and number  *)
(* of attempts.  LaunchIsSomewhere follows the launch finding; RaceIsTrue   *)
(* says what a settled race tells of its run, and AnswerIsTrue that the     *)
(* answer has kept it, whatever the runs that lost their race do later.     *)
(***************************************************************************)
EXTENDS SubAgentRunner, TLAPS

LaunchIsSomewhere ==
    /\ findingsOnInit => initialized /\ \A e \in Events : ~findings[e].launched
    /\ initialized => findingsOnInit \/ \E e \in Events : findings[e].launched
    /\ \A e \in Events : findings[e].launched => event[e] # "unseen" /\ initialized
    /\ \A e \in Events : answer[e].launched => findings[e].launched
    /\ \A e1, e2 \in Events : findings[e1].launched /\ findings[e2].launched => e1 = e2

(* What an agent has told in the findings f of an event.                      *)
HasTold(r, a, f) ==
    \/ r.at = "found" /\ a \in f.found
    \/ r.at = "failed" /\ a \in f.error
    \/ r.at = "nothing"

RaceIsTrue ==
    \A e \in Events, a \in Agents :
        run[e][a].race = "run" => HasTold(run[e][a], a, findings[e])

AnswerIsTrue ==
    \A e \in Events, a \in Agents : event[e] = "answered" =>
        /\ run[e][a].race # "open"
        /\ run[e][a].race = "timeout" => a \in answer[e].timedOut
        /\ run[e][a].race = "run" => HasTold(run[e][a], a, answer[e])

IInv == TypeOK /\ LaunchIsSomewhere /\ RaceIsTrue /\ AnswerIsTrue

-----------------------------------------------------------------------------
LEMMA InitIInv == Init => IInv
<1> SUFFICES ASSUME Init PROVE IInv
    OBVIOUS
<1>1. NotRun \in Run /\ NoFindings \in Findings
    BY RunnerAssumption DEF NotRun, NoFindings, Run, Findings
<1>2. TypeOK
    BY <1>1 DEF Init, TypeOK
<1>3. LaunchIsSomewhere
    BY DEF Init, LaunchIsSomewhere, NoFindings
<1>4. RaceIsTrue /\ AnswerIsTrue
    BY DEF Init, RaceIsTrue, AnswerIsTrue, NotRun
<1> QED BY <1>2, <1>3, <1>4 DEF IInv

LEMMA InitializeIInv == IInv /\ initialize => IInv'
<1> SUFFICES ASSUME IInv, initialize PROVE IInv'
    OBVIOUS
<1> USE DEF IInv
<1>1. TypeOK' /\ RaceIsTrue' /\ AnswerIsTrue'
    BY DEF initialize, TypeOK, RaceIsTrue, AnswerIsTrue
<1>2. LaunchIsSomewhere'
    BY DEF initialize, LaunchIsSomewhere
<1> QED BY <1>1, <1>2

(* All runs of an event that begins are open.                                 *)
LEMMA StartedRuns ==
    /\ started \in [Agents -> Run]
    /\ \A a \in Agents : started[a].race = "open"
BY RunnerAssumption DEF started, Run

LEMMA HandleBlockIInv ==
    ASSUME IInv, NEW b \in Blocks, handleBlock(b)
    PROVE  IInv'
<1> USE DEF IInv
<1>1. /\ initialized /\ event[b] = "unseen" /\ b \in Events
      /\ event' = [event EXCEPT ![b] = "open"]
      /\ run' = [run EXCEPT ![b] = started]
      /\ findings' = [findings EXCEPT ![b].launched = findingsOnInit]
      /\ findingsOnInit' = FALSE
      /\ UNCHANGED <<initialized, answer>>
    BY DEF handleBlock, isSent, clearsOnInit, Events
<1>2. TypeOK'
    BY <1>1, StartedRuns, ZenonT(60) DEF TypeOK, Findings
<1>3. \A e \in Events : /\ findings'[e].launched = IF e = b THEN findingsOnInit ELSE findings[e].launched
                        /\ findings'[e].found = findings[e].found
                        /\ findings'[e].error = findings[e].error
    BY <1>1 DEF TypeOK, Findings
<1>4. \A e \in Events : /\ event'[e] = IF e = b THEN "open" ELSE event[e]
                        /\ run'[e] = IF e = b THEN started ELSE run[e]
    BY <1>1 DEF TypeOK
<1>5. ~findings[b].launched
    BY <1>1 DEF LaunchIsSomewhere
<1>6. LaunchIsSomewhere'
    BY <1>1, <1>3, <1>4, <1>5 DEF LaunchIsSomewhere
<1>7. RaceIsTrue'
    BY <1>3, <1>4, StartedRuns DEF RaceIsTrue, HasTold
<1>8. AnswerIsTrue'
    BY <1>1, <1>4 DEF AnswerIsTrue, HasTold
<1> QED BY <1>2, <1>6, <1>7, <1>8

LEMMA HandleTransactionIInv ==
    ASSUME IInv, NEW t \in Txs, handleTransaction(t)
    PROVE  IInv'
<1> USE DEF IInv
<1>1. /\ event[t] = "unseen" /\ t \in Events
      /\ event' = [event EXCEPT ![t] = "open"]
      /\ run' = [run EXCEPT ![t] = started]
      /\ UNCHANGED <<initialized, findingsOnInit, findings, answer>>
    BY DEF handleTransaction, isSent, Events
<1>2. TypeOK'
    BY <1>1, StartedRuns DEF TypeOK
<1>3. \A e \in Events : /\ event'[e] = IF e = t THEN "open" ELSE event[e]
                        /\ run'[e] = IF e = t THEN started ELSE run[e]
    BY <1>1 DEF TypeOK
<1>4. LaunchIsSomewhere'
    BY <1>1, <1>3 DEF LaunchIsSomewhere
<1>5. RaceIsTrue' /\ AnswerIsTrue'
    BY <1>1, <1>3, StartedRuns DEF RaceIsTrue, AnswerIsTrue, HasTold
<1> QED BY <1>2, <1>4, <1>5

(* A step that changes findings in what its runs have told only keeps the     *)
(* launch where it is.                                                        *)
LEMMA LaunchStays ==
    ASSUME LaunchIsSomewhere, UNCHANGED <<initialized, findingsOnInit>>,
           \A e \in Events : /\ findings'[e].launched = findings[e].launched
                             /\ answer'[e].launched => findings[e].launched
                             /\ event[e] # "unseen" => event'[e] # "unseen"
    PROVE  LaunchIsSomewhere'
BY DEF LaunchIsSomewhere

(* What one run does to the state: others are not touched.                    *)
LEMMA OneRunStep ==
    ASSUME IInv, NEW e \in Events, NEW a \in Agents, NEW r \in Run, NEW f \in Findings,
           run' = [run EXCEPT ![e][a] = r],
           findings' = [findings EXCEPT ![e] = f],
           f.launched = findings[e].launched,
           findings[e].found \subseteq f.found,
           findings[e].error \subseteq f.error,
           initialized' = initialized, findingsOnInit' = findingsOnInit,
           event' = event, answer' = answer,
           r.race = "run" => HasTold(r, a, f),
           event[e] = "answered" => r.race = "timeout" /\ run[e][a].race = "timeout"
    PROVE  IInv'
<1> USE DEF IInv
<1>1. \A g \in Events, b \in Agents : run'[g][b] = IF g = e /\ b = a THEN r ELSE run[g][b]
    BY DEF TypeOK
<1>2. \A g \in Events : findings'[g] = IF g = e THEN f ELSE findings[g]
    BY DEF TypeOK
<1>3. TypeOK'
    BY DEF TypeOK
<1>4. LaunchIsSomewhere'
    <2>1. \A g \in Events : findings'[g].launched = findings[g].launched
        BY <1>2
    <2>2. \A g \in Events : answer'[g].launched => findings[g].launched
        BY DEF LaunchIsSomewhere
    <2> QED BY <2>1, <2>2, LaunchStays
<1>5. RaceIsTrue'
    <2> SUFFICES ASSUME NEW g \in Events, NEW b \in Agents, run'[g][b].race = "run"
                 PROVE  HasTold(run'[g][b], b, findings'[g])
        BY DEF RaceIsTrue
    <2>1. CASE g = e /\ b = a
        BY <1>1, <1>2, <2>1
    <2>2. CASE ~(g = e /\ b = a)
        <3>1. run'[g][b] = run[g][b] /\ HasTold(run[g][b], b, findings[g])
            BY <1>1, <2>2 DEF RaceIsTrue
        <3>2. findings[g].found \subseteq findings'[g].found
              /\ findings[g].error \subseteq findings'[g].error
            BY <1>2
        <3> QED BY <3>1, <3>2 DEF HasTold
    <2> QED BY <2>1, <2>2
<1>6. AnswerIsTrue'
    <2> SUFFICES ASSUME NEW g \in Events, NEW b \in Agents, event[g] = "answered"
                 PROVE  /\ run'[g][b].race # "open"
                        /\ run'[g][b].race = "timeout" => b \in answer[g].timedOut
                        /\ run'[g][b].race = "run" => HasTold(run'[g][b], b, answer[g])
        BY DEF AnswerIsTrue
    <2>1. CASE g = e /\ b = a
        BY <1>1, <2>1 DEF AnswerIsTrue
    <2>2. CASE ~(g = e /\ b = a)
        BY <1>1, <2>2 DEF AnswerIsTrue
    <2> QED BY <2>1, <2>2
<1> QED BY <1>3, <1>4, <1>5, <1>6

(* A run that ends: the one that wins its race does so before the answer.     *)
LEMMA EndedRun ==
    ASSUME IInv, NEW e \in Events, NEW a \in Agents, Running(e, a),
           NEW at \in {"found", "nothing", "failed"}
    PROVE  /\ ended(run[e][a], at) \in Run
           /\ ended(run[e][a], at).at = at
           /\ event[e] = "answered" => /\ ended(run[e][a], at).race = "timeout"
                                       /\ run[e][a].race = "timeout"
<1>1. run[e][a] \in Run
    BY DEF IInv, TypeOK
<1>2. run[e][a].race # "run"
    BY DEF Running, IInv, RaceIsTrue, HasTold
<1>3. event[e] = "answered" => run[e][a].race # "open"
    BY DEF IInv, AnswerIsTrue
<1> QED BY <1>1, <1>2, <1>3, RunnerAssumption DEF ended, Run

(* What the findings of an event are when one of its runs has ended.          *)
LEMMA ToldFindings ==
    ASSUME TypeOK, NEW e \in Events, NEW a \in Agents
    PROVE  /\ findings = [findings EXCEPT ![e] = findings[e]]
           /\ findings[e] \in Findings
           /\ \A f : f = [findings[e] EXCEPT !.found = findings[e].found \union {a}] =>
                 /\ f \in Findings /\ f.launched = findings[e].launched
                 /\ f.found = findings[e].found \union {a} /\ f.error = findings[e].error
           /\ \A f : f = [findings[e] EXCEPT !.error = findings[e].error \union {a}] =>
                 /\ f \in Findings /\ f.launched = findings[e].launched
                 /\ f.error = findings[e].error \union {a} /\ f.found = findings[e].found
<1>1. findings[e] \in Findings
    BY DEF TypeOK
<1>2. findings = [findings EXCEPT ![e] = findings[e]]
    BY DEF TypeOK
<1> QED BY <1>1, <1>2 DEF Findings

LEMMA HandlerReturnsIInv ==
    ASSUME IInv, NEW e \in Events, NEW a \in Agents, handlerReturns(e, a)
    PROVE  IInv'
<1>1. /\ Running(e, a) /\ initialized' = initialized /\ findingsOnInit' = findingsOnInit
      /\ event' = event /\ answer' = answer
    BY DEF handlerReturns
<1>2. TypeOK
    BY DEF IInv
<1>3. CASE /\ run' = [run EXCEPT ![e][a] = ended(run[e][a], "found")]
           /\ findings' = [findings EXCEPT ![e].found = findings[e].found \union {a}]
    <2> DEFINE f == [findings[e] EXCEPT !.found = findings[e].found \union {a}]
               r == ended(run[e][a], "found")
    <2>1. findings' = [findings EXCEPT ![e] = f] /\ run' = [run EXCEPT ![e][a] = r]
        BY <1>3
    <2>2. /\ f \in Findings /\ f.launched = findings[e].launched
          /\ f.found = findings[e].found \union {a} /\ f.error = findings[e].error
        BY <1>2, ToldFindings
    <2>3. r \in Run /\ r.at = "found"
          /\ (event[e] = "answered" => r.race = "timeout" /\ run[e][a].race = "timeout")
        BY <1>1, EndedRun
    <2> HIDE DEF f, r
    <2>4. HasTold(r, a, f)
        BY <2>2, <2>3 DEF HasTold
    <2> QED BY <1>1, <2>1, <2>2, <2>3, <2>4, OneRunStep
<1>4. CASE run' = [run EXCEPT ![e][a] = ended(run[e][a], "nothing")] /\ findings' = findings
    <2> DEFINE r == ended(run[e][a], "nothing")
    <2>1. findings' = [findings EXCEPT ![e] = findings[e]] /\ findings[e] \in Findings
        BY <1>2, <1>4, ToldFindings
    <2>2. run' = [run EXCEPT ![e][a] = r]
        BY <1>4
    <2>3. r \in Run /\ r.at = "nothing"
          /\ (event[e] = "answered" => r.race = "timeout" /\ run[e][a].race = "timeout")
        BY <1>1, EndedRun
    <2> HIDE DEF r
    <2>4. HasTold(r, a, findings[e])
        BY <2>3 DEF HasTold
    <2> QED BY <1>1, <2>1, <2>2, <2>3, <2>4, OneRunStep
<1> QED BY <1>3, <1>4 DEF handlerReturns

LEMMA HandlerThrowsIInv ==
    ASSUME IInv, NEW e \in Events, NEW a \in Agents, handlerThrows(e, a)
    PROVE  IInv'
<1>1. /\ Running(e, a) /\ initialized' = initialized /\ findingsOnInit' = findingsOnInit
      /\ event' = event /\ answer' = answer
    BY DEF handlerThrows
<1>2. TypeOK
    BY DEF IInv
<1>3. CASE /\ ~exhausted(run[e][a])
           /\ run' = [run EXCEPT ![e][a] = [run[e][a] EXCEPT !.left = run[e][a].left - 1]]
           /\ findings' = findings
    <2> DEFINE r == [run[e][a] EXCEPT !.left = run[e][a].left - 1]
    <2>1. run[e][a] \in Run
        BY <1>2 DEF TypeOK
    <2>2. r \in Run /\ r.race = run[e][a].race
        BY <1>3, <2>1, RunnerAssumption DEF Run, exhausted
    <2>3. run' = [run EXCEPT ![e][a] = r]
        BY <1>3
    <2>4. run[e][a].race # "run" /\ (event[e] = "answered" => run[e][a].race # "open")
        BY <1>1 DEF Running, IInv, RaceIsTrue, HasTold, AnswerIsTrue
    <2>5. run[e][a].race \in {"open", "run", "timeout"}
        BY <2>1 DEF Run
    <2> HIDE DEF r
    <2>6. findings' = [findings EXCEPT ![e] = findings[e]] /\ findings[e] \in Findings
        BY <1>2, <1>3, ToldFindings
    <2>7. /\ r.race # "run"
          /\ event[e] = "answered" => r.race = "timeout" /\ run[e][a].race = "timeout"
        BY <2>2, <2>4, <2>5
    <2> QED BY <1>1, <2>2, <2>3, <2>6, <2>7, OneRunStep
<1>4. CASE /\ run' = [run EXCEPT ![e][a] = ended(run[e][a], "failed")]
           /\ findings' = givesUp(e, a)
    <2> DEFINE f == [findings[e] EXCEPT !.error = findings[e].error \union {a}]
               r == ended(run[e][a], "failed")
    <2>1. findings' = [findings EXCEPT ![e] = f] /\ run' = [run EXCEPT ![e][a] = r]
        BY <1>4 DEF givesUp
    <2>2. /\ f \in Findings /\ f.launched = findings[e].launched
          /\ f.error = findings[e].error \union {a} /\ f.found = findings[e].found
        BY <1>2, ToldFindings
    <2>3. r \in Run /\ r.at = "failed"
          /\ (event[e] = "answered" => r.race = "timeout" /\ run[e][a].race = "timeout")
        BY <1>1, EndedRun
    <2> HIDE DEF f, r
    <2>4. HasTold(r, a, f)
        BY <2>2, <2>3 DEF HasTold
    <2> QED BY <1>1, <2>1, <2>2, <2>3, <2>4, OneRunStep
<1> QED BY <1>3, <1>4 DEF handlerThrows

LEMMA TimeoutIInv ==
    ASSUME IInv, NEW e \in Events, NEW a \in Agents, timeout(e, a)
    PROVE  IInv'
<1> DEFINE r == [run[e][a] EXCEPT !.race = "timeout"]
<1>1. /\ event[e] = "open" /\ run' = [run EXCEPT ![e][a] = r]
      /\ initialized' = initialized /\ findingsOnInit' = findingsOnInit
      /\ event' = event /\ findings' = findings /\ answer' = answer
    BY DEF timeout
<1>2. run[e][a] \in Run /\ TypeOK
    BY DEF IInv, TypeOK
<1>3. r \in Run /\ r.race = "timeout"
    BY <1>2 DEF Run
<1> HIDE DEF r
<1>4. findings' = [findings EXCEPT ![e] = findings[e]] /\ findings[e] \in Findings
    BY <1>1, <1>2, ToldFindings
<1> QED BY <1>1, <1>3, <1>4, OneRunStep

(* The answer keeps what the settled races tell.                              *)
LEMMA RespondIInv ==
    ASSUME IInv, NEW e \in Events, respond(e)
    PROVE  IInv'
<1> USE DEF IInv
<1> DEFINE all == [findings[e] EXCEPT !.timedOut = {a \in Agents : run[e][a].race = "timeout"}]
<1>1. /\ event[e] = "open" /\ \A a \in Agents : run[e][a].race # "open"
      /\ event' = [event EXCEPT ![e] = "answered"]
      /\ findings' = [findings EXCEPT ![e] = all]
      /\ answer' = [answer EXCEPT ![e] = all]
      /\ UNCHANGED <<initialized, findingsOnInit, run>>
    BY DEF respond
<1>2. /\ all \in Findings
      /\ all.launched = findings[e].launched
      /\ all.found = findings[e].found /\ all.error = findings[e].error
      /\ all.timedOut = {a \in Agents : run[e][a].race = "timeout"}
    <2>1. findings[e] \in Findings
        BY DEF TypeOK
    <2> QED BY <2>1 DEF Findings
<1> HIDE DEF all
<1>3. TypeOK'
    BY <1>1, <1>2 DEF TypeOK
<1>4. \A f \in Events : /\ findings'[f] = IF f = e THEN all ELSE findings[f]
                        /\ answer'[f] = IF f = e THEN all ELSE answer[f]
                        /\ event'[f] = IF f = e THEN "answered" ELSE event[f]
    BY <1>1 DEF TypeOK
<1>5. LaunchIsSomewhere'
    BY <1>1, <1>2, <1>4, LaunchStays DEF LaunchIsSomewhere
<1>6. RaceIsTrue'
    BY <1>1, <1>2, <1>4 DEF RaceIsTrue, HasTold
<1>7. AnswerIsTrue'
    BY <1>1, <1>2, <1>4 DEF AnswerIsTrue, RaceIsTrue, HasTold
<1> QED BY <1>3, <1>5, <1>6, <1>7

LEMMA NextIInv == IInv /\ [Next]_vars => IInv'
<1> SUFFICES ASSUME IInv, [Next]_vars PROVE IInv'
    OBVIOUS
<1>1. CASE UNCHANGED vars
    BY <1>1 DEF vars, IInv, TypeOK, LaunchIsSomewhere, RaceIsTrue, AnswerIsTrue
<1>2. CASE initialize
    BY <1>2, InitializeIInv
<1>3. ASSUME NEW b \in Blocks, handleBlock(b) PROVE IInv'
    BY <1>3, HandleBlockIInv
<1>4. ASSUME NEW t \in Txs, handleTransaction(t) PROVE IInv'
    BY <1>4, HandleTransactionIInv
<1>5. ASSUME NEW e \in Events, respond(e) PROVE IInv'
    BY <1>5, RespondIInv
<1>6. ASSUME NEW e \in Events, NEW a \in Agents,
             handlerReturns(e, a) \/ handlerThrows(e, a) \/ timeout(e, a)
      PROVE  IInv'
    BY <1>6, HandlerReturnsIInv, HandlerThrowsIInv, TimeoutIInv
<1> QED BY <1>1, <1>2, <1>3, <1>4, <1>5, <1>6 DEF Next

-----------------------------------------------------------------------------
(* The variables have their types.                                            *)
THEOREM TypeCorrect == Spec => []TypeOK
<1>1. IInv => TypeOK
    BY DEF IInv
<1> QED BY InitIInv, NextIInv, <1>1, PTL DEF Spec

(* The launch is answered with one block at most, and never lost before.      *)
THEOREM LaunchCorrect == Spec => [](LaunchReportedOnce /\ LaunchKept)
<1>1. IInv => LaunchReportedOnce /\ LaunchKept
    BY DEF IInv, LaunchIsSomewhere, LaunchReportedOnce, LaunchKept
<1> QED BY InitIInv, NextIInv, <1>1, PTL DEF Spec

(* No sub-agent fails silently.                                               *)
THEOREM AnswersCorrect == Spec => []EveryAgentAnswers
<1>1. IInv => EveryAgentAnswers
    <2> SUFFICES ASSUME IInv, NEW e \in Events, event[e] = "answered", NEW a \in Agents
                 PROVE  \/ a \in answer[e].timedOut
                        \/ run[e][a].at = "found" /\ a \in answer[e].found
                        \/ run[e][a].at = "failed" /\ a \in answer[e].error
                        \/ run[e][a].at = "nothing"
        BY DEF EveryAgentAnswers
    <2>1. run[e][a].race \in {"open", "run", "timeout"}
        BY DEF IInv, TypeOK, Run
    <2> QED BY <2>1 DEF IInv, AnswerIsTrue, HasTold
<1> QED BY InitIInv, NextIInv, <1>1, PTL DEF Spec
=============================================================================
