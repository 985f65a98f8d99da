---------------------------- MODULE VotingWatcher ----------------------------
(***************************************************************************)
(* The voting-watcher bot (agent-voting-watcher.ts) under its runner: with  *)
(* every block it reads the votes that are open, compares them with the map *)
(* of those it knew, and tells that the objection phase of one has begun,   *)
(* that it ends soon, that it is over; that it is time to vote; and that    *)
(* many votes were cast.  An attempt that fails is made again, and one that *)
(* has timed out goes on in the background: both have changed the map, and  *)
(* their findings are seen by nobody.                                       *)
(*                                                                          *)
(* A vote is open for some blocks; the objection phase is its last two, the *)
(* last note its last.  Many votes are cast at once, with the block after   *)
(* it was started.                                                          *)
(***************************************************************************)
EXTENDS Naturals, FiniteSets

CONSTANTS
    NumVotes,           \* bound: the votes, by their numbers
    Start,              \* the block of initialize
    MaxBlock,           \* bound: the last block
    maxHandlerRetries,
    MaxLate             \* bound: runs in the background

VotingAssumption == /\ NumVotes \in Nat /\ Start \in Nat /\ MaxBlock \in Nat /\ Start <= MaxBlock
                    /\ maxHandlerRetries \in Nat \ {0} /\ MaxLate \in Nat

Votes == 1..NumVotes
Blocks == Start..MaxBlock
Kinds == {"objection", "final", "over", "ping", "huge"}
Notices == Votes \X Kinds

VARIABLES
    now,            \* the last block the scan node has sent
    chain,          \* every vote: open from a block and before another; whether many votes
                    \* are cast, and whether they are enough for it to pass
    activeVotes,
    run,            \* the run for this block, if it is not answered
    late,           \* the runs that have timed out
    answered,       \* the last block whose run has returned in time
    known,          \* history: the votes in the map when a block was answered
    told,           \* history: what blocks were answered with
    dropped         \* history: what attempts have found that were not answered

vars == <<now, chain, activeVotes, run, late, answered, known, told, dropped>>

(* alertLevel, lastReportedTotal (in huge vote distances) and noMorePing are  *)
(* kept by mergeVotesInfo; total and passed are those of the last block.      *)
Info == [alertLevel : 0..2, lastReportedTotal : 0..1, noMorePing : BOOLEAN,
         total : 0..1, passed : BOOLEAN]

Run == [block : Blocks, left : 0..maxHandlerRetries, at : {"votes", "pinger"}, found : SUBSET Notices]
NoRun == [block |-> Start, left |-> 0, at |-> "none", found |-> {}]

TypeOK ==
    /\ now \in Blocks /\ answered \in Blocks
    /\ chain \in [Votes -> [from : Blocks, to : Start..MaxBlock + 3, many : BOOLEAN, passes : BOOLEAN]]
    /\ DOMAIN activeVotes \subseteq Votes
    /\ \A k \in DOMAIN activeVotes : activeVotes[k] \in Info
    /\ run \in Run \union {NoRun} /\ late \subseteq Run
    /\ known \subseteq Votes /\ told \subseteq Notices /\ dropped \subseteq Notices

open(n) == {k \in Votes : chain[k].from <= n /\ n < chain[k].to}
cast(k, n) == IF chain[k].many /\ n > chain[k].from THEN 1 ELSE 0
passed(k, n) == chain[k].passes /\ cast(k, n) = 1

(* getActiveVotes at block n.                                                 *)
read(k, n, reported) ==
    [alertLevel |-> 0, lastReportedTotal |-> reported, noMorePing |-> FALSE,
     total |-> cast(k, n), passed |-> passed(k, n)]

(* Votes are started, and end, in the order of their numbers.  initialize has *)
(* read those open at its block, and counts their votes as reported.          *)
Init ==
    /\ now = Start /\ answered = Start
    /\ chain \in [Votes -> [from : Start..Start + 2, to : Start + 3..MaxBlock,
                            many : BOOLEAN, passes : BOOLEAN]]
    /\ \A k \in Votes : chain[k].to >= chain[k].from + 3
    /\ \A j, k \in Votes : j < k => chain[j].from <= chain[k].from /\ chain[j].to <= chain[k].to
    /\ activeVotes = [k \in open(Start) |-> read(k, Start, cast(k, Start))]
    /\ run = NoRun /\ late = {}
    /\ known = open(Start) /\ told = {} /\ dropped = {}

-----------------------------------------------------------------------------
handleBlock ==
    /\ now < MaxBlock /\ run = NoRun
    /\ now' = now + 1
    /\ run' = [block |-> now + 1, left |-> maxHandlerRetries - 1, at |-> "votes", found |-> {}]
    /\ UNCHANGED <<chain, activeVotes, late, answered, known, told, dropped>>

(* The alert level a vote that was known and is still open gets.              *)
level(k, n) ==
    CASE n >= chain[k].to - 1 -> 2
      [] n = chain[k].to - 2 -> IF activeVotes[k].alertLevel > 1 THEN activeVotes[k].alertLevel ELSE 1
      [] OTHER -> activeVotes[k].alertLevel

(* The news of the votes that are in the map, or open at block n, or both.  A *)
(* bug would go through the open ones only.                                   *)
openOnly(n) == open(n) \intersect DOMAIN activeVotes
knownVotes(n) == DOMAIN activeVotes

stateNews(n) ==
    UNION {IF k \notin open(n) THEN {<<k, "over">>}
           ELSE IF level(k, n) = activeVotes[k].alertLevel THEN {}
           ELSE {<<k, IF level(k, n) = 2 THEN "final" ELSE "objection">>} : k \in knownVotes(n)}

(* handleActiveVotes, when all votes are read: the map is changed at once.    *)
merged(n) ==
    [k \in open(n) |->
        IF k \notin DOMAIN activeVotes THEN read(k, n, 0)
        ELSE [activeVotes[k] EXCEPT !.alertLevel = level(k, n), !.total = cast(k, n),
                                    !.passed = passed(k, n)]]

votesRead(r) == /\ r.at = "votes"
                /\ activeVotes' = merged(r.block)

afterVotes(r) == [r EXCEPT !.at = "pinger", !.found = @ \union stateNews(r.block)]

(* handlePinger and handleHugeVotes, on the map as it is by now.  The one     *)
(* ping of a vote is due two blocks before its end.                           *)
pings(n) == {k \in DOMAIN activeVotes : ~activeVotes[k].passed /\ n = chain[k].to - 2} \X {"ping"}
hugeNews == {k \in DOMAIN activeVotes :
                activeVotes[k].total >= activeVotes[k].lastReportedTotal + 1 /\ ~activeVotes[k].noMorePing}

pinged(r) ==
    /\ r.at = "pinger"
    /\ activeVotes' = [k \in DOMAIN activeVotes |->
          IF k \in hugeNews THEN [activeVotes[k] EXCEPT !.lastReportedTotal = activeVotes[k].total,
                                                        !.noMorePing = activeVotes[k].passed]
          ELSE activeVotes[k]]

afterPinger(r) == r.found \union pings(r.block) \union (hugeNews \X {"huge"})

(* The run for this block.                                                    *)
runVotesRead ==
    /\ votesRead(run) /\ run' = afterVotes(run)
    /\ UNCHANGED <<now, chain, late, answered, known, told, dropped>>

runReturns ==
    /\ pinged(run)
    /\ told' = told \union afterPinger(run)
    /\ answered' = run.block
    /\ known' = known \union (DOMAIN activeVotes \intersect open(run.block))
    /\ run' = NoRun
    /\ UNCHANGED <<now, chain, late, dropped>>

(* A request fails: the findings of the attempt are dropped; it is made again *)
(* as long as there are attempts left.                                        *)
retried(r) == [r EXCEPT !.left = @ - 1, !.at = "votes", !.found = {}]

runFails ==
    /\ run # NoRun
    /\ run' = IF run.left > 0 THEN retried(run) ELSE NoRun
    /\ dropped' = dropped \union run.found
    /\ UNCHANGED <<now, chain, activeVotes, late, answered, known, told>>

runTimesOut ==
    /\ run # NoRun /\ Cardinality(late) < MaxLate
    /\ late' = late \union {run}
    /\ run' = NoRun
    /\ UNCHANGED <<now, chain, activeVotes, answered, known, told, dropped>>

(* A run in the background.                                                   *)
lateVotesRead(r) ==
    /\ votesRead(r) /\ late' = (late \ {r}) \union {afterVotes(r)}
    /\ UNCHANGED <<now, chain, run, answered, known, told, dropped>>

lateReturns(r) ==
    /\ pinged(r) /\ late' = late \ {r}
    /\ dropped' = dropped \union afterPinger(r)
    /\ UNCHANGED <<now, chain, run, answered, known, told>>

lateFails(r) ==
    /\ late' = IF r.left > 0 THEN (late \ {r}) \union {retried(r)} ELSE late \ {r}
    /\ dropped' = dropped \union r.found
    /\ UNCHANGED <<now, chain, activeVotes, run, answered, known, told>>

Next ==
    \/ handleBlock \/ runVotesRead \/ runReturns \/ runFails \/ runTimesOut
    \/ \E r \in late : lateVotesRead(r) \/ lateReturns(r) \/ lateFails(r)

Spec == Init /\ [][Next]_vars

-----------------------------------------------------------------------------
(* A vote that was in the map when a block was answered, and is no longer     *)
(* open at a later block that is answered, has been told to be over: unless   *)
(* an attempt that failed or came too late has taken it out of the map.       *)
EndIsTold ==
    \A k \in known :
        answered >= chain[k].to =>
            <<k, "over">> \in told \union dropped \union UNION {r.found : r \in late}
=============================================================================
