------------------------------ MODULE MCL2Bridge ------------------------------
(* Three parts of an L2 bot that share no state, each taken for itself while  *)
(* the others rest: the agent with two L1 calls and four L2 blocks, the proxy *)
(* watcher with three proxies and four checks, and the withdrawals monitor    *)
(* with seven blocks in calls of up to three.                                 *)
EXTENDS L2Agent

CONSTANTS
    Part, contractCallers, Impls, MaxChecks,
    Window, Cadence, MaxSum, Epoch, MaxNumber, MaxBatch \* of the withdrawals monitor

VARIABLES
    part,
    impl, lastImpls, asked, out, checks, told, dropped,
    number, withdrawalsStore, lastReportedTooManyWithdrawalsTimestamp, reports, withdrawn

proxyVars == <<impl, lastImpls, asked, out, checks, told, dropped>>
withdrawalVars == <<number, withdrawalsStore, lastReportedTooManyWithdrawalsTimestamp,
                    reports, withdrawn>>

Proxies == INSTANCE L2ProxyWatcher

(* The proxies of the runs.                                                   *)
Callers == <<"gateway", "wstETH", "executor">>

ASSUME ProxiesAreGiven == Proxies!ProxiesAssumption

Withdrawals == INSTANCE L2WithdrawalsMonitor WITH out <- reports

ASSUME MonitorIsGiven == Withdrawals!MonitorAssumption

MCInit ==
    /\ part \in Part
    /\ Init /\ Proxies!Init /\ Withdrawals!Init
    /\ part # "proxies" => impl = [c \in Proxies!Contracts |-> 1]
    /\ part # "withdrawals" => withdrawalsStore = {}

MCNext ==
    /\ \/ part = "agent" /\ Next /\ UNCHANGED <<proxyVars, withdrawalVars>>
       \/ part = "proxies" /\ Proxies!Next /\ UNCHANGED <<vars, withdrawalVars>>
       \/ part = "withdrawals" /\ Withdrawals!Next /\ UNCHANGED <<vars, proxyVars>>
    /\ UNCHANGED part

(* The fairness of the agent, where it is the agent's turn.                   *)
MCSpec ==
    /\ MCInit /\ [][MCNext]_<<part, vars, proxyVars, withdrawalVars>>
    /\ WF_vars(part = "agent" /\ \E c \in Calls : handleBlock(c))
    /\ \A c \in Calls : /\ WF_vars(part = "agent" /\ continues(c))
                        /\ SF_vars(part = "agent" /\ latestAnswered(c))

(* All variables have their types.                                            *)
TypesOK == TypeOK /\ Proxies!TypeOK /\ Withdrawals!TypeOK

(* The implementation reported last is the one recorded, unless a request     *)
(* failed later in the same check.                                            *)
ChangeIsTold == Proxies!ChangeIsTold

(* README: a block that may report leaves fewer withdrawals unreported than   *)
(* the sum that is huge.                                                      *)
HugeIsReported == Withdrawals!HugeIsReported
=============================================================================
