---------------------------- MODULE L2ProxyWatcher ----------------------------
(***************************************************************************)
(* ProxyWatcher of l2-bridge-scroll (proxy_watcher.ts): for the blocks it   *)
(* is given it asks one proxy after the other for its implementation, and   *)
(* at the same time, with a state of its own, for its admin.  This is the   *)
(* one for implementations; the one for admins differs in names only.       *)
(*                                                                          *)
(* A request that fails ends the check of the block with an alert: what the *)
(* check has found before is dropped, but lastImpls has been updated.       *)
(***************************************************************************)
EXTENDS Integers, Sequences

CONSTANTS
    contractCallers,  \* the sequence of the proxies
    Impls,            \* the implementations
    MaxChecks         \* bound: the checks of the run

Contracts == {contractCallers[i] : i \in DOMAIN contractCallers}

(* A bot has at least one proxy.                                              *)
ProxiesAssumption ==
    /\ contractCallers \in Seq(Contracts) \ {<<>>}
    /\ MaxChecks \in Nat

VARIABLES
    impl,       \* the chain: the implementation of every proxy at the block of the check
    lastImpls,
    asked,      \* the position of the proxy that is being asked for, or 0
    out,        \* the proxies the check has found changed
    checks,     \* the number of checks that were begun
    told,       \* history: the implementation that was reported last
    dropped     \* history: proxies with later findings in an answer that was dropped

vars == <<impl, lastImpls, asked, out, checks, told, dropped>>

TypeOK ==
    /\ impl \in [Contracts -> Impls]
    /\ lastImpls \in [Contracts -> Impls]
    /\ asked \in 0..Len(contractCallers)
    /\ out \subseteq Contracts
    /\ checks \in 0..MaxChecks
    /\ told \in [Contracts -> Impls]
    /\ dropped \subseteq Contracts

(* initialize has read every implementation, or has ended the process.        *)
Init ==
    /\ impl \in [Contracts -> Impls]
    /\ lastImpls = impl
    /\ asked = 0 /\ out = {} /\ checks = 0
    /\ told = impl
    /\ dropped = {}

-----------------------------------------------------------------------------
(* The next block of blockNumbers at the interval, with what the chain holds  *)
(* at it; nothing orders the blocks, and a block may come twice.              *)
handleBlocks ==
    /\ asked = 0 /\ checks < MaxChecks
    /\ checks' = checks + 1
    /\ impl' \in [Contracts -> Impls]
    /\ asked' = 1
    /\ out' = {}
    /\ UNCHANGED <<lastImpls, told, dropped>>

(* The findings of a check, which begin with the first proxy.                 *)
reports(found) ==
    /\ told' = [c \in Contracts |-> IF c \in found THEN impl[c] ELSE told[c]]
    /\ dropped' = dropped \ found

(* newImpl.right != lastImpl; a bug would compare after lastImpls is set.     *)
isChangedLate(c) == lastImpls'[c] # impl[c]
isChanged(c) == lastImpls[c] # impl[c]

implAnswered ==
    LET c == contractCallers[asked]
        found == IF isChanged(c) THEN out \union {c} ELSE out
    IN  /\ asked # 0
        /\ lastImpls' = [lastImpls EXCEPT ![c] = impl[c]]
        /\ out' = found
        /\ \/ /\ asked < Len(contractCallers)
              /\ asked' = asked + 1
              /\ UNCHANGED <<told, dropped>>
           \/ /\ asked = Len(contractCallers)
              /\ asked' = 0
              /\ reports(found)
        /\ UNCHANGED <<impl, checks>>

(* return [networkAlert(...)]: the findings in out are not returned.          *)
implFails ==
    /\ asked # 0
    /\ asked' = 0
    /\ dropped' = dropped \union out
    /\ out' = {}
    /\ UNCHANGED <<impl, lastImpls, checks, told>>

Next == handleBlocks \/ implAnswered \/ implFails

Spec == Init /\ [][Next]_vars

-----------------------------------------------------------------------------
(* Between two checks, the implementation that was reported last is the one   *)
(* the bot has recorded: a change can only go unreported if a request failed  *)
(* later in the check that saw it.                                            *)
ChangeIsTold ==
    asked = 0 => \A c \in Contracts \ dropped : told[c] = lastImpls[c]
=============================================================================
