--------------------------- MODULE ProxyAdminCheck ---------------------------
(***************************************************************************)
(* handleProxyAdmin of lido-on-polygon's agent-dao-ops.ts, for one block.   *)
(* It asks the ProxyAdmin contract about every Lido proxy at once; all the  *)
(* answers go through one variable, proxyAdminFor.  ProxyAdmin reverts for  *)
(* a proxy it does not administer, and then the variable is not assigned.   *)
(* When a request fails the runner calls the handler again; requests that   *)
(* the failed call left open change its own variable only, and the throttle.*)
(***************************************************************************)
EXTENDS Naturals

CONSTANTS
    Proxies,           \* LIDO_ON_POLYGON_PROXIES
    maxHandlerRetries

ProxyAdminAssumption == maxHandlerRetries \in Nat \ {0}

VARIABLES
    admin,         \* the chain: who administers each proxy, as ProxyAdmin tells
    proxyAdminFor, \* the variable of the current call
    asked,         \* the proxies the current call waits for
    orphans,       \* those whose answer only an earlier call waits for
    retries,       \* the attempts that remain
    throttled,     \* lastReportedInvalidProxyAdmin has been set to this block
    findings,      \* the findings of the current call
    status         \* of the runner's call for this block

vars == <<admin, proxyAdminFor, asked, orphans, retries, throttled, findings, status>>

(* "ours" is PROXY_ADMIN_ADDRESS; for an "unknown" proxy the call reverts.    *)
Admin == {"ours", "other", "unknown"}

TypeOK ==
    /\ admin \in [Proxies -> Admin]
    /\ proxyAdminFor \in Admin
    /\ asked \subseteq Proxies /\ orphans \subseteq Proxies
    /\ retries \in 0..(maxHandlerRetries - 1)
    /\ throttled \in BOOLEAN
    /\ findings \subseteq Proxies
    /\ status \in {"running", "answered", "errored"}

Init ==
    /\ admin \in [Proxies -> Admin]
    /\ proxyAdminFor = "unknown"
    /\ asked = Proxies /\ orphans = {}
    /\ retries = maxHandlerRetries - 1
    /\ throttled = FALSE
    /\ findings = {}
    /\ status = "running"

-----------------------------------------------------------------------------
(* The value the check of a proxy sees; a bug would check before it assigns.  *)
checkedBefore(p) == proxyAdminFor
checkedValue(p) == IF admin[p] = "unknown" THEN proxyAdminFor ELSE admin[p]

isInvalid(p) == checkedValue(p) # "ours"

adminAnswered(p) ==
    /\ status = "running" /\ p \in asked
    /\ asked' = asked \ {p}
    /\ proxyAdminFor' = IF admin[p] = "unknown" THEN proxyAdminFor ELSE admin[p]
    /\ findings' = IF isInvalid(p) THEN findings \union {p} ELSE findings
    /\ throttled' = (throttled \/ isInvalid(p))
    /\ UNCHANGED <<admin, orphans, retries, status>>

(* An answer to an earlier call: its finding is dropped, the throttle is set. *)
(* For an unknown proxy that depends on the earlier call's variable.          *)
orphanAnswered(p) ==
    /\ p \in orphans
    /\ orphans' = orphans \ {p}
    /\ throttled' \in {throttled} \union (IF admin[p] = "ours" THEN {} ELSE {TRUE})
    /\ admin[p] = "other" => throttled'
    /\ UNCHANGED <<admin, proxyAdminFor, asked, retries, findings, status>>

(* The handler starts with the throttle; a bug would try once more than there *)
(* are attempts.                                                              *)
oneMore == retries + 1 > 0
mayRetry == retries > 0

requestFails(p) ==
    /\ status = "running" /\ p \in asked
    /\ \/ /\ mayRetry
          /\ retries' = retries - 1
          /\ orphans' = orphans \union (asked \ {p})
          /\ asked' = IF throttled THEN {} ELSE Proxies
          /\ proxyAdminFor' = "unknown"
          /\ findings' = {}
          /\ UNCHANGED status
       \/ /\ ~mayRetry
          /\ status' = "errored"
          /\ findings' = {}
          /\ UNCHANGED <<retries, orphans, asked, proxyAdminFor>>
    /\ UNCHANGED <<admin, throttled>>

callReturns ==
    /\ status = "running" /\ asked = {}
    /\ status' = "answered"
    /\ UNCHANGED <<admin, proxyAdminFor, asked, orphans, retries, throttled, findings>>

Next ==
    \/ \E p \in Proxies : adminAnswered(p) \/ orphanAnswered(p) \/ requestFails(p)
    \/ callReturns

Spec == Init /\ [][Next]_vars

-----------------------------------------------------------------------------
(* Although all answers go through one variable, an answered block reports    *)
(* exactly the proxies another contract administers, and perhaps unknown ones:*)
(* unless a request failed after the throttle had been set.                   *)
AdminsAreTold ==
    status = "answered" /\ retries = maxHandlerRetries - 1 =>
        /\ {p \in Proxies : admin[p] = "other"} \subseteq findings
        /\ \A p \in findings : admin[p] # "ours"
=============================================================================
