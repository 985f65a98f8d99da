--------------------------- MODULE MCStethHandlers ---------------------------
(* The shell around the services of ethereum-steth, each part taken for itself *)
(* while the other rests: the health checker with a border of two instants and *)
(* a limit of three errors, so that a window can be opened, filled, closed by  *)
(* a later call and opened again; and the handlers with one service whose      *)
(* results are kept and one whose results are not, two open calls, three       *)
(* blocks and one end of the process.                                          *)
EXTENDS HealthChecker

CONSTANTS Part, Services, Returned, Calls, MaxBlocks, MaxInits, MaxLives

VARIABLES
    part,
    life, bound, onAppFindings, onAppStartFindings, shared, init, inits, blocks, call, computed,
    answered, done

handlerVars == <<life, bound, onAppFindings, onAppStartFindings, shared, init, inits, blocks, call,
                 computed, answered, done>>

Handlers == INSTANCE StethHandlers

ASSUME HandlersHaveBounds == Handlers!HandlersAssumption

MCInit == part \in Part /\ Init /\ Handlers!Init

MCNext ==
    /\ \/ part = "health" /\ Next /\ UNCHANGED handlerVars
       \/ part = "handlers" /\ Handlers!Next /\ UNCHANGED vars
    /\ UNCHANGED part

MCSpec ==
    /\ MCInit /\ [][MCNext]_<<part, vars, handlerVars>>
    /\ WF_handlerVars(part = "handlers" /\ Handlers!startGoesOn)
    /\ \A c \in Calls : WF_handlerVars(part = "handlers" /\ Handlers!callGoesOn(c))

(* All variables have their types, in both parts.                             *)
TypesOK == TypeOK /\ Handlers!TypeOK

(* A start-up finding is reported for one block only.                         *)
StartFindingsOnce == Handlers!StartFindingsOnce

(* Once a call has come, the launch is reported or the process ends.          *)
LaunchIsReported == Handlers!LaunchIsReported

(* README: what any of the services finds is alerted.                         *)
ServiceFindingsAreDelivered == Handlers!ServiceFindingsAreDelivered
=============================================================================
