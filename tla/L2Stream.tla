------------------------------- MODULE L2Stream -------------------------------
(***************************************************************************)
(* What an L2 bot promises of the L2 blocks: a cursor passes them in order, *)
(* and what it has passed is handled, or is still under way, or was given   *)
(* up for a reason the bot can name.  Nothing under way is forgotten.       *)
(* L2Store implements it with a cursor in a table and no flag between its   *)
(* calls.  For L2Agent, whose cursor is in memory, the same is an invariant *)
(* (EveryBlockIsAccounted).                                                 *)
(***************************************************************************)
EXTENDS Integers

CONSTANT MaxBlock       \* bound: the last L2 block

VARIABLES
    passed,     \* the newest block the cursor was ever at, 0 before the first
    pending,    \* the blocks whose logs are under way
    seen,       \* the blocks whose logs were given to the watchers
    lost        \* the blocks given up, for a reason that has a name

Blocks == 1..MaxBlock

Accounted == 1..passed \subseteq pending \union seen \union lost

Init == passed = 0 /\ pending = {} /\ seen = {} /\ lost = {}

(* The cursor never goes back in what it has passed, nothing handled or given *)
(* up is taken back, and what is no longer under way is one of the two.       *)
Step ==
    /\ passed' >= passed /\ passed' \in Blocks
    /\ seen \subseteq seen' /\ lost \subseteq lost'
    /\ pending \ pending' \subseteq seen' \union lost'
    /\ Accounted'

Spec == Init /\ [][Step]_<<passed, pending, seen, lost>>
=============================================================================
