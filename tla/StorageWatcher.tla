--------------------------- MODULE StorageWatcher ---------------------------
(***************************************************************************)
(* StorageWatcherSrv of ethereum-steth: on every block it reads a ninth of  *)
(* a list of contract storage slots, chosen by the last digit of the block  *)
(* number, and compares each with the value it expects.                     *)
(*                                                                          *)
(* The service keeps no state between blocks and reads by block hash, so a  *)
(* call is one step, whatever else runs.  A slot is its place in the list.  *)
(***************************************************************************)
EXTENDS Integers

CONSTANTS
    NumSlots,    \* storageSlots.length
    Arrays,      \* the slots that are arrays: their length is read first
    FirstBlock,  \* the block number the bot starts at
    MaxBlocks    \* bound: blocks evaluated

ASSUME StorageAssumption ==
    /\ NumSlots \in Nat /\ NumSlots % 9 = 0  \* 54 in STORAGE_SLOTS
    /\ FirstBlock \in Nat /\ MaxBlocks \in Nat
    /\ Arrays \subseteq 1..NumSlots

Slots == 1..NumSlots

VARIABLES
    number,    \* the last block evaluated
    changed,   \* the chain: the slots that differ from the expected value
    out,       \* the findings of the last block
    lastLook,  \* history: when each slot was last compared, or reported unreadable
    noticed    \* history: the slots a comparison found different

vars == <<number, changed, out, lastLook, noticed>>

(* A network alert names no slot; the history needs to know which it is about. *)
Finding == [kind : {"networkAlert", "valueChanged"}, slot : Slots]

TypeOK ==
    /\ number \in FirstBlock..FirstBlock + MaxBlocks
    /\ changed \subseteq Slots
    /\ out \subseteq Finding
    /\ lastLook \in [Slots -> FirstBlock..FirstBlock + MaxBlocks]
    /\ noticed \subseteq Slots

Init ==
    /\ number = FirstBlock
    /\ changed = {}
    /\ out = {}
    /\ lastLook = [s \in Slots |-> FirstBlock]
    /\ noticed = {}

-----------------------------------------------------------------------------
(* Ten draws share nine parts; a bug would share them among ten.              *)
tenths == NumSlots \div 10
step == NumSlots \div 9

lotteryNum(n) == (n % 10) + 1
finish(n) == lotteryNum(n) * step
begin(n) == finish(n) - step

(* storageSlots.slice(begin, finish), or nothing past the end of the list.    *)
part(n) == IF finish(n) > NumSlots THEN {} ELSE begin(n) + 1..finish(n)

(* A failed read gives a network alert and no comparison.  A bug would let    *)
(* the missing value through as a finding of its own.                         *)
throws(s) == {[kind |-> "undefined", slot |-> s]}
networkAlert(s) == {[kind |-> "networkAlert", slot |-> s]}

(* The node's answers: unreadable slots, and arrays some of whose items it    *)
(* did not return; those are left out of the array that is compared.          *)
handleBlock ==
    /\ number < FirstBlock + MaxBlocks
    /\ number' = number + 1
    /\ \E failed \in SUBSET part(number + 1) :
       \E short \in SUBSET ((part(number + 1) \ failed) \intersect Arrays) :
          LET compared == part(number + 1) \ failed
          IN  /\ out' = UNION {networkAlert(s) : s \in failed}
              /\ noticed' = noticed \union (compared \intersect (changed \union short))
    /\ lastLook' = [s \in Slots |-> IF s \in part(number + 1) THEN number + 1 ELSE lastLook[s]]
    /\ UNCHANGED changed

(* The chain: a slot takes another value.                                     *)
change(s) ==
    /\ changed' = changed \union {s}
    /\ UNCHANGED <<number, out, lastLook, noticed>>

Next == handleBlock \/ \E s \in Slots \ changed : change(s)

Spec == Init /\ [][Next]_vars

-----------------------------------------------------------------------------
(* The watch goes round: in any ten blocks every slot is compared, or its     *)
(* read is reported as failed, though the draw has ten values for nine parts. *)
EverySlotIsVisited == \A s \in Slots : number - lastLook[s] < 10

(* README: "Storage Watcher: Storage slot value changed".  A slot that was    *)
(* found different has been reported at the latest by that block.             *)
ChangeIsReported ==
    [][\A s \in noticed' \ noticed : \E f \in out' : f.kind = "valueChanged" /\ f.slot = s]_vars
=============================================================================
