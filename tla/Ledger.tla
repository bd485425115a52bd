------------------------------- MODULE Ledger -------------------------------
(***************************************************************************)
(* What usage accounting promises: traffic is billed some time after it    *)
(* was carried, each byte at most once, and what has been billed stays.    *)
(* The metering pipeline (Metering) implements it.                         *)
(***************************************************************************)
EXTENDS Naturals

CONSTANT Paths

VARIABLES carried,   \* path -> bytes that crossed it
          billed     \* path -> bytes in the ledger

Init == carried = [p \in Paths |-> 0] /\ billed = carried

Carry(p) ==
    /\ carried' = [carried EXCEPT ![p] = @ + 1]
    /\ UNCHANGED billed

(* Any part of what was carried and not yet billed, of any of the paths.   *)
Bill ==
    /\ DOMAIN billed' = Paths
    /\ \A p \in Paths : billed'[p] \in billed[p]..carried[p]
    /\ UNCHANGED carried

Next == Bill \/ \E p \in Paths : Carry(p)

Spec == Init /\ [][Next]_<<carried, billed>>
=============================================================================
