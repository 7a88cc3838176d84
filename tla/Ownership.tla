----------------------------- MODULE Ownership -----------------------------
(***************************************************************************)
(* What native objects and native functions promise of the C++ objects     *)
(* behind them: one is made, has one owner at a time, first the C++ code   *)
(* that makes it, then the script object that it is loaded into, and is    *)
(* deleted once, by that owner. A native function is an exception: while   *)
(* it is being made the C++ code and a parent object share it, and each    *)
(* deletes it if that fails.                                               *)
(***************************************************************************)

CONSTANT Natives     \* the C++ objects

VARIABLE owner       \* who has to delete each

(***************************************************************************)
(* Nothing is made.                                                        *)
(***************************************************************************)
Init == owner = [n \in Natives |-> "unborn"]

(***************************************************************************)
(* The owner of n goes from one stage of its life to a later one.          *)
(***************************************************************************)
Goes(n, from, to) ==
    /\ owner[n] = from
    /\ owner' = [owner EXCEPT ![n] = to]

Make(n) == Goes(n, "unborn", "cpp")
Load(n) == Goes(n, "cpp", "script")
Delete(n) == Goes(n, "cpp", "deleted") \/ Goes(n, "script", "deleted")

(***************************************************************************)
(* A native function: the parent object has it, too. It is made, and then  *)
(* is as other objects are, or that fails, and what one of the two owners  *)
(* has deleted the other one may delete again.                             *)
(***************************************************************************)
Share(n) == Goes(n, "unborn", "shared")
Connect(n) == Goes(n, "shared", "script")
Abandon(n) == Goes(n, "shared", "abandoned")
DeleteAgain(n) == Goes(n, "abandoned", "twice")

Next ==
    \E n \in Natives :
        \/ Make(n) \/ Load(n) \/ Delete(n)
        \/ Share(n) \/ Connect(n) \/ Abandon(n) \/ DeleteAgain(n)

Spec == Init /\ [][Next]_owner
=============================================================================
