------------------------------ MODULE FloorLevel -------------------------------
(***************************************************************************)
(* What the people of a project see of one level: it is free, or it holds  *)
(* a floor, or one that was deleted and can be brought back.  The rows of  *)
(* replaced floors, their runs, purges and objects are out of sight.  All  *)
(* that is left of them are two marks on the level's state: a late step of *)
(* a replaced floor's run, which never shows while a floor is in use, and  *)
(* the start of a run by an upload that outlived its floor, which only     *)
(* shows then.  Floors implements this, and Kept, which has no such start, *)
(* as long as no upload outlives its floor.                                *)
(***************************************************************************)
EXTENDS Naturals

CONSTANT MaxRows   \* bound: how many floors the level ever gets

VARIABLES
    made,    \* floors made so far
    floor,   \* the floor in use or in its restore window, 0 without one
    at,      \* free, live or deleted
    run,     \* status of the floor's newest run
    shown    \* the pipeline state the project shows for the level

vars == <<made, floor, at, run, shown>>

Init ==
    /\ made = 0 /\ floor = 0 /\ at = "free"
    /\ run = "none" /\ shown = "none"

\* A new floor starts from nothing, and only where no floor can come back.
Create ==
    /\ at = "free"
    /\ made < MaxRows
    /\ made' = made + 1 /\ floor' = made + 1 /\ at' = "live"
    /\ run' = "none" /\ shown' = "none"

Delete ==
    /\ at = "live" /\ at' = "deleted"
    /\ UNCHANGED <<made, floor, run, shown>>

\* The undo gives back the very floor that was deleted.
Restore ==
    /\ at = "deleted" /\ at' = "live"
    /\ UNCHANGED <<made, floor, run, shown>>

Expire ==
    /\ at = "deleted"
    /\ at' = "free" /\ floor' = 0 /\ run' = "none"
    /\ UNCHANGED <<made, shown>>

StartRun ==
    /\ at = "live"
    /\ run' = "pending" /\ shown' = "pending"
    /\ UNCHANGED <<made, floor, at>>

\* Whatever the floor's own run does is shown.
RunStep(s) ==
    /\ run \in {"pending", "running"} /\ s # run
    /\ run = "pending" => s # "completed"
    /\ run' = s /\ shown' = s
    /\ UNCHANGED <<made, floor, at>>

\* A late step of a replaced floor's run.
StrayStep(s) ==
    /\ at # "live"
    /\ shown' = s
    /\ UNCHANGED <<made, floor, at, run>>

\* An upload to a replaced floor opens its run: the floor in use shows it.
StrayStart ==
    /\ at = "live" /\ made > 1
    /\ shown' = "pending"
    /\ UNCHANGED <<made, floor, at, run>>

Kept ==
    \/ Create \/ Delete \/ Restore \/ Expire \/ StartRun
    \/ \E s \in {"running", "completed", "failed"} : RunStep(s) \/ StrayStep(s)

Next == Kept \/ StrayStart

Spec == Init /\ [][Next]_vars
KeptSpec == Init /\ [][Kept]_vars
===============================================================================
