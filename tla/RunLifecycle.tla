----------------------------- MODULE RunLifecycle ------------------------------
(***************************************************************************)
(* What the pipeline promises about the runs of one floor, with no steps,  *)
(* tasks or sweeps: runs are opened one after the other, opening one ends  *)
(* every other, only the open run may publish a layer, once, and only a    *)
(* run that published can complete.  PipelineRun implements this.          *)
(***************************************************************************)
EXTENDS Naturals

CONSTANT MaxRuns   \* bound: how many runs the floor ever sees

Runs == 1..MaxRuns

VARIABLES
    opened,     \* runs 1..opened exist
    phase,      \* none, open, completed or failed
    published   \* how many times each run's layer was merged into the document

vars == <<opened, phase, published>>

Init ==
    /\ opened = 0
    /\ phase = [r \in Runs |-> "none"]
    /\ published = [r \in Runs |-> 0]

IsOpen(r) == r = opened /\ phase[r] = "open"

\* start_run: the new run replaces whatever was open.
Open ==
    /\ opened + 1 \in Runs
    /\ opened' = opened + 1
    /\ phase' = [r \in Runs |-> IF r = opened + 1 THEN "open"
                                ELSE IF phase[r] = "open" THEN "failed" ELSE phase[r]]
    /\ UNCHANGED published

\* The layer reaches the floor's document.
Publish(r) ==
    /\ IsOpen(r)
    /\ published[r] = 0
    /\ published' = [published EXCEPT ![r] = 1]
    /\ UNCHANGED <<opened, phase>>

Complete(r) ==
    /\ IsOpen(r)
    /\ published[r] = 1
    /\ phase' = [phase EXCEPT ![r] = "completed"]
    /\ UNCHANGED <<opened, published>>

Fail(r) ==
    /\ IsOpen(r)
    /\ phase' = [phase EXCEPT ![r] = "failed"]
    /\ UNCHANGED <<opened, published>>

Next == Open \/ \E r \in Runs : Publish(r) \/ Complete(r) \/ Fail(r)

Spec == Init /\ [][Next]_vars
=============================================================================
