----------------------------- MODULE JobLifecycle ------------------------------
(***************************************************************************)
(* What a training job promises, with no launches, claims, messages or     *)
(* schedules: it ends once; somebody's wish to cancel it is never answered *)
(* by a success; it succeeds with weights that are stored, and weights go  *)
(* only when the job failed or was cancelled.  TrainingJobs implements it. *)
(***************************************************************************)

CONSTANTS
    Weights,  \* what the launches of the job may train
    None      \* no weights

VARIABLES
    status,   \* queued, running, cancelling, succeeded, failed or cancelled
    result,   \* the weights its model version was registered with
    stored    \* the weights in the object storage

vars == <<status, result, stored>>

Init ==
    /\ status = "queued"
    /\ result = None
    /\ stored = {}

Open == {"queued", "running"}
Live == Open \cup {"cancelling"}

\* A first sign of life.
Begin ==
    /\ status = "queued"
    /\ status' = "running"
    /\ UNCHANGED <<result, stored>>

\* N35: nothing to wait for while the job is queued.
Cancel ==
    /\ status \in Open
    /\ status' = (IF status = "queued" THEN "cancelled" ELSE "cancelling")
    /\ UNCHANGED <<result, stored>>

Store(w) ==
    /\ stored' = stored \cup {w}
    /\ UNCHANGED <<status, result>>

Succeed(w) ==
    /\ status \in Open
    /\ w \in stored
    /\ status' = "succeeded" /\ result' = w
    /\ UNCHANGED stored

\* A report, or a schedule that found the job lost.
End(st) ==
    /\ status \in Live
    /\ status' = st
    /\ UNCHANGED <<result, stored>>

Purge ==
    /\ status \in {"failed", "cancelled"}
    /\ stored' = {}
    /\ UNCHANGED <<status, result>>

Next ==
    \/ Begin \/ Cancel \/ Purge
    \/ \E w \in Weights : Store(w) \/ Succeed(w)
    \/ End("failed") \/ End("cancelled")

Spec == Init /\ [][Next]_vars
===============================================================================
