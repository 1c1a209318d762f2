------------------------------ MODULE PipelineRun ------------------------------
(***************************************************************************)
(* The life of the pipeline runs of one floor: every transaction that      *)
(* writes `pipeline_runs`, `pipeline_run_models` or the floor's AI layer,  *)
(* from `start_run` to the end of the last step, with the two compensating *)
(* sweeps and the soft deletion of the floor.                              *)
(*                                                                         *)
(* Every handler opens its transaction by locking the floor row and then   *)
(* the run row, so a transaction is one atomic action.  Work done outside  *)
(* a transaction splits a handler in two: `pipeline.orchestrate.start`     *)
(* (GD1 and GD2) and `pipeline.quality.run` (the read and the write).      *)
(*                                                                         *)
(* Tasks are a set that only grows: a task that was sent may be delivered  *)
(* at any later time, any number of times, or never.  That is the queue's  *)
(* promise (redelivery after a lost worker, retries, a resend by a sweep,  *)
(* and an after-commit send that fails and is only logged).  An inference  *)
(* or build worker writes only objects before it reports, so its report is *)
(* the step that its task enables.                                         *)
(*                                                                         *)
(* Runs are numbered in the order they are opened, uploads in the order    *)
(* they were created (#5), which need not be the order they complete (#7). *)
(***************************************************************************)
EXTENDS Integers

CONSTANTS
    MaxRuns,         \* bound: how many runs the floor ever sees
    RequeueMax,      \* resends of a pending run before it is stalled (6)
    StepRequeueMax   \* resends of a silent step before it times out (3)

ASSUME ConstantsAssumption ==
    /\ MaxRuns \in Nat
    /\ RequeueMax \in Nat
    /\ StepRequeueMax \in Nat

Runs == 1..MaxRuns

-----------------------------------------------------------------------------
(* PIPELINE_STEPS: six steps in order, and the running total of their weights. *)
Preprocess == 1
MlSteps == 2..4
BuildStep == 5
QualityStep == 6
Steps == 1..6

WeightThrough == [s \in Steps |-> CASE s = 1 -> 5 [] s = 2 -> 35 [] s = 3 -> 55
                                    [] s = 4 -> 70 [] s = 5 -> 90 [] OTHER -> 100]
WeightBefore == [s \in Steps |-> IF s = 1 THEN 0 ELSE WeightThrough[s - 1]]

LiveStatuses == {"pending", "running"}
FinalStatuses == {"completed", "failed"}
Statuses == LiveStatuses \cup FinalStatuses \cup {"none"}

SilentFailures == {"PIPELINE_SUPERSEDED", "FLOOR_DELETED"}
\* STEP_FAILED stands for the code a worker or the task wrapper reports.
Codes == SilentFailures \cup
         {"none", "PIPELINE_STALLED", "PIPELINE_STEP_TIMEOUT", "PIPELINE_RESULT_INVALID", "STEP_FAILED"}

\* A task names its run and, for an inference, the step it serves.
Task == [kind : {"start", "infer", "build", "persist", "quality"}, run : Runs, step : Steps]
StartTask(r) == [kind |-> "start", run |-> r, step |-> Preprocess]
InferTask(r, s) == [kind |-> "infer", run |-> r, step |-> s]
BuildTask(r) == [kind |-> "build", run |-> r, step |-> BuildStep]
PersistTask(r) == [kind |-> "persist", run |-> r, step |-> BuildStep]
QualityTask(r) == [kind |-> "quality", run |-> r, step |-> QualityStep]

VARIABLES
    opened,        \* runs 1..opened exist
    status, step, percent, code, supersededBy, uploadOf,
    requeue,       \* pipeline_runs.requeue_count
    pinned, used, persisted, stepRequeue, summary,   \* pipeline_run_models
    sent,          \* tasks handed to the broker
    prepared,      \* runs with a start delivery between GD1 and GD2
    checked,       \* runs with a quality delivery between its read and its write
    stale,         \* pending runs that a sweep listed while the floor was live, when it no longer is
    drawing,       \* the upload of the floor's current drawing, 0 for none
    layers,        \* runs whose AI layer was merged into the floor document, with how many times
    notified,      \* notifications inserted for a run (deduplicated by their key)
    floor          \* "live", "deleted" inside the restore window, or "gone"

runVars == <<opened, status, step, percent, code, supersededBy, uploadOf, requeue>>
pinVars == <<pinned, used, persisted, stepRequeue, summary>>
vars == <<runVars, pinVars, sent, prepared, checked, stale, drawing, layers, notified, floor>>

Init ==
    /\ opened = 0
    /\ status = [r \in Runs |-> "none"]
    /\ step = [r \in Runs |-> Preprocess]
    /\ percent = [r \in Runs |-> 0]
    /\ code = [r \in Runs |-> "none"]
    /\ supersededBy = [r \in Runs |-> 0]
    /\ uploadOf = [r \in Runs |-> 0]
    /\ requeue = [r \in Runs |-> 0]
    /\ pinned = [r \in Runs |-> FALSE]
    /\ used = [r \in Runs |-> {}]
    /\ persisted = [r \in Runs |-> FALSE]
    /\ stepRequeue = [r \in Runs |-> 0]
    /\ summary = [r \in Runs |-> FALSE]
    /\ sent = {}
    /\ prepared = {}
    /\ checked = {}
    /\ stale = {}
    /\ drawing = 0
    /\ layers = [r \in Runs |-> 0]
    /\ notified = [r \in Runs |-> {}]
    /\ floor = "live"

-----------------------------------------------------------------------------
(* What the handlers share.                                                      *)
(*                                                                               *)
(* Operators named ...Mutant are not part of the model: each is the definition   *)
(* that follows it with a slip, to show that a property notices.                 *)

\* Slip: results of finished runs are still taken.
UsableMutant(r) == r <= opened /\ status[r] # "none"

\* _usable: the run still takes results.
Usable(r) == /\ r <= opened
             /\ status[r] \in LiveStatuses
             /\ supersededBy[r] = 0

\* load_run_context: the floor's current drawing belongs to the run's upload.
HasContext(r) == drawing = uploadOf[r]

\* Slip: the silent codes notify too.
NotifyFailedMutant(r, c) == notified' = [notified EXCEPT ![r] = @ \cup {"aiFailed"}]

\* _notify_failed, for every code that the user did not cause.
NotifyFailed(r, c) ==
    notified' = [notified EXCEPT ![r] = IF c \in SilentFailures THEN @ ELSE @ \cup {"aiFailed"}]

\* _apply(failed) or _abandon, and what _settle adds.
Fail(r, s, c) ==
    /\ status' = [status EXCEPT ![r] = "failed"]
    /\ code' = [code EXCEPT ![r] = c]
    /\ step' = [step EXCEPT ![r] = s]
    /\ NotifyFailed(r, c)
    /\ UNCHANGED <<opened, percent, supersededBy, uploadOf, requeue>>

\* Slip: a failure of a step already behind the run is recorded.
RecordFailedMutant(r, s, c) == Usable(r) /\ Fail(r, s, c)

\* record_step(s, failed): a lost floor takes precedence over the caller's code.
RecordFailed(r, s, c) ==
    /\ Usable(r)
    /\ step[r] <= s
    /\ \/ floor = "gone" /\ Fail(r, step[r], "FLOOR_DELETED")
       \/ floor # "gone" /\ Fail(r, s, c)

\* record_step(s, completed) on a floor that can still be written.
RecordCompleted(r, s) ==
    /\ percent' = [percent EXCEPT ![r] = IF @ > WeightThrough[s] THEN @ ELSE WeightThrough[s]]
    /\ step' = [step EXCEPT ![r] = IF s = QualityStep THEN s ELSE s + 1]
    /\ status' = IF s = QualityStep THEN [status EXCEPT ![r] = "completed"] ELSE status
    /\ UNCHANGED <<opened, code, supersededBy, uploadOf, requeue>>

-----------------------------------------------------------------------------
(* Opening a run: #7 (a completed upload) and #31/#32 (a corrected page). *)

\* start_run: every live run of the floor is superseded in the same transaction.
StartRun(u) ==
    LET new == opened + 1
        superseded == {r \in Runs : status[r] \in LiveStatuses}
    IN /\ new \in Runs
       /\ opened' = new
       /\ status' = [r \in Runs |-> IF r = new THEN "pending"
                                    ELSE IF r \in superseded THEN "failed" ELSE status[r]]
       /\ code' = [r \in Runs |-> IF r \in superseded THEN "PIPELINE_SUPERSEDED" ELSE code[r]]
       /\ supersededBy' = [r \in Runs |-> IF r \in superseded THEN new ELSE supersededBy[r]]
       /\ uploadOf' = [uploadOf EXCEPT ![new] = u]
       /\ sent' = sent \cup {StartTask(new)}
       /\ UNCHANGED <<step, percent, requeue, pinVars, prepared, checked, stale, drawing, layers,
                      notified, floor>>

\* _finish: an upload completes once, whenever its chunks are all there.  It asks only for some row
\* of the level that is not deleted: a #7 that began on a floor that is gone by now finds the row
\* that took its place, or the floor of a deleted project.
CompleteUpload ==
    /\ floor \in {"live", "gone"}
    /\ \E u \in Runs : (\A r \in Runs : uploadOf[r] # u) /\ StartRun(u)

\* Run r is the latest one of the upload created last.
OfNewestUpload(r) ==
    \A q \in Runs : uploadOf[q] <= uploadOf[r] /\ (uploadOf[q] = uploadOf[r] => q <= r)

\* _newer_upload_pending: an upload created after the drawing's is being processed, or was.
NewerUploadPending ==
    \E r \in Runs : uploadOf[r] > drawing /\ OfNewestUpload(r) /\ status[r] # "failed"

\* _commit_swap: the drawing keeps its upload, so the new run finds its page ready.
SwapPage ==
    /\ floor = "live"
    /\ drawing # 0
    /\ ~NewerUploadPending
    /\ StartRun(drawing)

-----------------------------------------------------------------------------
(* pipeline.orchestrate.start *)

\* _gd1: pin the models once, enter `running`, plan the page.
StartRead(r) ==
    /\ StartTask(r) \in sent
    /\ Usable(r)
    /\ step[r] = Preprocess
    /\ pinned' = [pinned EXCEPT ![r] = TRUE]
    /\ \/ /\ status[r] = "pending" /\ floor = "gone"
          /\ Fail(r, step[r], "FLOOR_DELETED")
          /\ UNCHANGED prepared
       \/ /\ status[r] = "running" \/ floor # "gone"
          /\ status' = [status EXCEPT ![r] = "running"]
          /\ prepared' = prepared \cup {r}
          /\ UNCHANGED <<opened, step, percent, code, supersededBy, uploadOf, requeue, notified>>
    /\ UNCHANGED <<used, persisted, stepRequeue, summary, sent, checked, stale, drawing, layers, floor>>

\* Slip: an existing drawing of another upload is kept.
WritePageMutant(r) == drawing' = IF drawing = 0 THEN uploadOf[r] ELSE drawing

\* _write_page: the floor's only drawing is now of the run's upload.  A run on a page that the
\* user corrected finds the drawing written with the page, and leaves it.
WritePage(r) == drawing' = uploadOf[r]

\* _gd2: write the drawing, close the step, queue the inferences.  A run that moved on, or a
\* floor that is gone, makes `record_step` return None and the whole transaction roll back.
StartWrite(r) ==
    /\ r \in prepared
    /\ Usable(r)
    /\ step[r] = Preprocess
    /\ floor # "gone"
    /\ pinned[r]
    /\ WritePage(r)
    /\ RecordCompleted(r, Preprocess)
    /\ stepRequeue' = [stepRequeue EXCEPT ![r] = 0]
    /\ sent' = sent \cup {InferTask(r, s) : s \in MlSteps \ used[r]}
    /\ UNCHANGED <<pinned, used, persisted, summary, prepared, checked, stale, layers, notified, floor>>

\* fail_pipeline_start_core: only a run still at the first step is failed.
StartFailed(r) ==
    /\ StartTask(r) \in sent
    /\ step[r] = Preprocess
    /\ RecordFailed(r, Preprocess, "STEP_FAILED")
    /\ UNCHANGED <<pinVars, sent, prepared, checked, stale, drawing, layers, floor>>

-----------------------------------------------------------------------------
(* pipeline.orchestrate.step_done *)

\* queue_build: a drawing of another upload fails the step instead.
QueueBuild(r) ==
    \/ HasContext(r) /\ sent' = sent \cup {BuildTask(r)}
    \/ ~HasContext(r) /\ UNCHANGED sent

\* Slip: a second report of a step is taken.
ReportableMutant(r, s) == Usable(r) /\ pinned[r]

\* _live: the report is for a usable, pinned run, and its family has no result yet.
Reportable(r, s) == Usable(r) /\ pinned[r] /\ s \notin used[r]

\* Slip: the step just reported counts as the furthest one.
ReachesMutant(r, t, results) ==
    t \in MlSteps \cup {BuildStep} /\ t >= step[r] /\ t \notin results

\* The steps from the current one up to t have their results, and t has not.
Reaches(r, t, results) ==
    /\ t \in MlSteps \cup {BuildStep}
    /\ t >= step[r] /\ t \notin results
    /\ \A s \in MlSteps : step[r] <= s /\ s < t => s \in results

\* _advance: close the consecutive steps that have results; the last one queues the build.
Advance(r, results) ==
    \E t \in Steps :
       /\ Reaches(r, t, results)
       /\ \/ /\ t = step[r]
             /\ UNCHANGED <<runVars, stepRequeue, sent, notified>>
          \/ /\ t > step[r] /\ floor = "gone"
             /\ Fail(r, step[r], "FLOOR_DELETED")
             /\ UNCHANGED <<stepRequeue, sent>>
          \/ /\ t > step[r] /\ floor # "gone"
             /\ RecordCompleted(r, t - 1)
             /\ stepRequeue' = [stepRequeue EXCEPT ![r] = 0]
             /\ IF t = BuildStep THEN QueueBuild(r) ELSE UNCHANGED sent
             /\ UNCHANGED notified

\* _ml_completed then _advance: the results may come in any order.
InferCompleted(r, s) ==
    /\ InferTask(r, s) \in sent
    /\ Reportable(r, s)
    /\ HasContext(r)
    /\ used' = [used EXCEPT ![r] = @ \cup {s}]
    /\ Advance(r, used[r] \cup {s})
    /\ UNCHANGED <<pinned, persisted, summary, prepared, checked, stale, drawing, layers, floor>>

\* A failed report, a report task that ran out of deliveries, or a report whose run lost its drawing.
InferFailed(r, s) ==
    /\ InferTask(r, s) \in sent
    /\ Reportable(r, s)
    /\ \/ RecordFailed(r, s, "STEP_FAILED")
       \/ ~HasContext(r) /\ RecordFailed(r, s, "PIPELINE_RESULT_INVALID")
    /\ UNCHANGED <<pinVars, sent, prepared, checked, stale, drawing, layers, floor>>

\* _build_result(completed): only queues the persist task, which closes the step itself.
BuildCompleted(r) ==
    /\ BuildTask(r) \in sent
    /\ Usable(r) /\ pinned[r]
    /\ HasContext(r) /\ step[r] = BuildStep
    /\ ~persisted[r]
    /\ sent' = sent \cup {PersistTask(r)}
    /\ UNCHANGED <<runVars, pinVars, prepared, checked, stale, drawing, layers, notified, floor>>

\* _build_result(failed), or a completed build whose run is elsewhere or lost its drawing.
BuildFailed(r) ==
    /\ BuildTask(r) \in sent
    /\ pinned[r]
    /\ \/ RecordFailed(r, BuildStep, "STEP_FAILED")
       \/ /\ ~HasContext(r) \/ step[r] # BuildStep
          /\ RecordFailed(r, BuildStep, "PIPELINE_RESULT_INVALID")
    /\ UNCHANGED <<pinVars, sent, prepared, checked, stale, drawing, layers, floor>>

-----------------------------------------------------------------------------
(* pipeline.persist.run *)

\* Slip: a redelivered persist is not recognised.
FirstPersistMutant(r) == pinned[r]

\* _run_transaction: the layer's revision is not noted yet, so this delivery is no replay.
FirstPersist(r) == pinned[r] /\ ~persisted[r]

\* _persist: merge the AI layer, note its revision, close the step, queue the quality check.
Persist(r) ==
    /\ PersistTask(r) \in sent
    /\ Usable(r)
    /\ floor = "live"
    /\ FirstPersist(r)
    /\ layers' = [layers EXCEPT ![r] = @ + 1]
    /\ persisted' = [persisted EXCEPT ![r] = TRUE]
    /\ stepRequeue' = [stepRequeue EXCEPT ![r] = 0]
    /\ IF step[r] <= BuildStep THEN RecordCompleted(r, BuildStep) ELSE UNCHANGED runVars
    /\ notified' = [notified EXCEPT ![r] = @ \cup {"aiCompleted"}]
    /\ sent' = sent \cup {QualityTask(r)}
    /\ UNCHANGED <<pinned, used, summary, prepared, checked, stale, drawing, floor>>

\* The replay of a persist that committed: the effects that a duplicate cannot spoil.
PersistReplay(r) ==
    /\ PersistTask(r) \in sent
    /\ Usable(r)
    /\ floor = "live"
    /\ persisted[r]
    /\ notified' = [notified EXCEPT ![r] = @ \cup {"aiCompleted"}]
    /\ sent' = sent \cup {QualityTask(r)}
    /\ UNCHANGED <<runVars, pinVars, prepared, checked, stale, drawing, layers, floor>>

\* fail_step, and the branch of a floor that is gone.  (Inside the restore window the
\* transaction rolls back and the sweep tries again.)
PersistFailed(r) ==
    /\ PersistTask(r) \in sent
    /\ RecordFailed(r, BuildStep, "STEP_FAILED")
    /\ UNCHANGED <<pinVars, sent, prepared, checked, stale, drawing, layers, floor>>

-----------------------------------------------------------------------------
(* pipeline.quality.run *)

\* _phase_one: read the written layer; the transaction is rolled back and the report stored.
QualityRead(r) ==
    /\ QualityTask(r) \in sent
    /\ Usable(r)
    /\ pinned[r] /\ persisted[r]
    /\ checked' = checked \cup {r}
    /\ UNCHANGED <<runVars, pinVars, sent, prepared, stale, drawing, layers, notified, floor>>

\* The summary is recorded before the step, in one transaction, and kept even if the floor is gone.
QualityWrite(r) ==
    /\ r \in checked
    /\ Usable(r)
    /\ summary' = [summary EXCEPT ![r] = TRUE]
    /\ \/ floor = "gone" /\ Fail(r, step[r], "FLOOR_DELETED")
       \/ floor # "gone" /\ RecordCompleted(r, QualityStep) /\ UNCHANGED notified
    /\ UNCHANGED <<pinned, used, persisted, stepRequeue, sent, prepared, checked, stale, drawing, layers, floor>>

QualityFailed(r) ==
    /\ QualityTask(r) \in sent
    /\ RecordFailed(r, QualityStep, "STEP_FAILED")
    /\ UNCHANGED <<pinVars, sent, prepared, checked, stale, drawing, layers, floor>>

-----------------------------------------------------------------------------
(* The sweeps.  Their idle windows are abstracted: any moment may be late enough. *)

\* The tasks that redo the run's current step.
Redo(r) ==
    CASE step[r] = Preprocess -> {StartTask(r)}
      [] step[r] = BuildStep -> {BuildTask(r)}
      [] step[r] = QualityStep -> {QualityTask(r)}
      [] OTHER -> {InferTask(r, s) : s \in MlSteps \ used[r]}

NeedsContext(r) == step[r] \in MlSteps \cup {BuildStep}

\* _requeue_body below the cap: count the resend, then redo the step.
SweepResend(r) ==
    /\ Usable(r) /\ status[r] = "running" /\ pinned[r]
    /\ stepRequeue[r] < StepRequeueMax
    /\ stepRequeue' = [stepRequeue EXCEPT ![r] = @ + 1]
    /\ \/ /\ NeedsContext(r) => HasContext(r)
          /\ sent' = sent \cup Redo(r)
          /\ UNCHANGED <<runVars, notified>>
       \/ /\ NeedsContext(r) /\ ~HasContext(r)
          /\ RecordFailed(r, step[r], "PIPELINE_RESULT_INVALID")
          /\ UNCHANGED sent
    /\ UNCHANGED <<pinned, used, persisted, summary, prepared, checked, stale, drawing, layers, floor>>

\* Slip: the cap is compared with `>`.
SweepTimeoutMutant(r) ==
    /\ status[r] = "running" /\ pinned[r]
    /\ stepRequeue[r] > StepRequeueMax
    /\ RecordFailed(r, step[r], "PIPELINE_STEP_TIMEOUT")
    /\ UNCHANGED <<pinVars, sent, prepared, checked, stale, drawing, layers, floor>>

\* _requeue_body at the cap.
SweepTimeout(r) ==
    /\ status[r] = "running" /\ pinned[r]
    /\ stepRequeue[r] >= StepRequeueMax
    /\ RecordFailed(r, step[r], "PIPELINE_STEP_TIMEOUT")
    /\ UNCHANGED <<pinVars, sent, prepared, checked, stale, drawing, layers, floor>>

\* Slip: one resend too many.
MayRequeueMutant(r) == requeue[r] <= RequeueMax

\* _requeue_one: below the cap the start is sent again.
MayRequeue(r) == requeue[r] < RequeueMax

\* _stale_batch lists the pending runs of a floor that is not deleted, and _requeue_one takes
\* each under its locks if nothing happened to it (_unchanged), whatever happened to the floor.
TakeStale(r) ==
    /\ floor = "live" \/ r \in stale
    /\ Usable(r) /\ status[r] = "pending"
    /\ stale' = stale \ {r}

RequeuePending(r) ==
    /\ TakeStale(r)
    /\ MayRequeue(r)
    /\ requeue' = [requeue EXCEPT ![r] = @ + 1]
    /\ sent' = sent \cup {StartTask(r)}
    /\ UNCHANGED <<opened, status, step, percent, code, supersededBy, uploadOf, pinVars,
                   prepared, checked, drawing, layers, notified, floor>>

\* Slip: the cap is compared with `>`.
StallPendingMutant(r) ==
    /\ TakeStale(r)
    /\ requeue[r] > RequeueMax
    /\ Fail(r, step[r], "PIPELINE_STALLED")
    /\ UNCHANGED <<pinVars, sent, prepared, checked, drawing, layers, floor>>

StallPending(r) ==
    /\ TakeStale(r)
    /\ requeue[r] >= RequeueMax
    /\ Fail(r, step[r], "PIPELINE_STALLED")
    /\ UNCHANGED <<pinVars, sent, prepared, checked, drawing, layers, floor>>

-----------------------------------------------------------------------------
(* The floor: soft deletion, the undo inside the restore window, and its end      *)
(* (the window elapses, or the whole project is deleted).                         *)

others == <<runVars, pinVars, sent, prepared, checked, drawing, layers, notified>>

\* The sweep may have listed the floor's pending run just before it stopped being live.
LeaveLive ==
    /\ floor = "live"
    /\ stale' \in SUBSET {r \in Runs : Usable(r) /\ status[r] = "pending"}

DeleteFloor == LeaveLive /\ floor' = "deleted" /\ UNCHANGED others

RestoreFloor == floor = "deleted" /\ floor' = "live" /\ stale' = {} /\ UNCHANGED others

LoseFloor ==
    /\ LeaveLive \/ (floor = "deleted" /\ UNCHANGED stale)
    /\ floor' = "gone"
    /\ UNCHANGED others

-----------------------------------------------------------------------------
Handlers(r) ==
    \/ StartRead(r) \/ StartWrite(r) \/ StartFailed(r)
    \/ \E s \in MlSteps : InferCompleted(r, s) \/ InferFailed(r, s)
    \/ BuildCompleted(r) \/ BuildFailed(r)
    \/ Persist(r) \/ PersistReplay(r) \/ PersistFailed(r)
    \/ QualityRead(r) \/ QualityWrite(r) \/ QualityFailed(r)

Sweeps(r) == SweepResend(r) \/ SweepTimeout(r) \/ RequeuePending(r) \/ StallPending(r)

Next ==
    \/ CompleteUpload \/ SwapPage
    \/ DeleteFloor \/ RestoreFloor \/ LoseFloor
    \/ \E r \in Runs : Handlers(r) \/ Sweeps(r)

Spec == Init /\ [][Next]_vars

\* Only the schedules are fair: both sweeps run for ever, while no task is ever sure to arrive.
Fairness == \A r \in Runs : WF_vars(Sweeps(r))
FairSpec == Spec /\ Fairness

-----------------------------------------------------------------------------
(* Properties *)

\* The type invariant: both resend counters stay within the caps of the two sweeps.
TypeOK ==
    /\ opened \in 0..MaxRuns
    /\ status \in [Runs -> Statuses]
    /\ step \in [Runs -> Steps]
    /\ percent \in [Runs -> 0..100]
    /\ code \in [Runs -> Codes]
    /\ supersededBy \in [Runs -> 0..MaxRuns]
    /\ uploadOf \in [Runs -> 0..MaxRuns]
    /\ requeue \in [Runs -> 0..RequeueMax]
    /\ pinned \in [Runs -> BOOLEAN]
    /\ used \in [Runs -> SUBSET MlSteps]
    /\ persisted \in [Runs -> BOOLEAN]
    /\ stepRequeue \in [Runs -> 0..StepRequeueMax]
    /\ summary \in [Runs -> BOOLEAN]
    /\ sent \subseteq Task
    /\ prepared \subseteq Runs
    /\ checked \subseteq Runs
    /\ stale \subseteq Runs
    /\ drawing \in 0..MaxRuns
    /\ layers \in [Runs -> Nat]
    /\ notified \in [Runs -> SUBSET {"aiFailed", "aiCompleted"}]
    /\ floor \in {"live", "deleted", "gone"}

\* At most one run of a floor is live, and it is the newest: opening a run leaves no other one
\* that could still take a result (start_run, _usable).
OnlyNewestLives == \A r \in Runs : status[r] \in LiveStatuses => r = opened /\ supersededBy[r] = 0

\* A completed run has the results of all three inferences, wrote the floor's layer and has a
\* quality summary, however its results were reordered, repeated or resent.
CompletedIsEarned ==
    \A r \in Runs : status[r] = "completed" =>
        used[r] = MlSteps /\ persisted[r] /\ summary[r] /\ percent[r] = 100

\* While a run is live its current step is exactly as far as its evidence: inference results for
\* every step behind it, the layer written if and only if it is at the quality check.
StepMatchesEvidence ==
    \A r \in Runs : status[r] \in LiveStatuses =>
        /\ \A s \in MlSteps : s < step[r] => s \in used[r]
        /\ step[r] = QualityStep <=> persisted[r]
        /\ percent[r] = WeightBefore[step[r]]

\* A live run past its first step owns the floor's drawing, so load_run_context never fails it.
LiveRunOwnsDrawing ==
    \A r \in Runs : status[r] \in LiveStatuses /\ step[r] # Preprocess => HasContext(r)

\* Each task sent has the committed state that its handler needs, however late, often or out of
\* order the tasks before it came.
TasksAreJustified ==
    \A t \in sent :
        /\ t.kind # "start" => pinned[t.run]
        /\ t.kind \in {"build", "persist"} => used[t.run] = MlSteps
        /\ t.kind = "quality" => persisted[t.run]

\* The layer of a run is merged into the floor's document exactly once if its revision was noted,
\* and never otherwise, with any number of persist deliveries (J06, J10).
LayerWrittenOnce == \A r \in Runs : layers[r] = IF persisted[r] THEN 1 ELSE 0

\* A late failure of an inference does not kill a run that already holds its result (_live).
FailureIsCurrent ==
    \A r \in Runs : code[r] = "STEP_FAILED" /\ step[r] \in MlSteps => step[r] \notin used[r]

\* The uploader hears of a failure exactly when the run failed for a reason they did not cause,
\* and of a completion exactly when the layer is in the document (FIX-P0-12).
NotifiedOfTheTruth ==
    \A r \in Runs :
        /\ "aiFailed" \in notified[r] <=> status[r] = "failed" /\ code[r] \notin SilentFailures
        /\ "aiCompleted" \in notified[r] <=> persisted[r]

\* A finished run is never touched again by a late task, a sweep or a newer run.
FinalIsFinal ==
    [][\A r \in Runs : status[r] \in FinalStatuses =>
          /\ status'[r] = status[r] /\ step'[r] = step[r] /\ code'[r] = code[r]
          /\ percent'[r] = percent[r] /\ used'[r] = used[r] /\ summary'[r] = summary[r]
          /\ layers'[r] = layers[r] /\ notified'[r] = notified[r]]_vars

\* A run never goes back: neither its step nor its percentage, even when it fails.
ProgressNeverBack ==
    [][\A r \in Runs : step'[r] >= step[r] /\ percent'[r] >= percent[r]]_vars

\* A run as RunLifecycle sees it.
Phase(r) == IF status[r] \in LiveStatuses THEN "open" ELSE status[r]

Lifecycle == INSTANCE RunLifecycle
    WITH phase <- [r \in Runs |-> Phase(r)], published <- layers

\* The steps, tasks and sweeps implement the lifecycle: a layer is merged once, only by the newest
\* run and only while it is live, so that an older run's result never lands on a newer one's.
ImplementsLifecycle == Lifecycle!Spec

\* With only the sweeps to rely on, every live run of a floor that stays finishes: no task has to
\* arrive.
LiveRunEnds ==
    \A r \in Runs : status[r] \in LiveStatuses ~> status[r] \in FinalStatuses \/ floor # "live"

\* A run that a worker entered finishes even on a floor that is deleted or gone.
RunningRunEnds ==
    \A r \in Runs : status[r] = "running" ~> status[r] \in FinalStatuses

\* docs/charter/BE-00.md:339 of every function and schedule of the pipeline: on a floor past its
\* restore window, or of a deleted project, the run becomes `failed` FLOOR_DELETED.
GoneFloorEndsItsRuns ==
    \A r \in Runs : status[r] \in LiveStatuses /\ floor = "gone" ~> status[r] \in FinalStatuses

\* apps/api/quality/service.py:92: correcting a page (#31, #32) must not replace the run of an
\* upload being processed that is newer than the drawing: only a newer upload's own completion,
\* or a correction of the same upload, does.
NewUploadKeepsItsRun ==
    [][\A r \in Runs : status[r] \in LiveStatuses /\ supersededBy'[r] # 0 =>
          uploadOf'[opened'] = uploadOf[r] \/ \A q \in Runs : uploadOf[q] # uploadOf'[opened']]_vars
=============================================================================
