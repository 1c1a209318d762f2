--------------------------- MODULE PipelineRun_proofs ---------------------------
(***************************************************************************)
(* Proofs about PipelineRun for every number of runs and every cap of the  *)
(* two sweeps.  The typing comes first: the caps of the resend counters    *)
(* are part of it.                                                         *)
(***************************************************************************)
EXTENDS PipelineRun, TLAPS

-----------------------------------------------------------------------------
(* Typing *)

LEMMA RunsAreIntegers == Runs \subseteq Int /\ \A r \in Runs : r \in 1..MaxRuns
BY ConstantsAssumption DEF Runs

LEMMA WeightsType ==
    /\ WeightThrough \in [Steps -> 0..100]
    /\ WeightBefore \in [Steps -> 0..100]
<1>1. WeightThrough \in [Steps -> 0..100]
  BY DEF WeightThrough, Steps
<1>2. \A s \in Steps : s # 1 => s - 1 \in Steps
  BY DEF Steps
<1> QED
  BY <1>1, <1>2 DEF WeightBefore

LEMMA FailType ==
    ASSUME TypeOK, NEW r \in Runs, NEW s \in Steps, NEW c \in Codes, Fail(r, s, c)
    PROVE  /\ status' \in [Runs -> Statuses] /\ code' \in [Runs -> Codes] /\ step' \in [Runs -> Steps]
           /\ notified' \in [Runs -> SUBSET {"aiFailed", "aiCompleted"}]
           /\ UNCHANGED <<opened, percent, supersededBy, uploadOf, requeue>>
BY DEF TypeOK, Fail, NotifyFailed, Statuses, LiveStatuses, FinalStatuses

LEMMA RecordFailedType ==
    ASSUME TypeOK, NEW r \in Runs, NEW s \in Steps, NEW c \in Codes, RecordFailed(r, s, c)
    PROVE  /\ status' \in [Runs -> Statuses] /\ code' \in [Runs -> Codes] /\ step' \in [Runs -> Steps]
           /\ notified' \in [Runs -> SUBSET {"aiFailed", "aiCompleted"}]
           /\ UNCHANGED <<opened, percent, supersededBy, uploadOf, requeue>>
<1>1. step[r] \in Steps /\ "FLOOR_DELETED" \in Codes
  BY DEF TypeOK, Codes, SilentFailures
<1> QED
  BY <1>1, FailType DEF RecordFailed

LEMMA RecordCompletedType ==
    ASSUME TypeOK, NEW r \in Runs, NEW s \in Steps, RecordCompleted(r, s)
    PROVE  /\ status' \in [Runs -> Statuses] /\ step' \in [Runs -> Steps] /\ percent' \in [Runs -> 0..100]
           /\ UNCHANGED <<opened, code, supersededBy, uploadOf, requeue>>
<1>1. WeightThrough[s] \in 0..100
  BY WeightsType
<1>2. s # QualityStep => s + 1 \in Steps
  BY DEF Steps, QualityStep
<1> QED
  BY <1>1, <1>2 DEF TypeOK, RecordCompleted, Statuses, FinalStatuses

\* The tasks that the actions send are tasks.
LEMMA TasksType ==
    ASSUME NEW r \in Runs
    PROVE  /\ StartTask(r) \in Task /\ BuildTask(r) \in Task
           /\ PersistTask(r) \in Task /\ QualityTask(r) \in Task
           /\ \A s \in MlSteps : InferTask(r, s) \in Task
<1>1. MlSteps \subseteq Steps /\ Preprocess \in Steps /\ BuildStep \in Steps /\ QualityStep \in Steps
  BY DEF MlSteps, Steps, Preprocess, BuildStep, QualityStep
<1> QED
  BY <1>1 DEF Task, StartTask, InferTask, BuildTask, PersistTask, QualityTask

LEMMA RedoType ==
    ASSUME TypeOK, NEW r \in Runs
    PROVE  Redo(r) \subseteq Task
BY TasksType DEF Redo

LEMMA TypeInit == Init => TypeOK
BY ConstantsAssumption DEF Init, TypeOK, Statuses, Codes, SilentFailures, Steps, Preprocess

LEMMA StartRunType ==
    ASSUME TypeOK, NEW u \in Runs, StartRun(u)
    PROVE  TypeOK'
<1>1. opened + 1 \in Runs /\ opened + 1 \in 0..MaxRuns /\ u \in 0..MaxRuns
  BY ConstantsAssumption DEF StartRun, Runs, TypeOK
<1>2. sent' \subseteq Task
  BY <1>1, TasksType DEF TypeOK, StartRun
<1>3. /\ status' \in [Runs -> Statuses] /\ code' \in [Runs -> Codes]
      /\ supersededBy' \in [Runs -> 0..MaxRuns] /\ uploadOf' \in [Runs -> 0..MaxRuns]
      /\ opened' \in 0..MaxRuns
  BY <1>1 DEF TypeOK, StartRun, Statuses, LiveStatuses, FinalStatuses, Codes, SilentFailures
<1> QED
  BY <1>2, <1>3 DEF TypeOK, StartRun, pinVars

\* Every action keeps the types, so both resend counters stay within their caps.
LEMMA TypeNext == TypeOK /\ [Next]_vars => TypeOK'
<1> SUFFICES ASSUME TypeOK, [Next]_vars PROVE TypeOK'
  OBVIOUS
<1> USE ConstantsAssumption
<1>0. /\ Preprocess \in Steps /\ BuildStep \in Steps /\ QualityStep \in Steps
      /\ MlSteps \subseteq Steps
      /\ {"FLOOR_DELETED", "STEP_FAILED", "PIPELINE_RESULT_INVALID",
          "PIPELINE_STEP_TIMEOUT", "PIPELINE_STALLED"} \subseteq Codes
  BY DEF Steps, MlSteps, Preprocess, BuildStep, QualityStep, Codes, SilentFailures
<1>1. CASE CompleteUpload
  BY <1>1, StartRunType DEF CompleteUpload
<1>2. CASE SwapPage
  <2>1. drawing \in Runs
    BY <1>2 DEF SwapPage, TypeOK, Runs
  <2> QED
    BY <1>2, <2>1, StartRunType DEF SwapPage
<1>3. CASE DeleteFloor \/ RestoreFloor \/ LoseFloor
  BY <1>3 DEF TypeOK, DeleteFloor, RestoreFloor, LoseFloor, LeaveLive, others, runVars, pinVars
<1>4. ASSUME NEW r \in Runs, Handlers(r) \/ Sweeps(r) PROVE TypeOK'
  <2>s. step[r] \in Steps
    BY DEF TypeOK
  <2>1. CASE StartRead(r)
    <3>1. CASE Fail(r, step[r], "FLOOR_DELETED") /\ UNCHANGED prepared
      BY <1>0, <2>s, <2>1, <3>1, FailType DEF StartRead, TypeOK
    <3>2. CASE ~(Fail(r, step[r], "FLOOR_DELETED") /\ UNCHANGED prepared)
      BY <2>1, <3>2 DEF StartRead, TypeOK, Statuses, LiveStatuses
    <3> QED BY <3>1, <3>2
  <2>2. CASE StartWrite(r)
    <3>1. uploadOf[r] \in 0..MaxRuns /\ 0 \in 0..StepRequeueMax
      BY DEF TypeOK
    <3>2. sent' \subseteq Task
      BY <2>2, TasksType DEF StartWrite, TypeOK
    <3> QED
      BY <1>0, <2>2, <3>1, <3>2, RecordCompletedType DEF StartWrite, WritePage, TypeOK
  <2>3. CASE StartFailed(r)
    BY <1>0, <2>3, RecordFailedType DEF StartFailed, TypeOK, pinVars
  <2>4. ASSUME NEW s \in MlSteps, InferCompleted(r, s) PROVE TypeOK'
    <3>1. used' \in [Runs -> SUBSET MlSteps]
      BY <2>4 DEF InferCompleted, TypeOK
    <3>2. PICK t \in Steps : /\ Reaches(r, t, used[r] \cup {s})
                             /\ \/ t = step[r] /\ UNCHANGED <<runVars, stepRequeue, sent, notified>>
                                \/ /\ Fail(r, step[r], "FLOOR_DELETED")
                                   /\ UNCHANGED <<stepRequeue, sent>>
                                \/ /\ t > step[r] /\ RecordCompleted(r, t - 1)
                                   /\ stepRequeue' = [stepRequeue EXCEPT ![r] = 0]
                                   /\ IF t = BuildStep THEN QueueBuild(r) ELSE UNCHANGED sent
                                   /\ UNCHANGED notified
      BY <2>4 DEF InferCompleted, Advance
    <3>3. CASE t = step[r] /\ UNCHANGED <<runVars, stepRequeue, sent, notified>>
      BY <2>4, <3>1, <3>3 DEF InferCompleted, TypeOK, runVars
    <3>4. CASE Fail(r, step[r], "FLOOR_DELETED") /\ UNCHANGED <<stepRequeue, sent>>
      BY <1>0, <2>s, <2>4, <3>1, <3>4, FailType DEF InferCompleted, TypeOK
    <3>5. CASE /\ t > step[r] /\ RecordCompleted(r, t - 1)
               /\ stepRequeue' = [stepRequeue EXCEPT ![r] = 0]
               /\ IF t = BuildStep THEN QueueBuild(r) ELSE UNCHANGED sent
               /\ UNCHANGED notified
      <4>1. t - 1 \in Steps
        BY <2>s, <3>5 DEF Steps
      <4>2. sent' \subseteq Task
        BY <3>5, TasksType DEF QueueBuild, TypeOK
      <4>3. stepRequeue' \in [Runs -> 0..StepRequeueMax]
        BY <3>5 DEF TypeOK
      <4> QED
        BY <2>4, <3>1, <3>5, <4>1, <4>2, <4>3, RecordCompletedType DEF InferCompleted, TypeOK
    <3> QED BY <3>2, <3>3, <3>4, <3>5
  <2>5. ASSUME NEW s \in MlSteps, InferFailed(r, s) PROVE TypeOK'
    BY <1>0, <2>5, RecordFailedType DEF InferFailed, TypeOK, pinVars
  <2>6. CASE BuildCompleted(r)
    BY <2>6, TasksType DEF BuildCompleted, TypeOK, runVars, pinVars
  <2>7. CASE BuildFailed(r)
    BY <1>0, <2>7, RecordFailedType DEF BuildFailed, TypeOK, pinVars
  <2>8. CASE Persist(r)
    <3>1. /\ layers' \in [Runs -> Nat] /\ persisted' \in [Runs -> BOOLEAN]
          /\ stepRequeue' \in [Runs -> 0..StepRequeueMax]
          /\ notified' \in [Runs -> SUBSET {"aiFailed", "aiCompleted"}]
      BY <2>8 DEF Persist, TypeOK
    <3>2. sent' \subseteq Task
      BY <2>8, TasksType DEF Persist, TypeOK
    <3>3. CASE RecordCompleted(r, BuildStep)
      BY <1>0, <2>8, <3>1, <3>2, <3>3, RecordCompletedType DEF Persist, TypeOK
    <3>4. CASE UNCHANGED runVars
      BY <2>8, <3>1, <3>2, <3>4 DEF Persist, TypeOK, runVars
    <3> QED BY <2>8, <3>3, <3>4 DEF Persist
  <2>9. CASE PersistReplay(r)
    BY <2>9, TasksType DEF PersistReplay, TypeOK, runVars, pinVars
  <2>10. CASE PersistFailed(r)
    BY <1>0, <2>10, RecordFailedType DEF PersistFailed, TypeOK, pinVars
  <2>11. CASE QualityRead(r)
    BY <2>11 DEF QualityRead, TypeOK, runVars, pinVars
  <2>12. CASE QualityWrite(r)
    <3>1. summary' \in [Runs -> BOOLEAN]
      BY <2>12 DEF QualityWrite, TypeOK
    <3>2. CASE Fail(r, step[r], "FLOOR_DELETED")
      BY <1>0, <2>s, <2>12, <3>1, <3>2, FailType DEF QualityWrite, TypeOK
    <3>3. CASE RecordCompleted(r, QualityStep) /\ UNCHANGED notified
      BY <1>0, <2>12, <3>1, <3>3, RecordCompletedType DEF QualityWrite, TypeOK
    <3> QED BY <2>12, <3>2, <3>3 DEF QualityWrite
  <2>13. CASE QualityFailed(r)
    BY <1>0, <2>13, RecordFailedType DEF QualityFailed, TypeOK, pinVars
  <2>14. CASE SweepResend(r)
    <3>1. stepRequeue' \in [Runs -> 0..StepRequeueMax]
      BY <2>14 DEF SweepResend, TypeOK
    <3>2. CASE sent' = sent \cup Redo(r) /\ UNCHANGED <<runVars, notified>>
      <4>1. sent' \subseteq Task
        BY <3>2, RedoType DEF TypeOK
      <4> QED BY <2>14, <3>1, <3>2, <4>1 DEF SweepResend, TypeOK, runVars
    <3>3. CASE RecordFailed(r, step[r], "PIPELINE_RESULT_INVALID") /\ UNCHANGED sent
      BY <1>0, <2>s, <2>14, <3>1, <3>3, RecordFailedType DEF SweepResend, TypeOK
    <3> QED BY <2>14, <3>2, <3>3 DEF SweepResend
  <2>15. CASE SweepTimeout(r)
    BY <1>0, <2>s, <2>15, RecordFailedType DEF SweepTimeout, TypeOK, pinVars
  <2>16. CASE RequeuePending(r)
    BY <2>16, TasksType DEF RequeuePending, TakeStale, MayRequeue, TypeOK, pinVars
  <2>17. CASE StallPending(r)
    BY <1>0, <2>s, <2>17, FailType DEF StallPending, TakeStale, TypeOK, pinVars
  <2> QED
    BY <1>4, <2>1, <2>2, <2>3, <2>4, <2>5, <2>6, <2>7, <2>8, <2>9, <2>10, <2>11, <2>12, <2>13,
       <2>14, <2>15, <2>16, <2>17 DEF Handlers, Sweeps
<1>5. CASE UNCHANGED vars
  BY <1>5 DEF vars, TypeOK, runVars, pinVars
<1> QED
  BY <1>1, <1>2, <1>3, <1>4, <1>5 DEF Next

\* The typing is an invariant: no run is resent more often than the caps of the two sweeps allow.
THEOREM TypeCorrect == Spec => []TypeOK
BY TypeInit, TypeNext, PTL DEF Spec

-----------------------------------------------------------------------------
(* The inductive invariant: the safety invariants of PipelineRun support one   *)
(* another, and need four facts more.                                          *)

\* A number that no run has yet stands for nothing.
Fresh ==
    \A r \in Runs :
        /\ status[r] = "none" <=> r > opened
        /\ r > opened => /\ step[r] = Preprocess /\ percent[r] = 0 /\ code[r] = "none"
                         /\ supersededBy[r] = 0 /\ ~persisted[r]

\* A live run has failed for no reason yet.
LiveHasNoCode == \A r \in Runs : status[r] \in LiveStatuses => code[r] = "none"

\* The quality check only reads a layer that was written.
CheckedIsWritten == \A r \in checked : persisted[r]

\* Only the start is queued for a run that is still at its first step.
TasksFollowStart == \A t \in sent : t.kind # "start" => step[t.run] # Preprocess

IInv ==
    /\ TypeOK /\ Fresh /\ LiveHasNoCode /\ CheckedIsWritten /\ TasksFollowStart
    /\ OnlyNewestLives /\ StepMatchesEvidence /\ CompletedIsEarned /\ LiveRunOwnsDrawing
    /\ TasksAreJustified /\ LayerWrittenOnce /\ FailureIsCurrent /\ NotifiedOfTheTruth

\* What the invariant says depends on nothing else.
LEMMA IInvFrame ==
    ASSUME IInv, TypeOK', UNCHANGED runVars, UNCHANGED <<pinned, used, persisted, summary>>,
           UNCHANGED <<sent, checked, drawing, layers, notified>>
    PROVE  IInv'
BY DEF IInv, Fresh, LiveHasNoCode, CheckedIsWritten, TasksFollowStart, OnlyNewestLives,
       StepMatchesEvidence, CompletedIsEarned, LiveRunOwnsDrawing, HasContext, TasksAreJustified,
       LayerWrittenOnce, FailureIsCurrent, NotifiedOfTheTruth, runVars

LEMMA IInvInit == Init => IInv
<1> SUFFICES ASSUME Init PROVE IInv
  OBVIOUS
<1>1. TypeOK
  BY TypeInit
<1>2. WeightBefore[1] = 0 /\ \A s \in MlSteps : ~(s < 1)
  BY DEF WeightBefore, Steps, MlSteps
<1>3. /\ Fresh /\ LiveHasNoCode /\ CheckedIsWritten /\ OnlyNewestLives
      /\ TasksAreJustified /\ TasksFollowStart
  BY DEF Init, Fresh, LiveHasNoCode, CheckedIsWritten, OnlyNewestLives, LiveStatuses, Preprocess,
         TasksAreJustified, TasksFollowStart, Runs
<1>4. StepMatchesEvidence /\ CompletedIsEarned /\ LiveRunOwnsDrawing /\ LayerWrittenOnce
  BY DEF Init, StepMatchesEvidence, CompletedIsEarned, LiveRunOwnsDrawing, LayerWrittenOnce,
         LiveStatuses
<1>5. FailureIsCurrent /\ NotifiedOfTheTruth
  BY DEF Init, FailureIsCurrent, NotifiedOfTheTruth
<1> QED
  BY <1>1, <1>3, <1>4, <1>5 DEF IInv

\* A live run that fails keeps the invariant, if the failed step has no result of its own.
LEMMA FailKeeps ==
    ASSUME IInv, TypeOK', NEW r \in Runs, NEW s \in Steps, NEW c \in Codes \ {"none", "PIPELINE_SUPERSEDED"},
           Usable(r), Fail(r, s, c), step[r] <= s, c = "STEP_FAILED" /\ s \in MlSteps => s \notin used[r],
           \A q \in Runs \ {r} : summary'[q] = summary[q], \A q \in Runs : pinned[q] => pinned'[q],
           UNCHANGED <<used, persisted, sent, checked, drawing, layers>>
    PROVE  IInv'
<1>1. /\ status[r] \in LiveStatuses /\ r <= opened
      /\ status' = [status EXCEPT ![r] = "failed"] /\ code' = [code EXCEPT ![r] = c]
      /\ step' = [step EXCEPT ![r] = s]
      /\ notified' = [notified EXCEPT ![r] = IF c \in SilentFailures THEN @ ELSE @ \cup {"aiFailed"}]
      /\ UNCHANGED <<opened, percent, supersededBy, uploadOf>>
  BY DEF Usable, Fail, NotifyFailed
<1>2. /\ status'[r] = "failed" /\ code'[r] = c /\ step'[r] = s
      /\ \A q \in Runs \ {r} : /\ status'[q] = status[q] /\ code'[q] = code[q] /\ step'[q] = step[q]
                               /\ notified'[q] = notified[q]
  BY <1>1 DEF IInv, TypeOK
<1>3. Fresh' /\ LiveHasNoCode' /\ CheckedIsWritten' /\ OnlyNewestLives'
  BY <1>1, <1>2, RunsAreIntegers DEF IInv, TypeOK, Fresh, LiveHasNoCode, CheckedIsWritten,
                                     OnlyNewestLives, LiveStatuses
<1>4. /\ StepMatchesEvidence' /\ CompletedIsEarned' /\ LiveRunOwnsDrawing'
      /\ TasksAreJustified' /\ LayerWrittenOnce'
  BY <1>1, <1>2 DEF IInv, TypeOK, StepMatchesEvidence, CompletedIsEarned, LiveRunOwnsDrawing,
                    HasContext, TasksAreJustified, Task, LayerWrittenOnce, LiveStatuses
<1>5. FailureIsCurrent' /\ TasksFollowStart'
  <2>1. \A q \in Runs : step[q] # Preprocess => step'[q] # Preprocess
    BY <1>2 DEF IInv, TypeOK, Steps, Preprocess
  <2> QED
    BY <1>2, <2>1 DEF IInv, TypeOK, FailureIsCurrent, TasksFollowStart, Task
<1>6. NotifiedOfTheTruth'
  BY <1>1, <1>2 DEF IInv, TypeOK, NotifiedOfTheTruth, LiveStatuses
<1> QED
  BY <1>3, <1>4, <1>5, <1>6 DEF IInv

\* `record_step(failed)` keeps it, whether or not the floor is gone: a live run whose floor is gone
\* fails at its own step, with a code that says nothing of a result.
LEMMA RecordFailedKeeps ==
    ASSUME IInv, TypeOK', NEW r \in Runs, NEW s \in Steps, NEW c \in Codes \ {"none", "PIPELINE_SUPERSEDED"},
           RecordFailed(r, s, c), c = "STEP_FAILED" /\ s \in MlSteps => s \notin used[r],
           UNCHANGED <<pinned, used, persisted, summary, sent, checked, drawing, layers>>
    PROVE  IInv'
<1>1. step[r] \in Steps /\ "FLOOR_DELETED" \in Codes \ {"none", "PIPELINE_SUPERSEDED"}
  BY DEF IInv, TypeOK, Codes, SilentFailures
<1>2. /\ Usable(r) /\ step[r] <= s /\ step[r] <= step[r]
      /\ Fail(r, step[r], "FLOOR_DELETED") \/ Fail(r, s, c)
  BY <1>1 DEF RecordFailed, Steps
<1>3. CASE Fail(r, step[r], "FLOOR_DELETED")
  BY <1>1, <1>2, <1>3, FailKeeps
<1>4. CASE Fail(r, s, c)
  BY <1>2, <1>4, FailKeeps
<1> QED
  BY <1>2, <1>3, <1>4

\* A transaction that only sends tasks and takes notes keeps it, if the tasks are justified.
LEMMA SendKeeps ==
    ASSUME IInv, TypeOK', TasksAreJustified', TasksFollowStart', CheckedIsWritten',
           UNCHANGED <<opened, status, step, percent, code, supersededBy, uploadOf>>,
           UNCHANGED <<pinned, used, persisted, summary, drawing, layers, notified>>
    PROVE  IInv'
BY DEF IInv, Fresh, LiveHasNoCode, OnlyNewestLives, StepMatchesEvidence,
       CompletedIsEarned, LiveRunOwnsDrawing, HasContext, LayerWrittenOnce,
       FailureIsCurrent, NotifiedOfTheTruth

\* A new run takes nothing of an older one with it, and ends every one of them.
LEMMA StartRunKeeps ==
    ASSUME IInv, TypeOK', NEW u \in Runs, StartRun(u)
    PROVE  IInv'
<1> DEFINE new == opened + 1
<1>1. /\ new \in Runs /\ new > opened /\ opened \in Int
      /\ \A q \in Runs : q > new => q > opened
      /\ \A q \in Runs : q # new => (q > new <=> q > opened)
  BY RunsAreIntegers DEF StartRun, IInv, TypeOK, Runs
<1>2. /\ opened' = new
      /\ sent' = sent \cup {StartTask(new)}
      /\ UNCHANGED <<step, percent, pinned, used, persisted, summary, checked, drawing, layers, notified>>
      /\ status'[new] = "pending" /\ status[new] = "none" /\ code'[new] = code[new]
      /\ supersededBy'[new] = supersededBy[new]
      /\ \A q \in Runs \ {new} :
            /\ uploadOf'[q] = uploadOf[q]
            /\ \/ /\ status[q] \in LiveStatuses /\ status'[q] = "failed"
                  /\ code'[q] = "PIPELINE_SUPERSEDED" /\ supersededBy'[q] = new
               \/ /\ status[q] \notin LiveStatuses /\ status'[q] = status[q]
                  /\ code'[q] = code[q] /\ supersededBy'[q] = supersededBy[q]
  BY <1>1 DEF StartRun, IInv, TypeOK, Fresh, LiveStatuses, pinVars
<1>3. Fresh'
  BY <1>1, <1>2, RunsAreIntegers DEF IInv, Fresh, LiveStatuses
<1>4. LiveHasNoCode' /\ OnlyNewestLives' /\ CheckedIsWritten'
  BY <1>1, <1>2 DEF IInv, Fresh, LiveHasNoCode, OnlyNewestLives, CheckedIsWritten, LiveStatuses
<1>5. StepMatchesEvidence'
  <2>1. WeightBefore[Preprocess] = 0 /\ Preprocess # QualityStep /\ \A s \in MlSteps : ~(s < Preprocess)
    BY DEF WeightBefore, Steps, Preprocess, QualityStep, MlSteps
  <2> QED
    BY <1>1, <1>2, <2>1 DEF IInv, Fresh, StepMatchesEvidence, LiveStatuses
<1>6. CompletedIsEarned' /\ LiveRunOwnsDrawing' /\ LayerWrittenOnce'
  BY <1>1, <1>2 DEF IInv, Fresh, CompletedIsEarned, LiveRunOwnsDrawing, HasContext,
                    LayerWrittenOnce, LiveStatuses
<1>7. TasksAreJustified' /\ TasksFollowStart'
  BY <1>2 DEF IInv, TasksAreJustified, TasksFollowStart, StartTask
<1>8. FailureIsCurrent' /\ NotifiedOfTheTruth'
  BY <1>1, <1>2 DEF IInv, Fresh, FailureIsCurrent, NotifiedOfTheTruth, LiveStatuses, SilentFailures
<1> QED
  BY <1>3, <1>4, <1>5, <1>6, <1>7, <1>8 DEF IInv

\* Closing a step that does not end the run: what the invariant needs to know of the evidence.
LEMMA CloseStepKeeps ==
    ASSUME IInv, TypeOK', NEW r \in Runs, NEW s \in Steps \ {QualityStep},
           Usable(r), step[r] <= s, RecordCompleted(r, s),
           \A q \in Runs \ {r} : /\ pinned'[q] = pinned[q] /\ used'[q] = used[q]
                                 /\ persisted'[q] = persisted[q] /\ layers'[q] = layers[q]
                                 /\ notified'[q] = notified[q],
           \A m \in MlSteps : m <= s => m \in used'[r],
           s = BuildStep <=> persisted'[r],
           layers'[r] = IF persisted'[r] THEN 1 ELSE 0,
           "aiFailed" \in notified'[r] <=> "aiFailed" \in notified[r],
           "aiCompleted" \in notified'[r] <=> persisted'[r],
           drawing' = uploadOf[r], summary' = summary,
           TasksAreJustified', TasksFollowStart', CheckedIsWritten'
    PROVE  IInv'
<1>1. /\ status[r] \in LiveStatuses /\ r <= opened /\ s + 1 \in Steps /\ s + 1 # Preprocess
      /\ percent[r] = WeightBefore[step[r]] /\ step[r] \in Steps
  BY DEF Usable, IInv, StepMatchesEvidence, TypeOK, Steps, QualityStep, Preprocess
<1>2. WeightBefore[s + 1] = WeightThrough[s] /\ WeightBefore[step[r]] <= WeightThrough[s]
  BY <1>1 DEF WeightBefore, WeightThrough, Steps
<1>3. /\ step'[r] = s + 1 /\ percent'[r] = WeightBefore[s + 1]
      /\ UNCHANGED <<opened, status, code, supersededBy, uploadOf>>
      /\ \A q \in Runs \ {r} : step'[q] = step[q] /\ percent'[q] = percent[q]
  <2>1. step \in [Runs -> Steps] /\ percent \in [Runs -> 0..100]
    BY DEF IInv, TypeOK
  <2>2. WeightBefore[step[r]] \in 0..100 /\ WeightThrough[s] \in 0..100
    BY <1>1, WeightsType
  <2>3. /\ step' = [step EXCEPT ![r] = s + 1] /\ UNCHANGED <<opened, status, code, supersededBy, uploadOf>>
        /\ percent' = [percent EXCEPT ![r] = IF @ > WeightThrough[s] THEN @ ELSE WeightThrough[s]]
    BY DEF RecordCompleted
  <2>4. percent'[r] = WeightThrough[s]
    <3>1. percent'[r] = IF percent[r] > WeightThrough[s] THEN percent[r] ELSE WeightThrough[s]
      BY <2>1, <2>3
    <3>2. percent[r] = WeightBefore[step[r]]
      BY <1>1
    <3>3. ASSUME NEW a \in 0..100, NEW b \in 0..100, a <= b PROVE ~(a > b)
      BY <3>3
    <3>4. ~(percent[r] > WeightThrough[s])
      BY <1>2, <2>2, <3>2, <3>3
    <3> QED
      BY <3>1, <3>4
  <2> QED
    BY <1>2, <2>1, <2>3, <2>4
<1>4. \A q \in Runs \ {r} : status[q] \notin LiveStatuses
  BY <1>1 DEF IInv, OnlyNewestLives
<1>5. Fresh' /\ LiveHasNoCode' /\ OnlyNewestLives'
  BY <1>1, <1>3, RunsAreIntegers DEF IInv, Fresh, LiveHasNoCode, OnlyNewestLives
<1>6. StepMatchesEvidence'
  BY <1>1, <1>3, <1>4 DEF StepMatchesEvidence, MlSteps, Steps, QualityStep, BuildStep
<1>7. LiveRunOwnsDrawing' /\ CompletedIsEarned' /\ LayerWrittenOnce'
  BY <1>1, <1>3, <1>4 DEF IInv, LiveRunOwnsDrawing, HasContext, CompletedIsEarned,
                          LayerWrittenOnce, LiveStatuses
<1>8. FailureIsCurrent' /\ NotifiedOfTheTruth'
  BY <1>1, <1>3 DEF IInv, LiveHasNoCode, FailureIsCurrent, NotifiedOfTheTruth, LiveStatuses
<1> QED
  BY <1>5, <1>6, <1>7, <1>8 DEF IInv

\* Inference results in any order: the steps behind the run are exactly those it has results for.
LEMMA InferCompletedKeeps ==
    ASSUME IInv, TypeOK', NEW r \in Runs, NEW s \in MlSteps, InferCompleted(r, s)
    PROVE  IInv'
<1>1. /\ Usable(r) /\ status[r] \in LiveStatuses /\ pinned[r] /\ HasContext(r)
      /\ used'[r] = used[r] \cup {s} /\ s \notin used[r]
      /\ \A q \in Runs \ {r} : used'[q] = used[q]
      /\ UNCHANGED <<pinned, persisted, summary, checked, drawing, layers>>
  BY DEF InferCompleted, Reportable, Usable, IInv, TypeOK
<1>2. PICK t \in Steps :
         /\ Reaches(r, t, used[r] \cup {s})
         /\ \/ t = step[r] /\ UNCHANGED <<runVars, stepRequeue, sent, notified>>
            \/ /\ Fail(r, step[r], "FLOOR_DELETED")
               /\ UNCHANGED <<stepRequeue, sent>>
            \/ /\ t > step[r] /\ RecordCompleted(r, t - 1)
               /\ IF t = BuildStep THEN QueueBuild(r) ELSE UNCHANGED sent
               /\ UNCHANGED notified
  BY DEF InferCompleted, Advance
<1>3. /\ step[r] \in Steps /\ ~persisted[r] /\ drawing = uploadOf[r]
      /\ \A m \in MlSteps : m < t => m \in used'[r]
  BY <1>1, <1>2 DEF IInv, TypeOK, StepMatchesEvidence, HasContext, Reaches, MlSteps, Steps,
                    BuildStep, QualityStep
<1>4. \A q \in Runs : used[q] = MlSteps => used'[q] = MlSteps
  BY <1>1 DEF IInv, TypeOK
<1>5. CheckedIsWritten'
  BY <1>1 DEF IInv, CheckedIsWritten
<1>6. ASSUME UNCHANGED sent PROVE TasksAreJustified'
  BY <1>1, <1>4, <1>6 DEF IInv, TypeOK, TasksAreJustified, Task
<1>s. ASSUME UNCHANGED <<step, sent>> PROVE TasksFollowStart'
  BY <1>s DEF IInv, TasksFollowStart
<1>7. CASE t = step[r] /\ UNCHANGED <<runVars, stepRequeue, sent, notified>>
  <2>1. Fresh' /\ LiveHasNoCode' /\ OnlyNewestLives' /\ LiveRunOwnsDrawing' /\ LayerWrittenOnce'
    BY <1>1, <1>7 DEF IInv, Fresh, LiveHasNoCode, OnlyNewestLives, LiveRunOwnsDrawing, HasContext,
                      LayerWrittenOnce, runVars
  <2>2. StepMatchesEvidence' /\ CompletedIsEarned'
    BY <1>1, <1>4, <1>7 DEF IInv, StepMatchesEvidence, CompletedIsEarned, runVars
  <2>3. FailureIsCurrent' /\ NotifiedOfTheTruth'
    BY <1>1, <1>7 DEF IInv, LiveHasNoCode, FailureIsCurrent, NotifiedOfTheTruth, runVars
  <2> QED
    BY <1>5, <1>6, <1>s, <1>7, <2>1, <2>2, <2>3 DEF IInv, runVars
<1>8. CASE Fail(r, step[r], "FLOOR_DELETED") /\ UNCHANGED <<stepRequeue, sent>>
  <2>1. /\ status'[r] = "failed" /\ code'[r] = "FLOOR_DELETED" /\ notified' = notified
        /\ step' = step /\ UNCHANGED <<opened, percent, supersededBy, uploadOf>>
        /\ \A q \in Runs \ {r} : status'[q] = status[q] /\ code'[q] = code[q]
    BY <1>8, <1>3 DEF Fail, NotifyFailed, IInv, TypeOK, SilentFailures
  <2>2. Fresh' /\ LiveHasNoCode' /\ OnlyNewestLives' /\ LiveRunOwnsDrawing' /\ LayerWrittenOnce'
    BY <1>1, <2>1, RunsAreIntegers DEF IInv, TypeOK, Usable, Fresh, LiveHasNoCode, OnlyNewestLives,
       LiveRunOwnsDrawing, HasContext, LayerWrittenOnce, LiveStatuses
  <2>3. StepMatchesEvidence' /\ CompletedIsEarned'
    BY <1>1, <1>4, <2>1 DEF IInv, StepMatchesEvidence, CompletedIsEarned, LiveStatuses
  <2>4. FailureIsCurrent' /\ NotifiedOfTheTruth'
    BY <1>1, <2>1 DEF IInv, FailureIsCurrent, NotifiedOfTheTruth, LiveStatuses, SilentFailures
  <2> QED
    BY <1>5, <1>6, <1>s, <1>8, <2>1, <2>2, <2>3, <2>4 DEF IInv
<1>9. CASE /\ t > step[r] /\ RecordCompleted(r, t - 1)
           /\ IF t = BuildStep THEN QueueBuild(r) ELSE UNCHANGED sent
           /\ UNCHANGED notified
  <2>1. /\ t - 1 \in Steps \ {QualityStep} /\ step[r] <= t - 1 /\ t - 1 # BuildStep
        /\ \A m \in MlSteps : m <= t - 1 => m \in used'[r]
    BY <1>2, <1>3, <1>9 DEF Reaches, Steps, MlSteps, QualityStep, BuildStep
  <2>2. TasksAreJustified'
    <3>1. CASE UNCHANGED sent
      BY <1>6, <3>1
    <3>2. CASE t = BuildStep /\ sent' = sent \cup {BuildTask(r)}
      <4>1. used'[r] = MlSteps
        BY <1>1, <1>3, <3>2 DEF MlSteps, BuildStep, IInv, TypeOK
      <4> QED
        BY <1>1, <1>4, <3>2, <4>1 DEF IInv, TypeOK, TasksAreJustified, Task, BuildTask
    <3> QED
      BY <1>9, <3>1, <3>2 DEF QueueBuild
  <2>6. TasksFollowStart'
    <3>0. (t - 1) + 1 = t /\ t # Preprocess
      BY <1>3, <1>9 DEF Steps, Preprocess
    <3>1. step' = [step EXCEPT ![r] = t] /\ t # Preprocess
      BY <1>9, <2>1, <3>0 DEF RecordCompleted
    <3>2. sent' = sent \/ sent' = sent \cup {BuildTask(r)}
      BY <1>9 DEF QueueBuild
    <3>3. step'[r] # Preprocess /\ \A q \in Runs : step[q] # Preprocess => step'[q] # Preprocess
      BY <3>1 DEF IInv, TypeOK
    <3>4. BuildTask(r).run = r /\ \A k \in sent : k.run \in Runs
      BY DEF BuildTask, IInv, TypeOK, Task
    <3> QED
      BY <3>2, <3>3, <3>4 DEF IInv, TasksFollowStart
  <2>3. /\ layers[r] = 0 /\ "aiCompleted" \notin notified[r]
    BY <1>3 DEF IInv, LayerWrittenOnce, NotifiedOfTheTruth
  <2>4. \A q \in Runs \ {r} : /\ pinned'[q] = pinned[q] /\ used'[q] = used[q]
                              /\ persisted'[q] = persisted[q] /\ layers'[q] = layers[q]
                              /\ notified'[q] = notified[q]
    BY <1>1, <1>9
  <2>5. /\ t - 1 = BuildStep <=> persisted'[r]
        /\ layers'[r] = IF persisted'[r] THEN 1 ELSE 0
        /\ "aiFailed" \in notified'[r] <=> "aiFailed" \in notified[r]
        /\ "aiCompleted" \in notified'[r] <=> persisted'[r]
        /\ drawing' = uploadOf[r] /\ summary' = summary
    BY <1>1, <1>3, <1>9, <2>1, <2>3
  <2> QED
    BY <1>1, <1>5, <1>9, <2>1, <2>2, <2>4, <2>5, <2>6, CloseStepKeeps
<1> QED
  BY <1>2, <1>7, <1>8, <1>9

\* `pipeline.quality.run` ends a run that earned it.
LEMMA QualityWriteKeeps ==
    ASSUME IInv, TypeOK', NEW r \in Runs, QualityWrite(r)
    PROVE  IInv'
<1>1. /\ Usable(r) /\ status[r] \in LiveStatuses /\ r <= opened /\ persisted[r]
      /\ step[r] \in Steps /\ step[r] = QualityStep /\ summary'[r]
      /\ \A q \in Runs \ {r} : summary'[q] = summary[q]
      /\ UNCHANGED <<pinned, used, persisted, sent, checked, drawing, layers>>
  BY DEF QualityWrite, Usable, IInv, TypeOK, CheckedIsWritten, StepMatchesEvidence
<1>2. CASE Fail(r, step[r], "FLOOR_DELETED")
  <2>1. "FLOOR_DELETED" \in Codes \ {"none", "PIPELINE_SUPERSEDED"}
    BY DEF Codes, SilentFailures
  <2> QED
    BY <1>1, <1>2, <2>1, FailKeeps DEF Steps, QualityStep, MlSteps
<1>3. CASE RecordCompleted(r, QualityStep) /\ UNCHANGED notified
  <2>1. used[r] = MlSteps /\ percent[r] = 90
    <3>1. WeightBefore[QualityStep] = 90
      BY DEF WeightBefore, WeightThrough, Steps, QualityStep
    <3>2. percent[r] = WeightBefore[QualityStep] /\ \A m \in MlSteps : m < QualityStep => m \in used[r]
      BY <1>1 DEF IInv, StepMatchesEvidence
    <3>3. used[r] \subseteq MlSteps /\ \A m \in MlSteps : m < QualityStep
      BY DEF IInv, TypeOK, MlSteps, QualityStep
    <3> QED
      BY <3>1, <3>2, <3>3
  <2>2. /\ status'[r] = "completed" /\ percent'[r] = 100 /\ step' = step
        /\ UNCHANGED <<opened, code, supersededBy, uploadOf, notified>>
        /\ \A q \in Runs \ {r} : status'[q] = status[q] /\ percent'[q] = percent[q]
    BY <1>1, <1>3, <2>1 DEF RecordCompleted, IInv, TypeOK, WeightThrough, Steps, QualityStep
  <2>3. Fresh' /\ LiveHasNoCode' /\ OnlyNewestLives' /\ LiveRunOwnsDrawing' /\ LayerWrittenOnce'
    BY <1>1, <2>2, RunsAreIntegers DEF IInv, TypeOK, Fresh, LiveHasNoCode, OnlyNewestLives,
       LiveRunOwnsDrawing, HasContext, LayerWrittenOnce, LiveStatuses
  <2>4. StepMatchesEvidence' /\ CompletedIsEarned' /\ CheckedIsWritten' /\ TasksAreJustified'
    BY <1>1, <2>1, <2>2 DEF IInv, StepMatchesEvidence, CompletedIsEarned, CheckedIsWritten,
                            TasksAreJustified, LiveStatuses
  <2>5. FailureIsCurrent' /\ NotifiedOfTheTruth' /\ TasksFollowStart'
    BY <1>1, <2>2 DEF IInv, LiveHasNoCode, FailureIsCurrent, NotifiedOfTheTruth, TasksFollowStart,
                      LiveStatuses
  <2> QED
    BY <2>3, <2>4, <2>5 DEF IInv
<1> QED
  BY <1>2, <1>3 DEF QualityWrite

\* Writing the AI layer: once, and only from a run whose evidence is complete.
LEMMA PersistKeeps ==
    ASSUME IInv, TypeOK', NEW r \in Runs, Persist(r)
    PROVE  IInv'
<1>1. /\ Usable(r) /\ status[r] \in LiveStatuses /\ pinned[r] /\ ~persisted[r] /\ persisted'[r]
      /\ layers'[r] = layers[r] + 1 /\ notified'[r] = notified[r] \cup {"aiCompleted"}
      /\ \A q \in Runs \ {r} : /\ persisted'[q] = persisted[q] /\ layers'[q] = layers[q]
                               /\ notified'[q] = notified[q]
      /\ sent' = sent \cup {QualityTask(r)} /\ PersistTask(r) \in sent
      /\ UNCHANGED <<pinned, used, summary, checked, drawing>>
  BY DEF Persist, FirstPersist, Usable, IInv, TypeOK
<1>2. used[r] = MlSteps
  BY <1>1 DEF IInv, TasksAreJustified, PersistTask
<1>3. step[r] \in Steps /\ step[r] <= BuildStep /\ step[r] # QualityStep
  BY <1>1 DEF IInv, TypeOK, StepMatchesEvidence, Steps, BuildStep, QualityStep
<1>4. step[r] # Preprocess /\ drawing = uploadOf[r]
  BY <1>1 DEF IInv, TasksFollowStart, PersistTask, LiveRunOwnsDrawing, HasContext
<1>5. RecordCompleted(r, BuildStep)
  BY <1>3 DEF Persist
<1>6. CheckedIsWritten'
  BY <1>1 DEF IInv, TypeOK, CheckedIsWritten
<1>7. TasksAreJustified' /\ TasksFollowStart'
  <2>1. \A q \in Runs : (persisted[q] => persisted'[q]) /\ (step[q] # Preprocess => step'[q] # Preprocess)
    BY <1>1, <1>5 DEF IInv, TypeOK, RecordCompleted, BuildStep, QualityStep, Preprocess
  <2>2. step'[r] # Preprocess
    BY <1>4, <2>1
  <2> QED
    BY <1>1, <2>1, <2>2 DEF IInv, TypeOK, TasksAreJustified, TasksFollowStart, Task, QualityTask
<1>8. /\ layers'[r] = 1
      /\ "aiFailed" \in notified'[r] <=> "aiFailed" \in notified[r]
      /\ "aiCompleted" \in notified'[r]
  BY <1>1 DEF IInv, LayerWrittenOnce
<1>9. BuildStep \in Steps \ {QualityStep} /\ \A m \in MlSteps : m <= BuildStep => m \in used'[r]
  BY <1>1, <1>2 DEF BuildStep, Steps, QualityStep
<1> QED
  BY <1>1, <1>3, <1>4, <1>5, <1>6, <1>7, <1>8, <1>9, CloseStepKeeps

LEMMA IInvNext == IInv /\ [Next]_vars => IInv'
<1> SUFFICES ASSUME IInv, [Next]_vars PROVE IInv'
  OBVIOUS
<1>0. /\ TypeOK /\ TypeOK'
      /\ Preprocess \in Steps /\ BuildStep \in Steps /\ QualityStep \in Steps
      /\ Preprocess \notin MlSteps /\ BuildStep \notin MlSteps /\ QualityStep \notin MlSteps
      /\ MlSteps \subseteq Steps
      /\ {"FLOOR_DELETED", "STEP_FAILED", "PIPELINE_RESULT_INVALID", "PIPELINE_STEP_TIMEOUT",
          "PIPELINE_STALLED"} \subseteq Codes \ {"none", "PIPELINE_SUPERSEDED"}
  BY TypeNext DEF IInv, Steps, MlSteps, Preprocess, BuildStep, QualityStep, Codes, SilentFailures
<1>1. CASE CompleteUpload
  BY <1>0, <1>1, StartRunKeeps DEF CompleteUpload
<1>2. CASE SwapPage
  <2>1. drawing \in Runs
    BY <1>0, <1>2 DEF SwapPage, TypeOK, Runs
  <2> QED
    BY <1>0, <1>2, <2>1, StartRunKeeps DEF SwapPage
<1>3. CASE DeleteFloor \/ RestoreFloor \/ LoseFloor
  BY <1>0, <1>3, IInvFrame DEF DeleteFloor, RestoreFloor, LoseFloor, others, pinVars
<1>4. ASSUME NEW r \in Runs, Handlers(r) \/ Sweeps(r) PROVE IInv'
  <2>s. step[r] \in Steps /\ step[r] <= step[r]
    BY <1>0 DEF TypeOK, Steps
  <2>1. CASE StartRead(r)
    <3>1. /\ pinned' = [pinned EXCEPT ![r] = TRUE] /\ \A q \in Runs : pinned[q] => pinned'[q]
          /\ Usable(r) /\ status[r] \in LiveStatuses /\ r <= opened
      BY <1>0, <2>1 DEF StartRead, Usable, TypeOK
    <3>2. CASE Fail(r, step[r], "FLOOR_DELETED")
      BY <1>0, <2>s, <2>1, <3>1, <3>2, FailKeeps DEF StartRead
    <3>3. CASE status' = [status EXCEPT ![r] = "running"]
               /\ UNCHANGED <<opened, step, percent, code, supersededBy, uploadOf, notified>>
      <4>1. /\ UNCHANGED <<used, persisted, summary, sent, checked, drawing, layers>>
            /\ status'[r] = "running" /\ \A q \in Runs \ {r} : status'[q] = status[q]
        BY <1>0, <2>1, <3>3 DEF StartRead, TypeOK
      <4>2. Fresh' /\ LiveHasNoCode' /\ OnlyNewestLives' /\ CheckedIsWritten' /\ LayerWrittenOnce'
        BY <1>0, <3>1, <3>3, <4>1, RunsAreIntegers DEF IInv, TypeOK, Fresh, LiveHasNoCode, OnlyNewestLives,
           CheckedIsWritten, LayerWrittenOnce, LiveStatuses
      <4>3. StepMatchesEvidence' /\ CompletedIsEarned' /\ LiveRunOwnsDrawing'
        BY <3>1, <3>3, <4>1 DEF IInv, StepMatchesEvidence, CompletedIsEarned, LiveRunOwnsDrawing,
                                HasContext, LiveStatuses
      <4>4. TasksAreJustified' /\ TasksFollowStart'
        BY <1>0, <3>1, <3>3, <4>1 DEF IInv, TypeOK, TasksAreJustified, TasksFollowStart, Task
      <4>5. FailureIsCurrent' /\ NotifiedOfTheTruth'
        BY <3>1, <3>3, <4>1 DEF IInv, FailureIsCurrent, NotifiedOfTheTruth, LiveStatuses
      <4> QED
        BY <1>0, <4>2, <4>3, <4>4, <4>5 DEF IInv
    <3> QED
      BY <2>1, <3>2, <3>3 DEF StartRead
  <2>2. CASE StartWrite(r)
    <3>1. /\ Usable(r) /\ status[r] \in LiveStatuses /\ step[r] = Preprocess /\ pinned[r]
          /\ drawing' = uploadOf[r] /\ RecordCompleted(r, Preprocess)
          /\ sent' = sent \cup {InferTask(r, m) : m \in MlSteps \ used[r]}
          /\ UNCHANGED <<pinned, used, persisted, summary, checked, layers, notified>>
      BY <2>2 DEF StartWrite, WritePage, Usable
    <3>2. /\ Preprocess \in Steps \ {QualityStep} /\ Preprocess # BuildStep /\ step[r] <= Preprocess
          /\ \A m \in MlSteps : ~(m <= Preprocess)
      BY <3>1 DEF Preprocess, Steps, QualityStep, BuildStep, MlSteps
    <3>3. ~persisted[r] /\ layers[r] = 0 /\ "aiCompleted" \notin notified[r]
      BY <3>1, <3>2 DEF IInv, StepMatchesEvidence, LayerWrittenOnce, NotifiedOfTheTruth
    <3>4. step'[r] # Preprocess /\ \A q \in Runs : step[q] # Preprocess => step'[q] # Preprocess
      BY <1>0, <3>1 DEF RecordCompleted, TypeOK, Preprocess, QualityStep
    <3>5. TasksAreJustified' /\ TasksFollowStart' /\ CheckedIsWritten'
      BY <1>0, <3>1, <3>4 DEF IInv, TypeOK, TasksAreJustified, TasksFollowStart, CheckedIsWritten,
                              Task, InferTask
    <3> QED
      BY <1>0, <3>1, <3>2, <3>3, <3>5, CloseStepKeeps
  <2>3. CASE StartFailed(r)
    BY <1>0, <2>3, RecordFailedKeeps DEF StartFailed, pinVars
  <2>4. ASSUME NEW s \in MlSteps, InferCompleted(r, s) PROVE IInv'
    BY <1>0, <2>4, InferCompletedKeeps
  <2>5. ASSUME NEW s \in MlSteps, InferFailed(r, s) PROVE IInv'
    BY <1>0, <2>5, RecordFailedKeeps DEF InferFailed, Reportable, pinVars
  <2>6. CASE BuildCompleted(r)
    <3>1. TasksAreJustified'
      BY <1>0, <2>6 DEF BuildCompleted, IInv, TasksAreJustified, BuildTask, PersistTask, pinVars
    <3>2. TasksFollowStart' /\ CheckedIsWritten'
      BY <1>0, <2>6 DEF BuildCompleted, IInv, TasksFollowStart, CheckedIsWritten, BuildTask, PersistTask,
                        runVars, pinVars
    <3> QED
      BY <1>0, <2>6, <3>1, <3>2, SendKeeps DEF BuildCompleted, runVars, pinVars
  <2>7. CASE BuildFailed(r)
    BY <1>0, <2>7, RecordFailedKeeps DEF BuildFailed, pinVars
  <2>8. CASE Persist(r)
    BY <1>0, <2>8, PersistKeeps
  <2>9. CASE PersistReplay(r)
    <3>1. /\ persisted[r] /\ sent' = sent \cup {QualityTask(r)}
          /\ notified' = [notified EXCEPT ![r] = @ \cup {"aiCompleted"}]
          /\ UNCHANGED <<runVars, pinVars, checked, drawing, layers>>
      BY <2>9 DEF PersistReplay
    <3>2. PersistTask(r) \in sent /\ "aiCompleted" \in notified[r]
      BY <2>9, <3>1 DEF PersistReplay, IInv, NotifiedOfTheTruth
    <3>3. notified' = notified
      BY <1>0, <3>1, <3>2 DEF TypeOK
    <3>4. pinned[r] /\ step[r] # Preprocess
      BY <3>2 DEF IInv, TasksAreJustified, TasksFollowStart, PersistTask
    <3>5. TasksAreJustified' /\ TasksFollowStart' /\ CheckedIsWritten'
      BY <3>1, <3>4 DEF IInv, TasksAreJustified, TasksFollowStart, CheckedIsWritten, QualityTask,
                        runVars, pinVars
    <3> QED
      BY <1>0, <3>1, <3>3, <3>5, SendKeeps DEF runVars, pinVars
  <2>10. CASE PersistFailed(r)
    BY <1>0, <2>10, RecordFailedKeeps DEF PersistFailed, pinVars
  <2>11. CASE QualityRead(r)
    <3>1. TasksAreJustified' /\ TasksFollowStart' /\ CheckedIsWritten'
      BY <2>11 DEF QualityRead, IInv, TasksAreJustified, TasksFollowStart, CheckedIsWritten, runVars, pinVars
    <3> QED
      BY <1>0, <2>11, <3>1, SendKeeps DEF QualityRead, runVars, pinVars
  <2>12. CASE QualityWrite(r)
    BY <1>0, <2>12, QualityWriteKeeps
  <2>13. CASE QualityFailed(r)
    BY <1>0, <2>13, RecordFailedKeeps DEF QualityFailed, pinVars
  <2>14. CASE SweepResend(r)
    <3>1. /\ status[r] \in LiveStatuses /\ pinned[r]
          /\ UNCHANGED <<pinned, used, persisted, summary, checked, drawing, layers>>
      BY <2>14 DEF SweepResend, Usable
    <3>2. CASE sent' = sent \cup Redo(r) /\ UNCHANGED <<runVars, notified>>
      <4>1. \A m \in MlSteps : m < step[r] => m \in used[r]
        BY <3>1 DEF IInv, StepMatchesEvidence
      <4>2. /\ step[r] = BuildStep => used[r] = MlSteps
            /\ step[r] = QualityStep => persisted[r]
        BY <1>0, <3>1, <4>1 DEF IInv, TypeOK, StepMatchesEvidence, MlSteps, BuildStep
      <4>3. ASSUME NEW k \in Redo(r)
            PROVE  /\ k.run = r /\ k.kind # "persist"
                   /\ k.kind # "start" => step[r] # Preprocess
                   /\ k.kind = "build" => step[r] = BuildStep
                   /\ k.kind = "quality" => step[r] = QualityStep
        <5>1. CASE step[r] = Preprocess
          BY <4>3, <5>1 DEF Redo, StartTask, Preprocess, BuildStep, QualityStep
        <5>2. CASE step[r] = BuildStep
          BY <4>3, <5>2 DEF Redo, BuildTask, Preprocess, BuildStep, QualityStep
        <5>3. CASE step[r] = QualityStep
          BY <4>3, <5>3 DEF Redo, QualityTask, Preprocess, BuildStep, QualityStep
        <5>4. CASE step[r] \notin {Preprocess, BuildStep, QualityStep}
          BY <4>3, <5>4 DEF Redo, InferTask
        <5> QED
          BY <5>1, <5>2, <5>3, <5>4
      <4>4. TasksAreJustified' /\ TasksFollowStart' /\ CheckedIsWritten'
        BY <3>1, <3>2, <4>2, <4>3 DEF IInv, TasksAreJustified, TasksFollowStart, CheckedIsWritten, runVars
      <4> QED
        BY <1>0, <3>1, <3>2, <4>4, SendKeeps DEF runVars
    <3>3. CASE RecordFailed(r, step[r], "PIPELINE_RESULT_INVALID") /\ UNCHANGED sent
      BY <1>0, <2>s, <3>1, <3>3, RecordFailedKeeps
    <3> QED
      BY <2>14, <3>2, <3>3 DEF SweepResend
  <2>15. CASE SweepTimeout(r)
    BY <1>0, <2>s, <2>15, RecordFailedKeeps DEF SweepTimeout, pinVars
  <2>16. CASE RequeuePending(r)
    <3>1. TasksAreJustified' /\ TasksFollowStart' /\ CheckedIsWritten'
      BY <2>16 DEF RequeuePending, IInv, TasksAreJustified, TasksFollowStart, CheckedIsWritten, StartTask,
                   pinVars
    <3> QED
      BY <1>0, <2>16, <3>1, SendKeeps DEF RequeuePending, pinVars
  <2>17. CASE StallPending(r)
    BY <1>0, <2>s, <2>17, FailKeeps DEF StallPending, TakeStale, pinVars
  <2> QED
    BY <1>4, <2>1, <2>2, <2>3, <2>4, <2>5, <2>6, <2>7, <2>8, <2>9, <2>10, <2>11, <2>12, <2>13,
       <2>14, <2>15, <2>16, <2>17 DEF Handlers, Sweeps
<1>5. CASE UNCHANGED vars
  BY <1>0, <1>5, IInvFrame DEF vars, pinVars
<1> QED
  BY <1>1, <1>2, <1>3, <1>4, <1>5 DEF Next

\* What holds of every reachable state, for every number of runs and every cap.
THEOREM Invariant == Spec => []IInv
BY IInvInit, IInvNext, PTL DEF Spec

LEMMA SafetyParts ==
    IInv => /\ OnlyNewestLives /\ StepMatchesEvidence /\ CompletedIsEarned /\ LiveRunOwnsDrawing
            /\ TasksAreJustified /\ LayerWrittenOnce /\ FailureIsCurrent /\ NotifiedOfTheTruth
BY DEF IInv

\* At most one run of a floor is live, and it is the newest (start_run, _usable).
THEOREM OnlyNewestRunLives == Spec => []OnlyNewestLives
BY SafetyParts, Invariant, PTL

\* The current step of a live run is exactly as far as its results (_ml_completed, _advance).
THEOREM ProgressIsEvidence == Spec => []StepMatchesEvidence
BY SafetyParts, Invariant, PTL

\* A completed run has all its inferences, its layer and its quality summary, in whatever order the
\* results came (_ml_completed, _advance, _persist, run_quality).
THEOREM CompletionIsEarned == Spec => []CompletedIsEarned
BY SafetyParts, Invariant, PTL

\* A live run past its first step owns the floor's drawing (_write_page, load_run_context).
THEOREM DrawingIsOwned == Spec => []LiveRunOwnsDrawing
BY SafetyParts, Invariant, PTL

\* No task was sent without the committed state that it needs (after-commit sends, sweeps).
THEOREM EveryTaskIsJustified == Spec => []TasksAreJustified
BY SafetyParts, Invariant, PTL

\* The AI layer of a run is merged at most once, however often its persist task is delivered
\* (_run_transaction, mark_persisted).
THEOREM LayerIsWrittenOnce == Spec => []LayerWrittenOnce
BY SafetyParts, Invariant, PTL

\* A late failure does not kill a run that already holds the result (_live).
THEOREM LateFailureIsIgnored == Spec => []FailureIsCurrent
BY SafetyParts, Invariant, PTL

\* The uploader hears of exactly what happened to the run (_notify_failed, _settle).
THEOREM NotificationsAreTrue == Spec => []NotifiedOfTheTruth
BY SafetyParts, Invariant, PTL
=============================================================================
