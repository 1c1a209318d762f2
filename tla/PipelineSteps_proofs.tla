--------------------------- MODULE PipelineSteps_proofs ---------------------------
(***************************************************************************)
(* Proofs about the steps of PipelineRun: what no step may do to a run,    *)
(* and that every step is one of RunLifecycle or none.  Both follow from   *)
(* one fact: a handler or a sweep touches a single run, which is live, and *)
(* moves it forward.                                                       *)
(***************************************************************************)
EXTENDS PipelineRun_proofs

Untouched(q) ==
    /\ status'[q] = status[q] /\ step'[q] = step[q] /\ percent'[q] = percent[q] /\ code'[q] = code[q]
    /\ used'[q] = used[q] /\ summary'[q] = summary[q]
    /\ layers'[q] = layers[q] /\ notified'[q] = notified[q]

\* What a step of a live run may do: work on, write the layer, fail, or complete with its layer written.
Forward(r) ==
    /\ step'[r] >= step[r] /\ percent'[r] >= percent[r]
    /\ \/ status'[r] \in LiveStatuses /\ layers' = layers
       \/ status'[r] \in LiveStatuses /\ layers[r] = 0 /\ layers' = [layers EXCEPT ![r] = 1]
       \/ status'[r] = "failed" /\ layers' = layers
       \/ status'[r] = "completed" /\ layers[r] = 1 /\ layers' = layers

OneRunStep(r) ==
    /\ status[r] \in LiveStatuses /\ r <= opened /\ opened' = opened
    /\ status' \in [Runs -> Statuses]
    /\ \A q \in Runs \ {r} : Untouched(q)
    /\ Forward(r)

LEMMA FailIsForward ==
    ASSUME TypeOK, TypeOK', NEW r \in Runs, NEW s \in Steps, NEW c \in Codes,
           Usable(r), step[r] <= s, Fail(r, s, c), layers' = layers,
           \A q \in Runs \ {r} : used'[q] = used[q] /\ summary'[q] = summary[q]
    PROVE  OneRunStep(r)
<1>1. /\ status[r] \in LiveStatuses /\ r <= opened /\ opened' = opened /\ percent' = percent
      /\ status' = [status EXCEPT ![r] = "failed"] /\ code' = [code EXCEPT ![r] = c]
      /\ step' = [step EXCEPT ![r] = s] /\ \A q \in Runs \ {r} : notified'[q] = notified[q]
  BY DEF Usable, Fail, NotifyFailed, TypeOK
<1>2. /\ status'[r] = "failed" /\ step'[r] = s
      /\ \A q \in Runs \ {r} : status'[q] = status[q] /\ code'[q] = code[q] /\ step'[q] = step[q]
  BY <1>1 DEF TypeOK
<1>3. percent[r] \in 0..100 /\ step[r] \in 1..6 /\ s \in 1..6 /\ status' \in [Runs -> Statuses]
  BY DEF TypeOK, Steps
<1> QED
  BY <1>1, <1>2, <1>3 DEF OneRunStep, Untouched, Forward

LEMMA RecordFailedIsForward ==
    ASSUME TypeOK, TypeOK', NEW r \in Runs, NEW s \in Steps, NEW c \in Codes,
           RecordFailed(r, s, c), UNCHANGED <<used, summary, layers>>
    PROVE  OneRunStep(r)
<1>1. step[r] \in Steps /\ step[r] <= step[r] /\ "FLOOR_DELETED" \in Codes
  BY DEF TypeOK, Codes, SilentFailures, Steps
<1> QED
  BY <1>1, FailIsForward DEF RecordFailed

LEMMA RecordCompletedIsForward ==
    ASSUME TypeOK, TypeOK', NEW r \in Runs, NEW s \in Steps, RecordCompleted(r, s), step[r] <= s
    PROVE  /\ step'[r] >= step[r] /\ percent'[r] >= percent[r] /\ opened' = opened
           /\ status'[r] = IF s = QualityStep THEN "completed" ELSE status[r]
           /\ \A q \in Runs \ {r} : /\ status'[q] = status[q] /\ step'[q] = step[q]
                                    /\ percent'[q] = percent[q] /\ code'[q] = code[q]
<1>1. WeightThrough[s] \in 0..100
  BY WeightsType
<1>2. /\ step \in [Runs -> 1..6] /\ percent \in [Runs -> 0..100] /\ status \in [Runs -> Statuses]
      /\ s \in 1..6 /\ UNCHANGED <<opened, code>>
  BY DEF TypeOK, Steps, RecordCompleted
<1>3. /\ step'[r] >= step[r]
      /\ \A q \in Runs \ {r} : step'[q] = step[q]
  <2>1. step' = [step EXCEPT ![r] = IF s = 6 THEN s ELSE s + 1]
    BY DEF RecordCompleted, QualityStep
  <2>2. step'[r] = IF s = 6 THEN s ELSE s + 1
    BY <1>2, <2>1
  <2> QED
    BY <1>2, <2>1, <2>2
<1>4. /\ percent'[r] >= percent[r]
      /\ \A q \in Runs \ {r} : percent'[q] = percent[q]
  <2> DEFINE w == WeightThrough[s]
  <2>1. percent' = [percent EXCEPT ![r] = IF percent[r] > w THEN percent[r] ELSE w]
    BY DEF RecordCompleted
  <2> HIDE DEF w
  <2>2. percent'[r] = IF percent[r] > w THEN percent[r] ELSE w
    BY <1>2, <2>1
  <2>3. w \in 0..100 /\ percent[r] \in 0..100
    BY <1>1, <1>2 DEF w
  <2> QED
    BY <1>2, <2>1, <2>2, <2>3
<1>5. /\ status'[r] = IF s = QualityStep THEN "completed" ELSE status[r]
      /\ \A q \in Runs \ {r} : status'[q] = status[q]
  BY <1>2 DEF RecordCompleted
<1> QED
  BY <1>2, <1>3, <1>4, <1>5

\* A transaction that does not reach the run's status or its progress.
LEMMA StandsStill ==
    ASSUME TypeOK, TypeOK', NEW r \in Runs, Usable(r),
           UNCHANGED <<opened, status, step, percent, code, summary, layers>>,
           \A q \in Runs \ {r} : used'[q] = used[q] /\ notified'[q] = notified[q]
    PROVE  OneRunStep(r)
<1>1. status \in [Runs -> Statuses] /\ step[r] \in 1..6 /\ percent[r] \in 0..100
  BY DEF TypeOK, Steps
<1>2. step[r] >= step[r] /\ percent[r] >= percent[r]
  BY <1>1
<1> QED
  BY <1>1, <1>2 DEF OneRunStep, Untouched, Forward, Usable

LEMMA SendIsForward ==
    ASSUME TypeOK, TypeOK', NEW r \in Runs, Usable(r),
           UNCHANGED <<opened, status, step, percent, code, used, summary, layers, notified>>
    PROVE  OneRunStep(r)
BY StandsStill

LEMMA EveryHandlerIsForward ==
    ASSUME IInv, TypeOK', NEW r \in Runs, Handlers(r) \/ Sweeps(r)
    PROVE  OneRunStep(r)
<1>0. /\ TypeOK
      /\ Preprocess \in Steps /\ BuildStep \in Steps /\ QualityStep \in Steps /\ MlSteps \subseteq Steps
      /\ {"FLOOR_DELETED", "STEP_FAILED", "PIPELINE_RESULT_INVALID", "PIPELINE_STEP_TIMEOUT",
          "PIPELINE_STALLED"} \subseteq Codes
      /\ step[r] \in Steps /\ step[r] <= step[r]
  BY DEF IInv, TypeOK, Steps, MlSteps, Preprocess, BuildStep, QualityStep, Codes, SilentFailures
<1>1. CASE StartRead(r)
  <2>1. Usable(r) /\ UNCHANGED <<used, summary, layers>>
    BY <1>1 DEF StartRead
  <2>2. CASE Fail(r, step[r], "FLOOR_DELETED")
    BY <1>0, <2>1, <2>2, FailIsForward
  <2>3. CASE status' = [status EXCEPT ![r] = "running"] /\ UNCHANGED <<opened, step, percent, code, notified>>
    <3>1. /\ status'[r] = "running" /\ \A q \in Runs \ {r} : status'[q] = status[q]
          /\ percent[r] \in 0..100 /\ step[r] \in 1..6 /\ status' \in [Runs -> Statuses]
      BY <1>0, <2>3 DEF TypeOK, Steps
    <3> QED
      BY <2>1, <2>3, <3>1 DEF OneRunStep, Untouched, Forward, Usable, LiveStatuses
  <2> QED
    BY <1>1, <2>2, <2>3 DEF StartRead
<1>2. CASE StartWrite(r)
  <2>1. /\ Usable(r) /\ step[r] <= Preprocess /\ RecordCompleted(r, Preprocess) /\ Preprocess # QualityStep
        /\ UNCHANGED <<used, summary, layers, notified>>
    BY <1>0, <1>2 DEF StartWrite, Preprocess, QualityStep
  <2> QED
    BY <1>0, <2>1, RecordCompletedIsForward DEF OneRunStep, Untouched, Forward, Usable, TypeOK
<1>3. CASE StartFailed(r)
  BY <1>0, <1>3, RecordFailedIsForward DEF StartFailed, pinVars
<1>4. ASSUME NEW s \in MlSteps, InferCompleted(r, s) PROVE OneRunStep(r)
  <2>1. /\ Usable(r) /\ UNCHANGED <<summary, layers>>
        /\ \A q \in Runs \ {r} : used'[q] = used[q]
    BY <1>0, <1>4 DEF InferCompleted, Reportable, TypeOK
  <2>2. PICK t \in Steps :
           \/ UNCHANGED <<runVars, stepRequeue, sent, notified>>
           \/ Fail(r, step[r], "FLOOR_DELETED")
           \/ /\ t > step[r] /\ t \in MlSteps \cup {BuildStep} /\ RecordCompleted(r, t - 1)
              /\ UNCHANGED notified
    BY <1>4 DEF InferCompleted, Advance, Reaches
  <2>3. CASE UNCHANGED <<runVars, stepRequeue, sent, notified>>
    BY <1>0, <2>1, <2>3, StandsStill DEF runVars
  <2>4. CASE Fail(r, step[r], "FLOOR_DELETED")
    BY <1>0, <2>1, <2>4, FailIsForward
  <2>5. CASE /\ t > step[r] /\ t \in MlSteps \cup {BuildStep} /\ RecordCompleted(r, t - 1)
             /\ UNCHANGED notified
    <3>1. t - 1 \in Steps /\ step[r] <= t - 1 /\ t - 1 # QualityStep
      BY <1>0, <2>5 DEF Steps, MlSteps, BuildStep, QualityStep
    <3> QED
      BY <1>0, <2>1, <2>5, <3>1, RecordCompletedIsForward DEF OneRunStep, Untouched, Forward, Usable, TypeOK
  <2> QED
    BY <2>2, <2>3, <2>4, <2>5
<1>5. ASSUME NEW s \in MlSteps, InferFailed(r, s) PROVE OneRunStep(r)
  BY <1>0, <1>5, RecordFailedIsForward DEF InferFailed, pinVars
<1>6. CASE BuildCompleted(r)
  BY <1>0, <1>6, SendIsForward DEF BuildCompleted, runVars, pinVars
<1>7. CASE BuildFailed(r)
  BY <1>0, <1>7, RecordFailedIsForward DEF BuildFailed, pinVars
<1>8. CASE Persist(r)
  <2>1. /\ Usable(r) /\ UNCHANGED <<used, summary>>
        /\ layers[r] = 0 /\ layers' = [layers EXCEPT ![r] = 1]
        /\ notified' = [notified EXCEPT ![r] = @ \cup {"aiCompleted"}]
    <3>1. /\ Usable(r) /\ UNCHANGED <<used, summary>> /\ ~persisted[r]
          /\ layers' = [layers EXCEPT ![r] = layers[r] + 1]
          /\ notified' = [notified EXCEPT ![r] = @ \cup {"aiCompleted"}]
      BY <1>8 DEF Persist, FirstPersist
    <3>2. layers[r] = 0 /\ 0 + 1 = 1
      BY <3>1 DEF IInv, LayerWrittenOnce
    <3> QED
      BY <3>1, <3>2
  <2>2. CASE step[r] <= BuildStep /\ RecordCompleted(r, BuildStep)
    <3>1. BuildStep # QualityStep
      BY DEF BuildStep, QualityStep
    <3> QED
      BY <1>0, <2>1, <2>2, <3>1, RecordCompletedIsForward DEF OneRunStep, Untouched, Forward, Usable, TypeOK
  <2>3. CASE UNCHANGED runVars
    <3>1. /\ status \in [Runs -> Statuses] /\ step[r] \in 1..6 /\ percent[r] \in 0..100
          /\ \A q \in Runs \ {r} : notified'[q] = notified[q] /\ layers'[q] = layers[q]
      BY <1>0, <2>1 DEF TypeOK, Steps
    <3>2. step[r] >= step[r] /\ percent[r] >= percent[r]
      BY <3>1
    <3> QED
      BY <2>1, <2>3, <3>1, <3>2 DEF OneRunStep, Untouched, Forward, Usable, runVars
  <2> QED
    BY <1>8, <2>2, <2>3 DEF Persist
<1>9. CASE PersistReplay(r)
  <2>1. /\ Usable(r) /\ notified' = [notified EXCEPT ![r] = @ \cup {"aiCompleted"}]
        /\ UNCHANGED <<opened, status, step, percent, code, used, summary, layers>>
    BY <1>9 DEF PersistReplay, runVars, pinVars
  <2>2. \A q \in Runs \ {r} : notified'[q] = notified[q]
    BY <1>0, <2>1 DEF TypeOK
  <2> QED
    BY <1>0, <2>1, <2>2, StandsStill
<1>10. CASE PersistFailed(r)
  BY <1>0, <1>10, RecordFailedIsForward DEF PersistFailed, pinVars
<1>11. CASE QualityRead(r)
  BY <1>0, <1>11, SendIsForward DEF QualityRead, runVars, pinVars
<1>12. CASE QualityWrite(r)
  <2>1. /\ Usable(r) /\ UNCHANGED <<used, layers>> /\ layers[r] = 1
        /\ \A q \in Runs \ {r} : summary'[q] = summary[q]
    BY <1>12 DEF QualityWrite, IInv, TypeOK, CheckedIsWritten, LayerWrittenOnce
  <2>2. CASE Fail(r, step[r], "FLOOR_DELETED")
    BY <1>0, <2>1, <2>2, FailIsForward
  <2>3. CASE RecordCompleted(r, QualityStep) /\ UNCHANGED notified
    <3>1. step[r] <= QualityStep
      BY <1>0 DEF Steps, QualityStep
    <3> QED
      BY <1>0, <2>1, <2>3, <3>1, RecordCompletedIsForward DEF OneRunStep, Untouched, Forward, Usable, TypeOK
  <2> QED
    BY <1>12, <2>2, <2>3 DEF QualityWrite
<1>13. CASE QualityFailed(r)
  BY <1>0, <1>13, RecordFailedIsForward DEF QualityFailed, pinVars
<1>14. CASE SweepResend(r)
  <2>1. Usable(r) /\ UNCHANGED <<used, summary, layers>>
    BY <1>14 DEF SweepResend
  <2>2. CASE UNCHANGED <<runVars, notified>>
    BY <1>0, <2>1, <2>2, SendIsForward DEF runVars
  <2>3. CASE RecordFailed(r, step[r], "PIPELINE_RESULT_INVALID")
    BY <1>0, <2>1, <2>3, RecordFailedIsForward
  <2> QED
    BY <1>14, <2>2, <2>3 DEF SweepResend
<1>15. CASE SweepTimeout(r)
  BY <1>0, <1>15, RecordFailedIsForward DEF SweepTimeout, pinVars
<1>16. CASE RequeuePending(r)
  BY <1>0, <1>16, SendIsForward DEF RequeuePending, TakeStale, pinVars
<1>17. CASE StallPending(r)
  BY <1>0, <1>17, FailIsForward DEF StallPending, TakeStale, pinVars
<1> QED
  BY <1>1, <1>2, <1>3, <1>4, <1>5, <1>6, <1>7, <1>8, <1>9, <1>10, <1>11, <1>12, <1>13, <1>14, <1>15,
     <1>16, <1>17 DEF Handlers, Sweeps

-----------------------------------------------------------------------------
(* Action properties *)

\* What FinalIsFinal and ProgressNeverBack say of one run and one step.
LEMMA StepIsMonotone ==
    ASSUME IInv, [Next]_vars, NEW q \in Runs
    PROVE  /\ status[q] \in FinalStatuses => Untouched(q)
           /\ step'[q] >= step[q] /\ percent'[q] >= percent[q]
<1>0. /\ TypeOK /\ TypeOK' /\ step[q] \in 1..6 /\ percent[q] \in 0..100
      /\ LiveStatuses \cap FinalStatuses = {} /\ "none" \notin FinalStatuses
  BY TypeNext DEF IInv, TypeOK, Steps, LiveStatuses, FinalStatuses
<1>1. ASSUME NEW u, StartRun(u)
      PROVE  (status[q] \in FinalStatuses => Untouched(q)) /\ UNCHANGED <<step, percent>>
  <2>1. /\ opened + 1 \in Runs /\ opened + 1 > opened
        /\ UNCHANGED <<step, percent, used, summary, layers, notified>>
    BY <1>0, <1>1, RunsAreIntegers DEF StartRun, TypeOK, pinVars
  <2>2. status[opened + 1] = "none"
    BY <2>1 DEF IInv, Fresh
  <2>3. status[q] \in FinalStatuses => status'[q] = status[q] /\ code'[q] = code[q]
    BY <1>0, <1>1, <2>2 DEF StartRun
  <2> QED
    BY <2>1, <2>3 DEF Untouched
<1>2. ASSUME UNCHANGED <<runVars, pinVars, layers, notified>>
      PROVE  (status[q] \in FinalStatuses => Untouched(q)) /\ UNCHANGED <<step, percent>>
  BY <1>2 DEF Untouched, runVars, pinVars
<1>3. ASSUME NEW r \in Runs, OneRunStep(r)
      PROVE  /\ status[q] \in FinalStatuses => Untouched(q)
             /\ step'[q] >= step[q] /\ percent'[q] >= percent[q]
  BY <1>0, <1>3 DEF OneRunStep, Forward, Untouched
<1>4. \/ CompleteUpload \/ SwapPage
      \/ DeleteFloor \/ RestoreFloor \/ LoseFloor
      \/ \E r \in Runs : Handlers(r) \/ Sweeps(r)
      \/ UNCHANGED vars
  BY DEF Next
<1>5. CASE CompleteUpload \/ SwapPage
  BY <1>0, <1>1, <1>5 DEF CompleteUpload, SwapPage
<1>6. CASE DeleteFloor \/ RestoreFloor \/ LoseFloor \/ UNCHANGED vars
  BY <1>0, <1>2, <1>6 DEF DeleteFloor, RestoreFloor, LoseFloor, others, vars
<1>7. CASE \E r \in Runs : Handlers(r) \/ Sweeps(r)
  BY <1>0, <1>3, <1>7, EveryHandlerIsForward
<1> QED
  BY <1>4, <1>5, <1>6, <1>7

\* A finished run is never touched again (_usable, start_run).
THEOREM FinishedRunsRest == Spec => FinalIsFinal
<1>1. IInv /\ [Next]_vars =>
         [\A r \in Runs : status[r] \in FinalStatuses =>
          /\ status'[r] = status[r] /\ step'[r] = step[r] /\ code'[r] = code[r]
          /\ percent'[r] = percent[r] /\ used'[r] = used[r] /\ summary'[r] = summary[r]
          /\ layers'[r] = layers[r] /\ notified'[r] = notified[r]]_vars
  BY StepIsMonotone DEF Untouched
<1> QED
  BY <1>1, Invariant, PTL DEF Spec, FinalIsFinal

\* No step takes a run back (record_step, _apply).
THEOREM RunsOnlyAdvance == Spec => ProgressNeverBack
<1>1. IInv /\ [Next]_vars => [\A r \in Runs : step'[r] >= step[r] /\ percent'[r] >= percent[r]]_vars
  BY StepIsMonotone
<1> QED
  BY <1>1, Invariant, PTL DEF Spec, ProgressNeverBack

-----------------------------------------------------------------------------
(* Refinement *)

LEMMA LifecycleInit == Init => Lifecycle!Init
BY DEF Init, Lifecycle!Init, Lifecycle!Runs, Runs, Phase, LiveStatuses

\* Opening a run is Open; a step of a run is Publish, Fail, Complete, or nothing to the lifecycle.
LEMMA LifecycleNext == IInv /\ [Next]_vars => [Lifecycle!Next]_Lifecycle!vars
<1> SUFFICES ASSUME IInv, [Next]_vars PROVE [Lifecycle!Next]_Lifecycle!vars
  OBVIOUS
<1> DEFINE phase == [r \in Runs |-> Phase(r)]
<1>0. TypeOK /\ TypeOK' /\ Lifecycle!Runs = Runs
  BY TypeNext DEF IInv, Lifecycle!Runs, Runs
<1>1. ASSUME NEW u, StartRun(u) PROVE Lifecycle!Open
  <2>1. /\ opened + 1 \in Runs /\ opened' = opened + 1 /\ UNCHANGED layers
        /\ \A q \in Runs : status'[q] = IF q = opened + 1 THEN "pending"
                                        ELSE IF status[q] \in LiveStatuses THEN "failed" ELSE status[q]
    BY <1>1 DEF StartRun
  <2>2. phase' = [q \in Runs |-> IF q = opened + 1 THEN "open"
                                 ELSE IF phase[q] = "open" THEN "failed" ELSE phase[q]]
    BY <1>0, <2>1 DEF Phase, LiveStatuses, TypeOK, Statuses, FinalStatuses
  <2> QED
    BY <1>0, <2>1, <2>2 DEF Lifecycle!Open
<1>2. ASSUME UNCHANGED <<runVars, layers>> PROVE UNCHANGED Lifecycle!vars
  BY <1>2 DEF Lifecycle!vars, runVars, Phase
<1>3. ASSUME NEW r \in Runs, OneRunStep(r) PROVE [Lifecycle!Next]_Lifecycle!vars
  <2>1. /\ opened' = opened /\ r = opened /\ phase[r] = "open"
        /\ \A q \in Runs \ {r} : phase'[q] = phase[q]
    BY <1>3 DEF OneRunStep, Untouched, Phase, IInv, OnlyNewestLives
  <2>2. CASE status'[r] \in LiveStatuses /\ layers' = layers
    <3>1. phase' = phase
      BY <2>1, <2>2 DEF Phase
    <3> QED
      BY <2>1, <2>2, <3>1 DEF Lifecycle!vars
  <2>3. CASE status'[r] \in LiveStatuses /\ layers[r] = 0 /\ layers' = [layers EXCEPT ![r] = 1]
    <3>1. phase' = phase
      BY <2>1, <2>3 DEF Phase
    <3>2. Lifecycle!Publish(r)
      BY <2>1, <2>3, <3>1 DEF Lifecycle!Publish, Lifecycle!IsOpen
    <3> QED
      BY <1>0, <3>2 DEF Lifecycle!Next
  <2>4. CASE status'[r] = "failed" /\ layers' = layers
    <3>1. phase' = [phase EXCEPT ![r] = "failed"]
      BY <2>1, <2>4 DEF Phase, LiveStatuses
    <3>2. Lifecycle!Fail(r)
      BY <2>1, <2>4, <3>1 DEF Lifecycle!Fail, Lifecycle!IsOpen
    <3> QED
      BY <1>0, <3>2 DEF Lifecycle!Next
  <2>5. CASE status'[r] = "completed" /\ layers[r] = 1 /\ layers' = layers
    <3>1. phase' = [phase EXCEPT ![r] = "completed"]
      BY <2>1, <2>5 DEF Phase, LiveStatuses
    <3>2. Lifecycle!Complete(r)
      BY <2>1, <2>5, <3>1 DEF Lifecycle!Complete, Lifecycle!IsOpen
    <3> QED
      BY <1>0, <3>2 DEF Lifecycle!Next
  <2> QED
    BY <1>3, <2>2, <2>3, <2>4, <2>5 DEF OneRunStep, Forward
<1>4. CASE CompleteUpload \/ SwapPage
  BY <1>1, <1>4 DEF CompleteUpload, SwapPage, Lifecycle!Next
<1>5. CASE DeleteFloor \/ RestoreFloor \/ LoseFloor \/ UNCHANGED vars
  BY <1>2, <1>5 DEF DeleteFloor, RestoreFloor, LoseFloor, others, vars
<1>6. CASE \E r \in Runs : Handlers(r) \/ Sweeps(r)
  BY <1>0, <1>3, <1>6, EveryHandlerIsForward
<1> QED
  BY <1>4, <1>5, <1>6 DEF Next

\* The pipeline of a floor implements the lifecycle of its runs: a layer is published once, only by
\* the newest run and only while it is live (_persist, start_run, record_step).
THEOREM PipelineImplementsLifecycle == Spec => ImplementsLifecycle
BY LifecycleInit, LifecycleNext, Invariant, PTL DEF Spec, ImplementsLifecycle, Lifecycle!Spec
-----------------------------------------------------------------------------
(* What the takeover takes: as long as the uploads of a floor complete in the  *)
(* order they were begun, a page correction supersedes no newer upload.        *)

\* The first run of an upload is opened after those of all uploads created before it.
InOrder ==
    opened' # opened /\ (\A r \in Runs : uploadOf[r] # uploadOf'[opened']) =>
        \A r \in Runs : uploadOf[r] < uploadOf'[opened']

\* The drawing is of an upload that has a run, and so has the live run: the newest upload, unless
\* it is the drawing's.
UploadsKnown ==
    /\ \A r \in Runs : r > opened => uploadOf[r] = 0
    /\ drawing # 0 => \E r \in Runs : uploadOf[r] = drawing
    /\ \A r \in Runs : status[r] \in LiveStatuses => HasContext(r) \/ OfNewestUpload(r)

\* A handler or a sweep leaves every run with its upload, and only a live run writes the drawing.
LEMMA HandlersKeepUploads ==
    ASSUME NEW r \in Runs, Handlers(r) \/ Sweeps(r)
    PROVE  /\ UNCHANGED <<uploadOf, supersededBy>>
           /\ drawing' = drawing \/ (Usable(r) /\ drawing' = uploadOf[r])
<1>1. CASE StartRead(r)
  BY <1>1 DEF StartRead, Fail
<1>2. CASE StartWrite(r)
  BY <1>2 DEF StartWrite, RecordCompleted, WritePage
<1>3. CASE \/ StartFailed(r) \/ BuildFailed(r) \/ PersistFailed(r) \/ QualityFailed(r) \/ SweepTimeout(r)
           \/ \E s \in MlSteps : InferFailed(r, s)
  BY <1>3 DEF StartFailed, BuildFailed, PersistFailed, QualityFailed, SweepTimeout, InferFailed, RecordFailed, Fail
<1>4. ASSUME NEW s \in MlSteps, InferCompleted(r, s)
      PROVE  UNCHANGED <<uploadOf, supersededBy, drawing>>
  BY <1>4 DEF InferCompleted, Advance, RecordCompleted, Fail, runVars
<1>5. CASE BuildCompleted(r) \/ PersistReplay(r) \/ QualityRead(r)
  BY <1>5 DEF BuildCompleted, PersistReplay, QualityRead, runVars
<1>6. CASE Persist(r)
  BY <1>6 DEF Persist, RecordCompleted, runVars
<1>7. CASE QualityWrite(r)
  BY <1>7 DEF QualityWrite, RecordCompleted, Fail
<1>8. CASE SweepResend(r)
  BY <1>8 DEF SweepResend, RecordFailed, Fail, runVars
<1>9. CASE RequeuePending(r) \/ StallPending(r)
  BY <1>9 DEF RequeuePending, StallPending, Fail
<1> QED
  BY <1>1, <1>2, <1>3, <1>4, <1>5, <1>6, <1>7, <1>8, <1>9 DEF Handlers, Sweeps

\* What opening a run does to the runs there are.
LEMMA OpensAtTheEnd ==
    ASSUME IInv, UploadsKnown, NEW u \in Runs, StartRun(u)
    PROVE  /\ opened' \in Runs /\ opened' # opened /\ opened \in Int /\ opened' = opened + 1
           /\ uploadOf'[opened'] = u /\ uploadOf[opened'] = 0 /\ drawing' = drawing
           /\ \A r \in Runs \ {opened'} : /\ uploadOf'[r] = uploadOf[r]
                                          /\ status'[r] \notin LiveStatuses
<1>1. opened + 1 \in Runs /\ opened' = opened + 1 /\ opened \in Int /\ opened + 1 > opened
  BY RunsAreIntegers DEF StartRun, IInv, TypeOK
<1>2. uploadOf[opened + 1] = 0 /\ uploadOf' = [uploadOf EXCEPT ![opened + 1] = u]
  BY <1>1 DEF UploadsKnown, StartRun
<1>3. \A r \in Runs \ {opened'} : status'[r] \notin LiveStatuses
  BY <1>1 DEF StartRun, LiveStatuses
<1> QED
  BY <1>1, <1>2, <1>3 DEF StartRun, IInv, TypeOK

LEMMA UploadsKnownNext ==
    IInv /\ UploadsKnown /\ [Next]_vars /\ [InOrder]_vars => UploadsKnown'
<1> SUFFICES ASSUME IInv, UploadsKnown, [Next]_vars, [InOrder]_vars PROVE UploadsKnown'
  OBVIOUS
<1>0. /\ uploadOf \in [Runs -> 0..MaxRuns] /\ opened \in Int /\ IInv'
      /\ Runs \subseteq Int /\ MaxRuns \in Nat /\ drawing \in 0..MaxRuns
  BY RunsAreIntegers, IInvNext, ConstantsAssumption DEF IInv, TypeOK
<1>1. ASSUME NEW u \in Runs, StartRun(u), (\A r \in Runs : uploadOf[r] < u) \/ u = drawing
      PROVE  UploadsKnown'
  <2>1. PICK new \in Runs :
           /\ new = opened' /\ new = opened + 1
           /\ uploadOf'[new] = u /\ uploadOf[new] = 0 /\ drawing' = drawing
           /\ \A r \in Runs \ {new} : uploadOf'[r] = uploadOf[r] /\ status'[r] \notin LiveStatuses
    BY <1>1, OpensAtTheEnd
  <2>2. \A r \in Runs : r > opened' => uploadOf'[r] = 0
    BY <1>0, <2>1 DEF UploadsKnown
  <2>3. drawing' # 0 => \E r \in Runs : uploadOf'[r] = drawing'
    BY <2>1 DEF UploadsKnown
  <2>4. HasContext(new)' \/ OfNewestUpload(new)'
    <3>1. CASE u = drawing
      BY <2>1, <3>1 DEF HasContext
    <3>2. CASE \A r \in Runs : uploadOf[r] < u
      <4>1. \A r \in Runs : uploadOf'[r] <= u /\ (uploadOf'[r] = u => r = new)
        BY <1>0, <2>1, <3>2
      <4>2. new <= new
        BY <1>0
      <4> QED
        BY <2>1, <4>1, <4>2 DEF OfNewestUpload
    <3> QED
      BY <1>1, <3>1, <3>2
  <2>5. \A r \in Runs : status'[r] \in LiveStatuses => r = new
    BY <2>1
  <2> QED
    BY <2>2, <2>3, <2>4, <2>5 DEF UploadsKnown, HasContext, OfNewestUpload
<1>2. CASE CompleteUpload
  <2>1. PICK u \in Runs : (\A r \in Runs : uploadOf[r] # u) /\ StartRun(u)
    BY <1>2 DEF CompleteUpload
  <2>2. opened' # opened /\ uploadOf'[opened'] = u
    BY <2>1, OpensAtTheEnd
  <2>3. \A r \in Runs : uploadOf[r] < u
    BY <2>1, <2>2 DEF InOrder, vars, runVars
  <2> QED
    BY <1>1, <2>1, <2>3
<1>3. CASE SwapPage
  <2>1. drawing \in Runs /\ StartRun(drawing)
    BY <1>0, <1>3 DEF SwapPage, Runs
  <2> QED
    BY <1>1, <2>1
<1>4. ASSUME UNCHANGED <<opened, uploadOf, drawing>>,
             \A r \in Runs : status'[r] \in LiveStatuses => status[r] \in LiveStatuses
      PROVE  UploadsKnown'
  BY <1>4 DEF UploadsKnown, HasContext, OfNewestUpload
<1>5. CASE DeleteFloor \/ RestoreFloor \/ LoseFloor \/ UNCHANGED vars
  BY <1>4, <1>5 DEF DeleteFloor, RestoreFloor, LoseFloor, others, vars, runVars
<1>6. ASSUME NEW r \in Runs, Handlers(r) \/ Sweeps(r) PROVE UploadsKnown'
  <2>1. /\ uploadOf' = uploadOf
        /\ drawing' = drawing \/ (Usable(r) /\ drawing' = uploadOf[r])
    BY <1>6, HandlersKeepUploads
  <2>2. /\ opened' = opened
        /\ \A q \in Runs : status'[q] \in LiveStatuses => status[q] \in LiveStatuses
    <3>1. OneRunStep(r)
      BY <1>0, <1>6, EveryHandlerIsForward DEF IInv
    <3> QED
      BY <3>1 DEF OneRunStep, Untouched
  <2>3. CASE drawing' = drawing
    BY <1>4, <2>1, <2>2, <2>3
  <2>4. CASE Usable(r) /\ drawing' = uploadOf[r]
    <3>1. \A q \in Runs : status'[q] \in LiveStatuses => q = r
      BY <2>2, <2>4 DEF Usable, IInv, OnlyNewestLives
    <3> QED
      BY <2>1, <2>2, <2>4, <3>1 DEF UploadsKnown, HasContext
  <2> QED
    BY <2>1, <2>3, <2>4
<1> QED
  BY <1>2, <1>3, <1>5, <1>6 DEF Next

\* What NewUploadKeepsItsRun says of one step.
LEMMA NewUploadIsSpared ==
    ASSUME IInv, UploadsKnown, [Next]_vars, NEW q \in Runs, status[q] \in LiveStatuses, supersededBy'[q] # 0
    PROVE  uploadOf'[opened'] = uploadOf[q] \/ \A r \in Runs : uploadOf[r] # uploadOf'[opened']
<1>0. /\ supersededBy[q] = 0 /\ uploadOf \in [Runs -> 0..MaxRuns] /\ MaxRuns \in Nat /\ drawing \in 0..MaxRuns
  BY ConstantsAssumption DEF IInv, OnlyNewestLives, TypeOK
<1>1. ~UNCHANGED supersededBy
  BY <1>0
<1>2. CASE CompleteUpload
  BY <1>2, OpensAtTheEnd DEF CompleteUpload
<1>3. CASE SwapPage
  <2>1. drawing \in Runs /\ StartRun(drawing) /\ ~NewerUploadPending
    BY <1>0, <1>3 DEF SwapPage, Runs
  <2>2. uploadOf'[opened'] = drawing
    BY <2>1, OpensAtTheEnd
  <2>3. CASE HasContext(q)
    BY <2>2, <2>3 DEF HasContext
  <2>4. CASE OfNewestUpload(q)
    <3>1. PICK r \in Runs : uploadOf[r] = drawing
      BY <1>3 DEF SwapPage, UploadsKnown
    <3>2. drawing <= uploadOf[q] /\ ~(uploadOf[q] > drawing)
      BY <2>1, <2>4, <3>1 DEF OfNewestUpload, NewerUploadPending, LiveStatuses
    <3> QED
      BY <1>0, <2>2, <3>2
  <2> QED
    BY <2>3, <2>4 DEF UploadsKnown
<1>4. CASE DeleteFloor \/ RestoreFloor \/ LoseFloor \/ UNCHANGED vars
  BY <1>1, <1>4 DEF DeleteFloor, RestoreFloor, LoseFloor, others, vars, runVars
<1>5. ASSUME NEW r \in Runs, Handlers(r) \/ Sweeps(r) PROVE FALSE
  BY <1>1, <1>5, HandlersKeepUploads
<1> QED
  BY <1>2, <1>3, <1>4, <1>5 DEF Next

\* As long as uploads complete in the order they were begun, a page correction supersedes the run
\* of no newer upload (_newer_upload_pending): finding 2 takes an upload that overtakes another.
THEOREM InOrderUploadsKeepTheirRun ==
    Spec /\ [][InOrder]_vars => NewUploadKeepsItsRun
<1>1. Init => UploadsKnown
  BY DEF Init, UploadsKnown, LiveStatuses
<1>2. IInv /\ UploadsKnown /\ [Next]_vars =>
        [\A r \in Runs : status[r] \in LiveStatuses /\ supersededBy'[r] # 0 =>
          uploadOf'[opened'] = uploadOf[r] \/ \A q \in Runs : uploadOf[q] # uploadOf'[opened']]_vars
  BY NewUploadIsSpared
<1> QED
  BY <1>1, <1>2, Invariant, UploadsKnownNext, PTL DEF Spec, NewUploadKeepsItsRun
-----------------------------------------------------------------------------
(* Why the sweeps end every run: what is left of a run's patience only shrinks. *)

\* How many sweeps a run can still take: the resends of its start, those of its current step, a full
\* count for each step ahead, and the one that fails it.
Budget(r) ==
    IF status[r] \in LiveStatuses
      THEN 1 + (RequeueMax - requeue[r]) + (StepRequeueMax - stepRequeue[r])
             + (QualityStep - step[r]) * (StepRequeueMax + 1)
      ELSE 0

SameBudget(q) ==
    /\ status'[q] = status[q] /\ step'[q] = step[q]
    /\ requeue'[q] = requeue[q] /\ stepRequeue'[q] = stepRequeue[q]

Ends(r) == status'[r] \notin LiveStatuses

\* A handler ends the run, leaves its counts alone, or takes it a step further.
Spends(r) ==
    \/ Ends(r)
    \/ requeue'[r] = requeue[r] /\ step'[r] = step[r] /\ stepRequeue'[r] = stepRequeue[r]
    \/ requeue'[r] = requeue[r] /\ step'[r] > step[r]

\* A sweep ends the run or uses up one of its resends.
SpendsOne(r) ==
    \/ Ends(r)
    \/ requeue'[r] = requeue[r] + 1 /\ step'[r] = step[r] /\ stepRequeue'[r] = stepRequeue[r]
    \/ requeue'[r] = requeue[r] /\ step'[r] = step[r] /\ stepRequeue'[r] = stepRequeue[r] + 1

LEMMA BudgetType ==
    ASSUME TypeOK, NEW r \in Runs
    PROVE  /\ Budget(r) \in Nat
           /\ status[r] \in LiveStatuses => Budget(r) >= 1
<1> DEFINE ahead == (QualityStep - step[r]) * (StepRequeueMax + 1)
<1>1. /\ RequeueMax - requeue[r] \in Nat /\ StepRequeueMax - stepRequeue[r] \in Nat
      /\ QualityStep - step[r] \in Nat /\ StepRequeueMax + 1 \in Nat
  BY ConstantsAssumption DEF TypeOK, Steps, QualityStep
<1>2. ahead \in Nat
  BY <1>1
<1>3. Budget(r) = IF status[r] \in LiveStatuses
                    THEN 1 + (RequeueMax - requeue[r]) + (StepRequeueMax - stepRequeue[r]) + ahead
                    ELSE 0
  BY DEF Budget
<1> HIDE DEF ahead
<1> QED
  BY <1>1, <1>2, <1>3

LEMMA OneStepLess ==
    ASSUME NEW a \in Nat, NEW b \in Nat, NEW c \in Nat, a < b
    PROVE  a * c + c <= b * c
<1>1. PICK d \in Nat : b = a + 1 + d
  <2>1. b - a - 1 \in Nat /\ b = a + 1 + (b - a - 1)
    OBVIOUS
  <2> QED
    BY <2>1
<1>2. b * c = a * c + c + d * c
  BY <1>1
<1>3. d * c \in Nat /\ a * c \in Nat
  OBVIOUS
<1> QED
  BY <1>2, <1>3

LEMMA SpendingShrinks ==
    ASSUME TypeOK, TypeOK', NEW r \in Runs, status[r] \in LiveStatuses
    PROVE  /\ Spends(r) => Budget(r)' <= Budget(r)
           /\ SpendsOne(r) => Budget(r)' < Budget(r) /\ Budget(r)' <= Budget(r)
<1> DEFINE a == QualityStep - step[r]
           b == QualityStep - step'[r]
           c == StepRequeueMax + 1
<1>0. /\ RequeueMax - requeue[r] \in Nat /\ StepRequeueMax - stepRequeue[r] \in Nat
      /\ RequeueMax \in Nat /\ StepRequeueMax \in Nat
      /\ requeue[r] \in Nat /\ stepRequeue[r] \in Nat /\ stepRequeue'[r] \in Nat
      /\ step[r] \in Nat /\ step'[r] \in Nat
      /\ a \in Nat /\ b \in Nat /\ c \in Nat
  BY ConstantsAssumption DEF TypeOK, Steps, QualityStep
<1>1. /\ Budget(r) = 1 + (RequeueMax - requeue[r]) + (StepRequeueMax - stepRequeue[r]) + a * c
      /\ Budget(r) \in Nat /\ Budget(r) >= 1
  BY BudgetType DEF Budget
<1>2. Ends(r) => Budget(r)' = 0
  BY DEF Ends, Budget
<1>3. ~Ends(r) => Budget(r)' = 1 + (RequeueMax - requeue'[r]) + (StepRequeueMax - stepRequeue'[r]) + b * c
  BY DEF Ends, Budget
<1>4. step'[r] = step[r] => a * c = b * c
  OBVIOUS
<1>5. step'[r] > step[r] => b * c + c <= a * c
  <2>1. step'[r] > step[r] => b < a
    BY <1>0 DEF QualityStep
  <2> QED
    BY <1>0, <2>1, OneStepLess
<1>6. a * c \in Nat /\ b * c \in Nat
  BY <1>0
<1> DEFINE ac == a * c
           bc == b * c
<1>7. /\ Budget(r) = 1 + (RequeueMax - requeue[r]) + (StepRequeueMax - stepRequeue[r]) + ac
      /\ ~Ends(r) => Budget(r)' = 1 + (RequeueMax - requeue'[r]) + (StepRequeueMax - stepRequeue'[r]) + bc
      /\ step'[r] = step[r] => ac = bc
      /\ step'[r] > step[r] => bc + StepRequeueMax + 1 <= ac
      /\ ac \in Nat /\ bc \in Nat
  BY <1>0, <1>1, <1>3, <1>4, <1>5, <1>6
<1> HIDE DEF ac, bc
<1> QED
  BY <1>0, <1>1, <1>2, <1>7 DEF Spends, SpendsOne

LEMMA FailEnds ==
    ASSUME TypeOK, NEW r \in Runs, NEW s \in Steps, NEW c \in Codes,
           RecordFailed(r, s, c) \/ Fail(r, s, c), stepRequeue' = stepRequeue
    PROVE  Ends(r) /\ \A q \in Runs \ {r} : SameBudget(q)
<1>1. /\ status' = [status EXCEPT ![r] = "failed"] /\ requeue' = requeue
      /\ \A q \in Runs \ {r} : step'[q] = step[q]
  BY DEF RecordFailed, Fail, TypeOK
<1> QED
  BY <1>1 DEF Ends, SameBudget, TypeOK, LiveStatuses

LEMMA CloseSpends ==
    ASSUME TypeOK, NEW r \in Runs, NEW s \in Steps, RecordCompleted(r, s), step[r] <= s,
           stepRequeue' = stepRequeue \/ stepRequeue' = [stepRequeue EXCEPT ![r] = 0]
    PROVE  Spends(r) /\ \A q \in Runs \ {r} : SameBudget(q)
<1>1. /\ requeue' = requeue
      /\ step' = [step EXCEPT ![r] = IF s = QualityStep THEN s ELSE s + 1]
      /\ status' = IF s = QualityStep THEN [status EXCEPT ![r] = "completed"] ELSE status
      /\ step[r] \in Nat /\ s \in Nat
  BY DEF RecordCompleted, TypeOK, Steps
<1>2. \A q \in Runs \ {r} : SameBudget(q)
  BY <1>1 DEF SameBudget, TypeOK
<1>3. CASE s = QualityStep
  BY <1>1, <1>2, <1>3 DEF Spends, Ends, TypeOK, LiveStatuses
<1>4. CASE s # QualityStep
  <2>1. step'[r] = s + 1 /\ s + 1 > step[r]
    BY <1>1, <1>4 DEF TypeOK
  <2> QED
    BY <1>1, <1>2, <2>1 DEF Spends
<1> QED
  BY <1>3, <1>4

LEMMA SendSpends ==
    ASSUME NEW r \in Runs, UNCHANGED <<step, requeue, stepRequeue>>,
           \A q \in Runs \ {r} : status'[q] = status[q]
    PROVE  Spends(r) /\ \A q \in Runs \ {r} : SameBudget(q)
BY DEF Spends, SameBudget

LEMMA EveryHandlerSpends ==
    ASSUME IInv, NEW r \in Runs, Handlers(r)
    PROVE  Spends(r) /\ \A q \in Runs \ {r} : SameBudget(q)
<1>0. /\ TypeOK
      /\ Preprocess \in Steps /\ BuildStep \in Steps /\ QualityStep \in Steps /\ MlSteps \subseteq Steps
      /\ {"FLOOR_DELETED", "STEP_FAILED", "PIPELINE_RESULT_INVALID"} \subseteq Codes
      /\ step[r] \in Steps
  BY DEF IInv, TypeOK, Steps, MlSteps, Preprocess, BuildStep, QualityStep, Codes, SilentFailures
<1>1. CASE StartRead(r)
  <2>1. stepRequeue' = stepRequeue
    BY <1>1 DEF StartRead
  <2>2. CASE Fail(r, step[r], "FLOOR_DELETED")
    BY <1>0, <2>1, <2>2, FailEnds DEF Spends
  <2>3. CASE status' = [status EXCEPT ![r] = "running"] /\ UNCHANGED <<step, requeue>>
    BY <1>0, <2>1, <2>3, SendSpends DEF TypeOK
  <2> QED
    BY <1>1, <2>2, <2>3 DEF StartRead
<1>2. CASE StartWrite(r)
  <2>1. step[r] <= Preprocess /\ RecordCompleted(r, Preprocess) /\ stepRequeue' = [stepRequeue EXCEPT ![r] = 0]
    BY <1>2 DEF StartWrite, Preprocess
  <2> QED
    BY <1>0, <2>1, CloseSpends
<1>3. CASE StartFailed(r) \/ PersistFailed(r) \/ QualityFailed(r) \/ BuildFailed(r)
  <2>1. PICK s \in Steps, c \in Codes : RecordFailed(r, s, c)
    BY <1>0, <1>3 DEF StartFailed, PersistFailed, QualityFailed, BuildFailed
  <2>2. stepRequeue' = stepRequeue
    BY <1>3 DEF StartFailed, PersistFailed, QualityFailed, BuildFailed, pinVars
  <2> QED
    BY <1>0, <2>1, <2>2, FailEnds DEF Spends
<1>4. ASSUME NEW s \in MlSteps, InferCompleted(r, s)
      PROVE  Spends(r) /\ \A q \in Runs \ {r} : SameBudget(q)
  <2>1. PICK t \in Steps :
           \/ UNCHANGED <<runVars, stepRequeue, sent, notified>>
           \/ Fail(r, step[r], "FLOOR_DELETED") /\ stepRequeue' = stepRequeue
           \/ /\ t > step[r] /\ t \in MlSteps \cup {BuildStep} /\ RecordCompleted(r, t - 1)
              /\ stepRequeue' = [stepRequeue EXCEPT ![r] = 0]
    BY <1>4 DEF InferCompleted, Advance, Reaches
  <2>2. CASE UNCHANGED <<runVars, stepRequeue, sent, notified>>
    BY <2>2, SendSpends DEF runVars
  <2>3. CASE Fail(r, step[r], "FLOOR_DELETED") /\ stepRequeue' = stepRequeue
    BY <1>0, <2>3, FailEnds DEF Spends
  <2>4. CASE /\ t > step[r] /\ t \in MlSteps \cup {BuildStep} /\ RecordCompleted(r, t - 1)
             /\ stepRequeue' = [stepRequeue EXCEPT ![r] = 0]
    <3>1. t - 1 \in Steps /\ step[r] <= t - 1
      BY <1>0, <2>4 DEF Steps, MlSteps, BuildStep
    <3> QED
      BY <1>0, <2>4, <3>1, CloseSpends
  <2> QED
    BY <2>1, <2>2, <2>3, <2>4
<1>5. ASSUME NEW s \in MlSteps, InferFailed(r, s)
      PROVE  Spends(r) /\ \A q \in Runs \ {r} : SameBudget(q)
  BY <1>0, <1>5, FailEnds DEF InferFailed, pinVars, Spends
<1>6. CASE BuildCompleted(r) \/ PersistReplay(r) \/ QualityRead(r)
  BY <1>6, SendSpends DEF BuildCompleted, PersistReplay, QualityRead, runVars, pinVars
<1>7. CASE Persist(r)
  <2>1. ~persisted[r] /\ status[r] \in LiveStatuses /\ stepRequeue' = [stepRequeue EXCEPT ![r] = 0]
    BY <1>7 DEF Persist, FirstPersist, Usable
  <2>2. step[r] # QualityStep
    BY <2>1 DEF IInv, StepMatchesEvidence
  <2>3. step[r] <= BuildStep
    BY <1>0, <2>2 DEF Steps, BuildStep, QualityStep
  <2>4. RecordCompleted(r, BuildStep)
    BY <1>7, <2>3 DEF Persist
  <2> QED
    BY <1>0, <2>1, <2>3, <2>4, CloseSpends
<1>8. CASE QualityWrite(r)
  <2>1. stepRequeue' = stepRequeue
    BY <1>8 DEF QualityWrite
  <2>2. step[r] <= QualityStep
    BY <1>0 DEF Steps, QualityStep
  <2> QED
    BY <1>0, <1>8, <2>1, <2>2, FailEnds, CloseSpends DEF QualityWrite, Spends
<1> QED
  BY <1>1, <1>2, <1>3, <1>4, <1>5, <1>6, <1>7, <1>8 DEF Handlers

LEMMA EverySweepSpends ==
    ASSUME IInv, NEW r \in Runs, Sweeps(r)
    PROVE  SpendsOne(r) /\ \A q \in Runs \ {r} : SameBudget(q)
<1>0. /\ TypeOK /\ step[r] \in Steps
      /\ {"PIPELINE_RESULT_INVALID", "PIPELINE_STEP_TIMEOUT", "PIPELINE_STALLED"} \subseteq Codes
  BY DEF IInv, TypeOK, Codes
<1>1. CASE SweepResend(r)
  <2>1. stepRequeue' = [stepRequeue EXCEPT ![r] = @ + 1]
    BY <1>1 DEF SweepResend
  <2>2. CASE UNCHANGED <<runVars, notified>>
    BY <1>0, <2>1, <2>2 DEF runVars, SpendsOne, SameBudget, TypeOK
  <2>3. CASE RecordFailed(r, step[r], "PIPELINE_RESULT_INVALID")
    <3>1. /\ status' = [status EXCEPT ![r] = "failed"] /\ requeue' = requeue
          /\ \A q \in Runs \ {r} : step'[q] = step[q]
      BY <1>0, <2>3 DEF RecordFailed, Fail, TypeOK
    <3> QED
      BY <1>0, <2>1, <3>1 DEF SpendsOne, Ends, SameBudget, TypeOK, LiveStatuses
  <2> QED
    BY <1>1, <2>2, <2>3 DEF SweepResend
<1>2. CASE SweepTimeout(r) \/ StallPending(r)
  BY <1>0, <1>2, FailEnds DEF SweepTimeout, StallPending, pinVars, SpendsOne
<1>3. CASE RequeuePending(r)
  <2>1. requeue' = [requeue EXCEPT ![r] = @ + 1] /\ UNCHANGED <<status, step, stepRequeue>>
    BY <1>3 DEF RequeuePending, pinVars
  <2> QED
    BY <1>0, <2>1 DEF SpendsOne, SameBudget, TypeOK
<1> QED
  BY <1>1, <1>2, <1>3 DEF Sweeps

\* Every sweep brings a live run nearer to its end and nothing takes one further away: the argument
\* behind LiveRunEnds, for any caps (_requeue_one, _requeue_body, record_step).
EverySweepCounts ==
    [][\A r \in Runs : status[r] \in LiveStatuses =>
          /\ Budget(r) \in Nat
          /\ Budget(r)' <= Budget(r)
          /\ Sweeps(r) => Budget(r)' < Budget(r)]_vars

LEMMA BudgetNext ==
    ASSUME IInv, [Next]_vars, NEW q \in Runs, status[q] \in LiveStatuses
    PROVE  Budget(q)' <= Budget(q) /\ (Sweeps(q) => Budget(q)' < Budget(q))
<1>0. TypeOK /\ TypeOK' /\ Budget(q) \in Nat
  BY TypeNext, BudgetType DEF IInv
<1>1. ASSUME SameBudget(q) PROVE Budget(q)' <= Budget(q)
  <2>1. Budget(q)' = Budget(q)
    BY <1>1 DEF SameBudget, Budget
  <2> QED
    BY <1>0, <2>1
<1>2. ASSUME NEW r \in Runs, Handlers(r) PROVE Budget(q)' <= Budget(q)
  BY <1>0, <1>1, <1>2, EveryHandlerSpends, SpendingShrinks
<1>3. ASSUME Sweeps(q) PROVE Budget(q)' < Budget(q) /\ Budget(q)' <= Budget(q)
  BY <1>0, <1>3, EverySweepSpends, SpendingShrinks
<1>4. ASSUME NEW r \in Runs, Sweeps(r) PROVE Budget(q)' <= Budget(q)
  <2>1. CASE r = q
    BY <1>3, <1>4, <2>1
  <2>2. CASE r # q
    BY <1>1, <1>4, <2>2, EverySweepSpends
  <2> QED
    BY <2>1, <2>2
<1>5. ASSUME NEW u, StartRun(u) PROVE Budget(q)' <= Budget(q)
  <2>1. opened + 1 # q
    BY <1>0, RunsAreIntegers DEF IInv, Fresh, LiveStatuses, TypeOK
  <2>2. status'[q] \notin LiveStatuses
    BY <1>0, <1>5, <2>1 DEF StartRun, LiveStatuses
  <2> QED
    BY <1>0, <2>2 DEF Budget
<1>6. ASSUME CompleteUpload \/ SwapPage PROVE Budget(q)' <= Budget(q)
  BY <1>5, <1>6 DEF CompleteUpload, SwapPage
<1>7. ASSUME DeleteFloor \/ RestoreFloor \/ LoseFloor \/ UNCHANGED vars PROVE Budget(q)' <= Budget(q)
  BY <1>1, <1>7 DEF DeleteFloor, RestoreFloor, LoseFloor, others, vars, runVars, pinVars, SameBudget
<1> QED
  BY <1>2, <1>3, <1>4, <1>6, <1>7 DEF Next

THEOREM SweepsUseUpTheRun == Spec => EverySweepCounts
<1>1. IInv /\ [Next]_vars =>
        [\A r \in Runs : status[r] \in LiveStatuses =>
          /\ Budget(r) \in Nat
          /\ Budget(r)' <= Budget(r)
          /\ Sweeps(r) => Budget(r)' < Budget(r)]_vars
  BY BudgetNext, BudgetType DEF IInv
<1> QED
  BY <1>1, Invariant, PTL DEF Spec, EverySweepCounts
=============================================================================
