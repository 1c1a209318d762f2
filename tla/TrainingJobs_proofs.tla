------------------------- MODULE TrainingJobs_proofs -------------------------
(***************************************************************************)
(* What TLAPS proves of TrainingJobs, for any number of launches and of    *)
(* resends: the type invariant, that the weights of a registered model are *)
(* kept, and that what a job ended as is final.                            *)
(*                                                                         *)
(* ModelIsStored is not inductive: a schedule or the bridge may act on     *)
(* what it read earlier.  Pending says what such a reading is still worth: *)
(* a purge that listed the job found it failed or cancelled, and weights   *)
(* that were found are there unless the job ended so since.                *)
(***************************************************************************)
EXTENDS TrainingJobs, TLAPS

Pending ==
    /\ purge => status \in {"failed", "cancelled"}
    /\ \A c \in checks :
         /\ c.m.st = "succeeded"
         /\ c.ok => c.m.key \in store \/ status \in {"failed", "cancelled"}
IInv == TypeOK /\ Pending /\ ModelIsStored

(* Only a report of success names a launch, and it is the only one with that status. *)
LEMMA MessageFacts ==
    /\ \A m \in Messages : m.st = "succeeded" => m.key \in Tokens
    /\ Heartbeat \in Messages
    /\ Report("failed", None) \in Messages /\ Report("cancelled", None) \in Messages
    /\ \A t \in Tokens : Report("succeeded", t) \in Messages
    /\ Report("failed", None).st = "failed" /\ Report("cancelled", None).st = "cancelled"
    /\ None \notin Tokens
<1>1. None \notin Tokens
    BY ConstantsAssumption DEF Tokens
<1>2. Heartbeat.st = "running"
    BY DEF Heartbeat
<1>3. \A st, key : Report(st, key).st = st /\ Report(st, key).key = key
    BY DEF Report
<1>4. \A m \in Messages : m.st = "succeeded" => m.key \in Tokens
  <2> TAKE m \in Messages
  <2>1. CASE m = Heartbeat \/ m = Report("failed", None) \/ m = Report("cancelled", None)
    BY <2>1, <1>2, <1>3
  <2>2. CASE \E t \in Tokens : m = Report("succeeded", t)
    BY <2>2, <1>3
  <2> QED BY <2>1, <2>2 DEF Messages
<1> QED BY <1>1, <1>3, <1>4 DEF Messages

LEMMA IInvInit == Init => IInv
<1> SUFFICES ASSUME Init PROVE IInv
    OBVIOUS
<1>1. NoLaunch \in [pc : {"none", "asked", "prepare", "train", "put", "gone"},
                    lost : BOOLEAN, stop : {"no", "cancelled", "lost", "failed"}]
    BY DEF NoLaunch
<1>2. 0 \in 0..MaxResends /\ 1 <= 0 + 1
    BY ConstantsAssumption
<1>3. TypeOK
    BY <1>1, <1>2 DEF Init, TypeOK, Finished
<1> QED BY <1>3 DEF Init, IInv, Pending, ModelIsStored

(* A step of a launch that touches neither the row nor what schedules and bridge hold. *)
LEMMA StaysKeeps ==
    ASSUME Pending, ModelIsStored, Stays
    PROVE  Pending' /\ ModelIsStored'
BY DEF Pending, ModelIsStored, Stays, row, schedules

(* Moving a launch on, or ending it, keeps its type. *)
LEMMA ChildType ==
    ASSUME TypeOK, NEW t \in Tokens,
           \/ Ends(t)
           \/ \E pc \in {"asked", "prepare", "train", "put"} : Goes(t, pc)
           \/ child' = [child EXCEPT ![t].lost = TRUE]
           \/ \E reason \in {"cancelled", "lost", "failed"} : child' = [child EXCEPT ![t].stop = reason]
           \/ UNCHANGED child
    PROVE  child' \in [Tokens -> [pc : {"none", "asked", "prepare", "train", "put", "gone"},
                                  lost : BOOLEAN, stop : {"no", "cancelled", "lost", "failed"}]]
<1> DEFINE pcs == {"none", "asked", "prepare", "train", "put", "gone"}
           Type == [pc : pcs, lost : BOOLEAN, stop : {"no", "cancelled", "lost", "failed"}]
<1>1. child \in [Tokens -> Type]
    BY DEF TypeOK
<1>2. CASE Ends(t)
  <2>1. [NoLaunch EXCEPT !.pc = "gone"] \in Type
    BY DEF NoLaunch
  <2> QED BY <1>1, <1>2, <2>1 DEF Ends
<1>3. CASE \E pc \in {"asked", "prepare", "train", "put"} : Goes(t, pc)
    BY <1>1, <1>3 DEF Goes
<1>4. CASE child' = [child EXCEPT ![t].lost = TRUE]
    BY <1>1, <1>4
<1>5. CASE \E reason \in {"cancelled", "lost", "failed"} : child' = [child EXCEPT ![t].stop = reason]
    BY <1>1, <1>5
<1>6. CASE UNCHANGED child
    BY <1>1, <1>6
<1> QED BY <1>2, <1>3, <1>4, <1>5, <1>6

(* Sending adds a message or nothing. *)
LEMMA SendType ==
    ASSUME TypeOK, NEW m \in Messages, Send(m)
    PROVE  msgs' \subseteq Messages
BY DEF TypeOK, Send

THEOREM IInvNext == IInv /\ [Next]_vars => IInv'
<1> SUFFICES ASSUME IInv, [Next]_vars PROVE IInv'
    OBVIOUS
<1> USE MessageFacts
<1>0. TypeOK /\ Pending /\ ModelIsStored
    BY DEF IInv
<1>1. CASE \E t \in Tokens : StartTask(t)
  <2> PICK t \in Tokens : StartTask(t)
    BY <1>1
  <2>1. Stays
    BY DEF StartTask
  <2>2. TypeOK'
    BY <1>0, ChildType DEF TypeOK, StartTask, Stays, row, keys, schedules
  <2> QED BY <1>0, <2>1, <2>2, StaysKeeps DEF IInv
<1>2. CASE \E t \in Tokens : Launch(t)
  <2> PICK t \in Tokens : Launch(t)
    BY <1>2
  <2>1. Stays
    BY DEF Launch
  <2>2. TypeOK'
    BY <1>0, ChildType, SendType DEF TypeOK, Launch, Stays, row, schedules
  <2> QED BY <1>0, <2>1, <2>2, StaysKeeps DEF IInv
<1>3. CASE \E t \in Tokens : Stopped(t)
  <2> PICK t \in Tokens : Stopped(t)
    BY <1>3
  <2>1. Stays
    BY DEF Stopped
  <2>2. child[t].stop \in {"cancelled", "lost", "failed"}
    BY <1>0 DEF TypeOK, Stopped
  <2>3. msgs' \subseteq Messages
    BY <1>0, <2>2, SendType DEF TypeOK, Stopped
  <2>4. TypeOK'
    BY <1>0, <2>3, ChildType DEF TypeOK, Stopped, Leaves, Stays, row, schedules
  <2> QED BY <1>0, <2>1, <2>4, StaysKeeps DEF IInv
<1>4. CASE \E t \in Tokens : Fails(t)
  <2> PICK t \in Tokens : Fails(t)
    BY <1>4
  <2>1. Stays
    BY DEF Fails
  <2>2. TypeOK'
    BY <1>0, ChildType, SendType DEF TypeOK, Fails, Leaves, Stays, row, schedules
  <2> QED BY <1>0, <2>1, <2>2, StaysKeeps DEF IInv
<1>5. CASE \E t \in Tokens : HoldLocks(t)
  <2> PICK t \in Tokens : HoldLocks(t)
    BY <1>5
  <2>1. Stays
    BY DEF HoldLocks
  <2>2. TypeOK'
    BY <1>0, ChildType, SendType DEF TypeOK, HoldLocks, Stays, row, keys, schedules
  <2> QED BY <1>0, <2>1, <2>2, StaysKeeps DEF IInv
<1>6. CASE \E t \in Tokens : Publish(t)
  <2> PICK t \in Tokens : Publish(t)
    BY <1>6
  <2>1. Stays
    BY DEF Publish
  <2>2. TypeOK'
    BY <1>0, ChildType DEF TypeOK, Publish, Stays, row, keys, schedules
  <2> QED BY <1>0, <2>1, <2>2, StaysKeeps DEF IInv
<1>7. CASE \E t \in Tokens : PutAndReport(t)
  <2> PICK t \in Tokens : PutAndReport(t)
    BY <1>7
  <2>1. TypeOK'
    BY <1>0, ChildType, SendType DEF TypeOK, PutAndReport, Leaves, row, schedules
  <2>2. Pending' /\ ModelIsStored'
    BY <1>0 DEF PutAndReport, Pending, ModelIsStored, row, schedules
  <2> QED BY <2>1, <2>2 DEF IInv
<1>8. CASE \E t \in Tokens : Renew(t)
  <2> PICK t \in Tokens : Renew(t)
    BY <1>8
  <2>1. Stays
    BY DEF Renew
  <2>2. TypeOK'
    BY <1>0, ChildType DEF TypeOK, Renew, Stays, row, schedules
  <2> QED BY <1>0, <2>1, <2>2, StaysKeeps DEF IInv
<1>9. CASE \E t \in Tokens : Probe(t)
  <2> PICK t \in Tokens : Probe(t)
    BY <1>9
  <2>1. Stays
    BY DEF Probe
  <2>2. TypeOK'
    BY <1>0, ChildType DEF TypeOK, Probe, Stays, row, keys, schedules
  <2> QED BY <1>0, <2>1, <2>2, StaysKeeps DEF IInv
<1>10. CASE \E t \in Tokens : Beat(t) \/ Crash(t)
  <2> PICK t \in Tokens : Beat(t) \/ Crash(t)
    BY <1>10
  <2>1. Stays
    BY DEF Beat, Crash
  <2>2. TypeOK'
    BY <1>0, ChildType DEF TypeOK, Beat, Crash, Stays, row, keys, schedules
  <2> QED BY <1>0, <2>1, <2>2, StaysKeeps DEF IInv
<1>11. CASE Expire \/ ExpireCancel
  <2>1. Stays
    BY <1>11 DEF Expire, ExpireCancel
  <2>2. TypeOK'
    BY <1>0, <1>11 DEF TypeOK, Expire, ExpireCancel, Stays, row, schedules
  <2> QED BY <1>0, <2>1, <2>2, StaysKeeps DEF IInv
<1>12. CASE RecordHeartbeat
  <2>1. TypeOK'
    BY <1>0, <1>12 DEF TypeOK, RecordHeartbeat, Finished, schedules
  <2>2. Pending' /\ ModelIsStored'
    BY <1>0, <1>12 DEF Pending, ModelIsStored, RecordHeartbeat, Finished, schedules
  <2> QED BY <2>1, <2>2 DEF IInv
<1>13. CASE StatWeights
  <2>1. TypeOK'
    BY <1>0, <1>13 DEF TypeOK, StatWeights, row, keys, schedules
  <2>2. Pending' /\ ModelIsStored'
    BY <1>0, <1>13 DEF Pending, ModelIsStored, StatWeights, row, schedules
  <2> QED BY <2>1, <2>2 DEF IInv
<1>14. CASE FinishTask
  <2> DEFINE plain == {[m |-> m, ok |-> FALSE] : m \in msgs \cap {Report("failed", None), Report("cancelled", None)}}
  <2>1. PICK c \in checks \cup plain :
          /\ FinishJob(c.m, c.ok)
          /\ checks' = checks \ {c}
          /\ msgs' \in {msgs, msgs \ {c.m}}
    BY <1>14 DEF FinishTask
  <2>2. /\ c.m \in Messages /\ c.ok \in BOOLEAN
        /\ c.m.st \in {"succeeded", "failed", "cancelled"}
        /\ c.m.st = "succeeded" => c \in checks /\ c.m.key \in Tokens
    <3>1. CASE c \in checks
      BY <1>0, <3>1 DEF TypeOK, Pending
    <3>2. CASE c \in plain
      <4>1. PICK m \in msgs \cap {Report("failed", None), Report("cancelled", None)} : c = [m |-> m, ok |-> FALSE]
        BY <3>2
      <4>2. c.m = m /\ c.ok = FALSE
        BY <4>1
      <4> QED BY <4>1, <4>2
    <3> QED BY <3>1, <3>2
  <2>3. UNCHANGED <<resends, purged, claim, starts, child, store, silent, sweep, requeue, purge>>
    BY <1>14 DEF FinishTask, schedules
  <2>4. \/ status \in Finished /\ status' = status /\ result' = result /\ cancelKey' = TRUE
        \/ status \notin Finished /\ status' \in {"failed", "cancelled"} /\ result' = result /\ cancelKey' = TRUE
        \/ /\ status \notin Finished /\ c.m.st = "succeeded" /\ c.ok
           /\ status' = "succeeded" /\ result' = c.m.key /\ cancelKey' = cancelKey
    BY <2>1, <2>2 DEF FinishJob, Closes, Succeeds
  <2>5. TypeOK'
    <3>1. status' \in Finished /\ cancelKey' \in BOOLEAN
      BY <1>0, <2>4 DEF TypeOK, Finished
    <3>2. result' \in Tokens \cup {None} /\ (result' # None <=> status' = "succeeded")
      BY <1>0, <2>2, <2>4 DEF TypeOK, Finished
    <3>3. checks' \subseteq [m : Messages, ok : BOOLEAN] /\ msgs' \subseteq Messages
      BY <1>0, <2>1 DEF TypeOK
    <3> QED BY <1>0, <2>3, <3>1, <3>2, <3>3 DEF TypeOK
  <2>6. Pending' /\ ModelIsStored'
    BY <1>0, <2>1, <2>2, <2>3, <2>4 DEF Pending, ModelIsStored, Finished
  <2> QED BY <2>5, <2>6 DEF IInv
<1>15. CASE Cancel
  <2>1. TypeOK'
    BY <1>0, <1>15 DEF TypeOK, Cancel, Finished, schedules
  <2>2. Pending' /\ ModelIsStored'
    BY <1>0, <1>15 DEF Pending, ModelIsStored, Cancel, schedules
  <2> QED BY <2>1, <2>2 DEF IInv
<1>16. CASE Silence \/ SweepRead \/ RequeueRead
  <2>1. TypeOK'
    BY <1>0, <1>16 DEF TypeOK, Silence, SweepRead, RequeueRead, Lost, row, keys, schedules
  <2>2. Pending' /\ ModelIsStored'
    BY <1>0, <1>16 DEF Pending, ModelIsStored, Silence, SweepRead, RequeueRead, row, schedules
  <2> QED BY <2>1, <2>2 DEF IInv
<1>17. CASE FinishLost
  <2>1. TypeOK'
    BY <1>0, <1>17 DEF TypeOK, FinishLost, Closes, Finished
  <2>2. Pending' /\ ModelIsStored'
    BY <1>0, <1>17 DEF TypeOK, Pending, ModelIsStored, FinishLost, Closes
  <2> QED BY <2>1, <2>2 DEF IInv
<1>18. CASE Requeue
  <2>1. TypeOK'
    <3>1. UNCHANGED <<purged, claim, msgs, child, store, checks, silent, sweep, purge>> /\ requeue' = FALSE
      BY <1>18 DEF Requeue
    <3>2. /\ status' \in Finished \cup {"queued", "running", "cancelling"}
          /\ result' \in Tokens \cup {None} /\ (result' # None <=> status' = "succeeded")
          /\ cancelKey' \in BOOLEAN
      BY <1>0, <1>18 DEF TypeOK, Requeue, RequeueJob, Closes, Finished
    <3>3. resends' \in 0..MaxResends /\ starts' \in Nat /\ starts' <= resends' + 1
      BY <1>0, <1>18, ConstantsAssumption DEF TypeOK, Requeue, RequeueJob
    <3> QED BY <1>0, <3>1, <3>2, <3>3 DEF TypeOK
  <2>2. Pending' /\ ModelIsStored'
    BY <1>0, <1>18 DEF Pending, ModelIsStored, Requeue, RequeueJob, Closes
  <2> QED BY <2>1, <2>2 DEF IInv
<1>19. CASE PurgeRead \/ PurgeOne
  <2>1. TypeOK'
    BY <1>0, <1>19 DEF TypeOK, PurgeRead, PurgeOne, row, keys
  <2>2. Pending' /\ ModelIsStored'
    BY <1>0, <1>19 DEF Pending, ModelIsStored, PurgeRead, PurgeOne, row
  <2> QED BY <2>1, <2>2 DEF IInv
<1>20. CASE UNCHANGED vars
  BY <1>0, <1>20 DEF IInv, TypeOK, Pending, ModelIsStored, vars, row, keys, schedules
<1> QED
  BY <1>1, <1>2, <1>3, <1>4, <1>5, <1>6, <1>7, <1>8, <1>9, <1>10, <1>11, <1>12, <1>13, <1>14,
     <1>15, <1>16, <1>17, <1>18, <1>19, <1>20 DEF Next, Works, Schedules

(* The rows keep their types and the CHECKs of training_jobs. *)
THEOREM TypeCorrect == Spec => []TypeOK
<1>1. IInv => TypeOK
    BY DEF IInv
<1> QED BY <1>1, IInvInit, IInvNext, PTL DEF Spec

(* The weights of a model version that a job registered stay in the storage. *)
THEOREM ModelKept == Spec => []ModelIsStored
<1>1. IInv => ModelIsStored
    BY DEF IInv
<1> QED BY <1>1, IInvInit, IInvNext, PTL DEF Spec

-----------------------------------------------------------------------------
(* Refinement *)

(* A job is opened queued, with no weights. *)
LEMMA LifecycleInit == Init => Lifecycle!Init
BY DEF Init, Lifecycle!Init

(* A step that works on the row or on the storage is one step of the life of the job. *)
LEMMA LifecycleStep ==
    ASSUME IInv, [Next]_vars
    PROVE  [Lifecycle!Next]_Lifecycle!vars
<1> USE MessageFacts DEF Lifecycle!Live, Lifecycle!Open
<1>0. TypeOK /\ Pending
    BY DEF IInv
<1>1. CASE UNCHANGED <<status, result, store>>
    BY <1>1 DEF Lifecycle!vars
<1>2. CASE \E t \in Tokens : PutAndReport(t)
  <2> PICK t \in Tokens : PutAndReport(t)
    BY <1>2
  <2>1. Lifecycle!Store(t)
    BY DEF PutAndReport, row, Lifecycle!Store
  <2> QED BY <2>1 DEF Lifecycle!Next
<1>3. CASE RecordHeartbeat
  <2>1. Lifecycle!Begin \/ UNCHANGED <<status, result, store>>
    BY <1>3 DEF RecordHeartbeat, Lifecycle!Begin
  <2> QED BY <1>1, <2>1 DEF Lifecycle!Next
<1>4. CASE Cancel
  <2>1. Lifecycle!Cancel \/ UNCHANGED <<status, result, store>>
    BY <1>4 DEF Cancel, Lifecycle!Cancel
  <2> QED BY <1>1, <2>1 DEF Lifecycle!Next
<1>5. CASE FinishTask
  <2>1. PICK c \in checks \cup {[m |-> m, ok |-> FALSE] : m \in msgs \cap {Report("failed", None), Report("cancelled", None)}} :
           FinishJob(c.m, c.ok)
    BY <1>5 DEF FinishTask
  <2>2. store' = store
    BY <1>5 DEF FinishTask
  <2>3. CASE c.m.st = "succeeded" /\ c.ok
    <3>1. c \in checks
      BY <2>3
    <3>2. c.m.key \in Tokens /\ (status \in Lifecycle!Open => c.m.key \in store)
      BY <1>0, <2>3, <3>1 DEF TypeOK, Pending
    <3>3. \/ UNCHANGED <<status, result>>
          \/ Lifecycle!End("cancelled")
          \/ Lifecycle!Succeed(c.m.key)
      BY <1>0, <2>1, <2>2, <2>3, <3>2
         DEF TypeOK, Finished, FinishJob, Closes, Succeeds, Lifecycle!End, Lifecycle!Succeed
    <3> QED BY <1>1, <2>2, <3>2, <3>3 DEF Lifecycle!Next
  <2>4. CASE ~(c.m.st = "succeeded" /\ c.ok)
    <3>1. c.m.st \in {"succeeded", "failed", "cancelled"}
      BY <1>0 DEF Pending
    <3>2. UNCHANGED <<status, result>> \/ Lifecycle!End("failed") \/ Lifecycle!End("cancelled")
      BY <1>0, <2>1, <2>2, <2>4, <3>1 DEF TypeOK, Finished, FinishJob, Closes, Lifecycle!End
    <3> QED BY <1>1, <2>2, <3>2 DEF Lifecycle!Next
  <2> QED BY <2>3, <2>4
<1>6. CASE FinishLost
  <2>1. UNCHANGED <<status, result, store>> \/ Lifecycle!End("failed") \/ Lifecycle!End("cancelled")
    BY <1>0, <1>6 DEF TypeOK, FinishLost, Closes, Lifecycle!End
  <2> QED BY <1>1, <2>1 DEF Lifecycle!Next
<1>7. CASE Requeue
  <2>1. UNCHANGED <<status, result, store>> \/ Lifecycle!End("failed")
    BY <1>7 DEF Requeue, RequeueJob, Closes, Lifecycle!End
  <2> QED BY <1>1, <2>1 DEF Lifecycle!Next
<1>8. CASE PurgeOne
  <2>1. Lifecycle!Purge
    BY <1>0, <1>8 DEF Pending, PurgeOne, Lifecycle!Purge
  <2> QED BY <2>1 DEF Lifecycle!Next
<1>9. CASE ~(\/ \E t \in Tokens : PutAndReport(t)
             \/ RecordHeartbeat \/ Cancel \/ FinishTask \/ FinishLost \/ Requeue \/ PurgeOne)
  <2>1. UNCHANGED <<status, result, store>>
    BY <1>9 DEF Next, Works, Schedules, Stays, row, vars, StartTask, Launch, Stopped, Fails, HoldLocks,
       Publish, Renew, Probe, Beat, Crash, Expire, ExpireCancel, StatWeights,
       Silence, SweepRead, RequeueRead, PurgeRead
  <2> QED BY <1>1, <2>1
<1> QED BY <1>2, <1>3, <1>4, <1>5, <1>6, <1>7, <1>8, <1>9

(* A job, with all its launches, messages and schedules, keeps the promises of JobLifecycle          *)
(* (training_bridge/tasks.py, training_bridge/jobs.py, admin_ml_jobs/service.py).                    *)
THEOREM TrainingImplementsJob == Spec => ImplementsJob
<1>1. IInv /\ [Next]_vars => [Lifecycle!Next]_Lifecycle!vars
    BY LifecycleStep
<1>2. Init /\ [][Next]_vars => Lifecycle!Init /\ [][Lifecycle!Next]_Lifecycle!vars
    BY <1>1, LifecycleInit, IInvInit, IInvNext, PTL
<1> QED BY <1>2 DEF Spec, ImplementsJob, Lifecycle!Spec

(* A job ends once, and never as a success after somebody cancelled it. *)
THEOREM OutcomeKept == Spec => OutcomeIsFinal
<1> DEFINE A == /\ status \in Finished => status' = status /\ result' = result
                /\ status = "cancelling" => status' # "succeeded" /\ status' # "running"
<1>1. IInv /\ [Next]_vars => [A]_vars
  <2> SUFFICES ASSUME IInv, Next PROVE A
    BY DEF vars
  <2>1. CASE UNCHANGED <<status, result>>
    BY <2>1
  <2>2. CASE RecordHeartbeat \/ Cancel \/ Requeue
    BY <2>2 DEF RecordHeartbeat, Cancel, Requeue, RequeueJob, Closes, Finished
  <2>3. CASE FinishTask
    <3>1. \A c \in checks : c.m.st = "succeeded"
      BY DEF IInv, Pending
    <3> QED BY <2>3, <3>1, MessageFacts DEF FinishTask, FinishJob, Closes, Succeeds, Finished
  <2>4. CASE FinishLost
    <3>1. sweep \in {"no", "running", "cancelling"}
      BY DEF IInv, TypeOK
    <3> QED BY <2>4, <3>1 DEF FinishLost, Closes, Finished
  <2>5. CASE ~(RecordHeartbeat \/ Cancel \/ Requeue \/ FinishTask \/ FinishLost)
    BY <2>5, <2>1 DEF Next, Works, Schedules, Stays, row, StartTask, Launch, Stopped, Fails, HoldLocks,
       Publish, PutAndReport, Renew, Probe, Beat, Crash, Expire, ExpireCancel, StatWeights,
       Silence, SweepRead, RequeueRead, PurgeRead, PurgeOne
  <2> QED BY <2>2, <2>3, <2>4, <2>5
<1>2. Init /\ [][Next]_vars => [][A]_vars
    BY <1>1, IInvInit, IInvNext, PTL
<1> QED BY <1>2 DEF Spec, OutcomeIsFinal
-----------------------------------------------------------------------------
(* How many launches a job has, and how many of them work at a time.         *)

\* Launch t took the t-th message, and as many are still under way as nobody took.
LaunchesTookMessages == \A t \in Tokens : child[t].pc # "none" => t + starts <= resends + 1

LEMMA LaunchesTookMessagesNext == TypeOK /\ LaunchesTookMessages /\ [Next]_vars => LaunchesTookMessages'
<1> SUFFICES ASSUME TypeOK, LaunchesTookMessages, [Next]_vars PROVE LaunchesTookMessages'
    OBVIOUS
<1>0. /\ starts \in Nat /\ resends \in Nat /\ starts <= resends + 1 /\ Tokens \subseteq Nat \ {0}
      /\ \A t \in Tokens : child[t] = [child[t] EXCEPT !.pc = child[t].pc]
      /\ child \in [Tokens -> [pc : {"none", "asked", "prepare", "train", "put", "gone"},
                               lost : BOOLEAN, stop : {"no", "cancelled", "lost", "failed"}]]
    BY ConstantsAssumption DEF TypeOK, Tokens
<1>1. ASSUME resends' = resends, starts' = starts,
             \A t \in Tokens : child'[t].pc # "none" => child[t].pc # "none"
      PROVE  LaunchesTookMessages'
    BY <1>1 DEF LaunchesTookMessages
<1>2. ASSUME NEW t \in Tokens, StartTask(t) PROVE LaunchesTookMessages'
  <2>1. /\ starts' = starts - 1 /\ resends' = resends /\ starts > 0
        /\ \A u \in Tokens \ {t} : child'[u].pc = child[u].pc
        /\ \A u \in Tokens : u < t => child[u].pc # "none"
    BY <1>0, <1>2 DEF StartTask, Goes, Stays, row
  <2>2. t + starts - 1 <= resends + 1
    <3>1. CASE t = 1
      BY <1>0, <3>1
    <3>2. CASE t # 1
      <4>1. t - 1 \in Tokens /\ t - 1 < t
        BY <3>2, ConstantsAssumption DEF Tokens
      <4>2. (t - 1) + starts <= resends + 1
        BY <2>1, <4>1 DEF LaunchesTookMessages
      <4> QED BY <1>0, <4>2
    <3> QED BY <3>1, <3>2
  <2>3. ASSUME NEW u \in Tokens, child'[u].pc # "none" PROVE u + (starts - 1) <= resends + 1
    <3>1. CASE u = t
      BY <1>0, <2>2, <3>1
    <3>2. CASE u # t
      <4>1. u + starts <= resends + 1
        BY <2>1, <2>3, <3>2 DEF LaunchesTookMessages
      <4> QED BY <1>0, <4>1
    <3> QED BY <3>1, <3>2
  <2> QED BY <2>1, <2>3 DEF LaunchesTookMessages
<1>3. ASSUME NEW t \in Tokens, child[t].pc # "none", resends' = resends, starts' = starts,
             \A u \in Tokens \ {t} : child'[u] = child[u]
      PROVE  LaunchesTookMessages'
    BY <1>1, <1>3
<1>4. ASSUME NEW t \in Tokens, Works(t) \/ Renew(t) \/ Probe(t) \/ Beat(t) \/ Crash(t) PROVE LaunchesTookMessages'
  <2>1. child[t].pc # "none" /\ resends' = resends /\ starts' = starts
    BY <1>4 DEF Works, Launch, Stopped, Fails, HoldLocks, Publish, PutAndReport, Renew, Probe, Beat, Crash,
       Running, Stays, row, keys
  <2>2. \A u \in Tokens \ {t} : child'[u] = child[u]
    BY <1>0, <1>4 DEF Works, Launch, Stopped, Fails, HoldLocks, Publish, PutAndReport, Renew, Probe, Beat, Crash,
       Goes, Ends, Leaves
  <2> QED BY <1>3, <2>1, <2>2
<1>5. CASE Requeue
  <2>1. child' = child /\ resends' \in Nat /\ starts' \in Nat /\ starts' - starts <= resends' - resends
    BY <1>0, <1>5 DEF Requeue, RequeueJob, Closes
  <2>2. ASSUME NEW t \in Tokens, child[t].pc # "none" PROVE t + starts' <= resends' + 1
    <3>1. t + starts <= resends + 1
      BY <2>2 DEF LaunchesTookMessages
    <3> QED BY <1>0, <2>1, <3>1
  <2> QED BY <2>1, <2>2 DEF LaunchesTookMessages
<1>6. CASE \/ Expire \/ ExpireCancel \/ RecordHeartbeat \/ StatWeights \/ FinishTask \/ Cancel
           \/ Silence \/ SweepRead \/ FinishLost \/ RequeueRead \/ PurgeRead \/ PurgeOne \/ UNCHANGED vars
  <2>1. resends' = resends /\ starts' = starts /\ child' = child
    BY <1>6 DEF Expire, ExpireCancel, RecordHeartbeat, StatWeights, FinishTask, Cancel,
       Silence, SweepRead, FinishLost, RequeueRead, PurgeRead, PurgeOne, Stays, row, vars
  <2> QED BY <1>1, <2>1
<1> QED BY <1>2, <1>4, <1>5, <1>6 DEF Next, Schedules

\* A job is launched at most once for its start and once for each resend: a start message is
\* acknowledged before its launch and never brings two.  So the bound Launches excludes nothing.
THEOREM LaunchesAreBounded == Spec => [](\A t \in Tokens : child[t].pc # "none" => t <= MaxResends + 1)
<1>1. Init => LaunchesTookMessages
    BY DEF Init, LaunchesTookMessages, NoLaunch
<1>2. TypeOK /\ LaunchesTookMessages => \A t \in Tokens : child[t].pc # "none" => t <= MaxResends + 1
  <2> SUFFICES ASSUME TypeOK, LaunchesTookMessages, NEW t \in Tokens, child[t].pc # "none"
               PROVE  t <= MaxResends + 1
      OBVIOUS
  <2>1. t + starts <= resends + 1
      BY DEF LaunchesTookMessages
  <2>2. t \in Nat /\ starts \in Nat /\ resends \in 0..MaxResends /\ MaxResends \in Nat
      BY ConstantsAssumption DEF TypeOK, Tokens
  <2> QED BY <2>1, <2>2
<1> QED BY <1>1, <1>2, TypeCorrect, LaunchesTookMessagesNext, PTL DEF Spec

\* The claim of a launch at work does not expire.
ClaimsHold == \A t \in Tokens : claim = t /\ Running(t) /\ Running(t)' => claim' = t

OneTrains == \A t, u \in Tokens : Running(t) /\ Running(u) => t = u

HoldersTrain == \A t \in Tokens : Running(t) => claim = t

\* Where a launch is after it went on or ended; the others are where they were.
LEMMA ChildMoves ==
    ASSUME TypeOK, NEW t \in Tokens
    PROVE  /\ Ends(t) => child'[t].pc = "gone" /\ \A u \in Tokens \ {t} : child'[u] = child[u]
           /\ \A pc \in {"asked", "prepare", "train", "put"} :
                 Goes(t, pc) => child'[t].pc = pc /\ \A u \in Tokens \ {t} : child'[u] = child[u]
<1>0. child \in [Tokens -> [pc : {"none", "asked", "prepare", "train", "put", "gone"},
                            lost : BOOLEAN, stop : {"no", "cancelled", "lost", "failed"}]]
    BY DEF TypeOK
<1>1. [NoLaunch EXCEPT !.pc = "gone"].pc = "gone"
    BY DEF NoLaunch
<1>2. ASSUME NEW pc \in {"asked", "prepare", "train", "put"} PROVE [child[t] EXCEPT !.pc = pc].pc = pc
    BY <1>0
<1> QED BY <1>0, <1>1, <1>2 DEF Ends, Goes

LEMMA HoldersTrainNext == TypeOK /\ HoldersTrain /\ [Next]_vars /\ [ClaimsHold]_vars => HoldersTrain'
<1> SUFFICES ASSUME TypeOK, HoldersTrain, [Next]_vars, [ClaimsHold]_vars PROVE HoldersTrain'
    OBVIOUS
<1>0. /\ child \in [Tokens -> [pc : {"none", "asked", "prepare", "train", "put", "gone"},
                               lost : BOOLEAN, stop : {"no", "cancelled", "lost", "failed"}]]
      /\ None \notin Tokens
    BY MessageFacts DEF TypeOK
<1>1. ASSUME claim' = claim, \A t \in Tokens : Running(t)' => Running(t)
      PROVE  HoldersTrain'
    BY <1>1 DEF HoldersTrain
<1>2. ASSUME NEW t \in Tokens, claim = t, ~Running(t)', \A u \in Tokens \ {t} : child'[u] = child[u]
      PROVE  HoldersTrain'
    BY <1>2 DEF HoldersTrain, Running
<1>3. ASSUME NEW t \in Tokens, Launch(t) PROVE HoldersTrain'
  <2>1. \A u \in Tokens \ {t} : child'[u] = child[u]
    BY <1>0, <1>3 DEF Launch, Goes, Ends
  <2>2. CASE claim = None
    <3>1. \A u \in Tokens : ~Running(u)
      BY <1>0, <2>2 DEF HoldersTrain
    <3>2. Running(t)' => claim' = t
      <4>1. CASE Goes(t, "prepare") /\ claim' = t
        BY <4>1
      <4>2. CASE Ends(t)
        BY <4>2, ChildMoves DEF Running
      <4> QED BY <1>3, <2>2, <4>1, <4>2 DEF Launch
    <3> QED BY <2>1, <3>1, <3>2 DEF HoldersTrain, Running
  <2>3. CASE claim # None
    <3>1. claim' = claim /\ ~Running(t)'
      <4>1. claim' = claim /\ Ends(t)
        BY <1>3, <2>3 DEF Launch
      <4> QED BY <4>1, ChildMoves DEF Running
    <3> QED BY <1>1, <2>1, <3>1 DEF Running
  <2> QED BY <2>2, <2>3
<1>4. ASSUME NEW t \in Tokens, Stopped(t) \/ Fails(t) \/ PutAndReport(t) PROVE HoldersTrain'
  <2>1. claim = t
    BY <1>4 DEF Stopped, Fails, PutAndReport, HoldersTrain, Running
  <2>2. Ends(t)
    BY <1>4 DEF Stopped, Fails, PutAndReport, Leaves
  <2>3. ~Running(t)' /\ \A u \in Tokens \ {t} : child'[u] = child[u]
    BY <2>2, ChildMoves DEF Running
  <2> QED BY <1>2, <2>1, <2>3
<1>5. ASSUME NEW t \in Tokens, StartTask(t) \/ HoldLocks(t) \/ Publish(t) \/ Probe(t) \/ Beat(t) \/ Crash(t) PROVE HoldersTrain'
  <2>1. claim' = claim
    BY <1>5 DEF StartTask, HoldLocks, Publish, Probe, Beat, Crash, Stays, keys
  <2>2. \A u \in Tokens : Running(u)' => Running(u)
    <3>1. CASE StartTask(t)
      <4>1. UNCHANGED child \/ Goes(t, "asked")
        BY <3>1 DEF StartTask
      <4>2. UNCHANGED child \/ (child'[t].pc = "asked" /\ \A u \in Tokens \ {t} : child'[u] = child[u])
        BY <4>1, ChildMoves
      <4> QED BY <4>2 DEF Running
    <3>2. CASE HoldLocks(t)
      <4>1. Running(t) /\ Goes(t, "train")
        BY <3>2 DEF HoldLocks, Running
      <4>2. \A u \in Tokens \ {t} : child'[u] = child[u]
        BY <4>1, ChildMoves
      <4> QED BY <4>1, <4>2 DEF Running
    <3>3. CASE Publish(t)
      <4>1. Running(t) /\ (Goes(t, "put") \/ Ends(t))
        BY <3>3 DEF Publish, Running
      <4>2. \A u \in Tokens \ {t} : child'[u] = child[u]
        BY <4>1, ChildMoves
      <4> QED BY <4>1, <4>2 DEF Running
    <3>4. CASE Probe(t)
      BY <1>0, <3>4 DEF Probe, Running
    <3>5. CASE Beat(t)
      BY <3>5 DEF Beat, Running
    <3>6. CASE Crash(t)
      BY <3>6, ChildMoves DEF Crash, Running
    <3> QED BY <1>5, <3>1, <3>2, <3>3, <3>4, <3>5, <3>6
  <2> QED BY <1>1, <2>1, <2>2
<1>6. ASSUME NEW t \in Tokens, Renew(t) PROVE FALSE
    BY <1>6 DEF Renew, HoldersTrain
<1>7. CASE Expire
  <2>1. claim' = None /\ claim # None /\ child' = child
    BY <1>7 DEF Expire, Stays
  <2>2. ClaimsHold
    BY <2>1 DEF vars, keys
  <2>3. \A t \in Tokens : ~Running(t)
    BY <1>0, <2>1, <2>2 DEF ClaimsHold, HoldersTrain, Running
  <2> QED BY <2>1, <2>3 DEF HoldersTrain, Running
<1>8. CASE \/ ExpireCancel \/ RecordHeartbeat \/ StatWeights \/ FinishTask \/ Cancel
           \/ Schedules \/ PurgeRead \/ PurgeOne \/ UNCHANGED vars
  <2>1. claim' = claim /\ child' = child
    BY <1>8 DEF ExpireCancel, RecordHeartbeat, StatWeights, FinishTask, Cancel, Schedules,
       Silence, SweepRead, FinishLost, RequeueRead, Requeue, PurgeRead, PurgeOne, Stays, keys, vars
  <2> QED BY <1>1, <2>1 DEF Running
<1> QED BY <1>3, <1>4, <1>5, <1>6, <1>7, <1>8 DEF Next, Works

\* As long as no claim expires under a launch at work, one launch of a job trains at a time
\* (claim_lease): two need a lease that its holder could not renew.
THEOREM ClaimExcludes == Spec /\ [][ClaimsHold]_vars => []OneTrains
<1>1. Init => HoldersTrain
    BY DEF Init, HoldersTrain, NoLaunch, Running
<1>2. HoldersTrain => OneTrains
    BY DEF HoldersTrain, OneTrains
<1> QED BY <1>1, <1>2, TypeCorrect, HoldersTrainNext, PTL DEF Spec
===============================================================================
