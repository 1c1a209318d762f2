----------------------------- MODULE TrainingJobs -----------------------------
(***************************************************************************)
(* One training job: its row, the launches of its runner on the machines   *)
(* that train, the two Redis keys they share with the bridge, the messages *)
(* between them, and the three schedules that look after the job.          *)
(*                                                                         *)
(* A launch is known by the token it claims the job with.  The claim may   *)
(* expire at any time, for its holder may be paused or cut off from Redis, *)
(* and so may the cancel key.  Of training itself the model keeps that it  *)
(* ends, fails or is told to stop; the slot and the GPU are shared with    *)
(* other jobs, so waiting for them and losing them is left open.           *)
(***************************************************************************)
EXTENDS Naturals

CONSTANTS
    Launches,    \* bound: launches of the runner, numbered as they come
    MaxResends,  \* MAX_REQUEUE_ATTEMPTS
    None         \* no launch

ASSUME ConstantsAssumption ==
    /\ Launches \in Nat /\ MaxResends \in Nat /\ MaxResends < Launches
    /\ None \notin Nat

VARIABLES
    status, result, resends, purged,  \* the row of training_jobs
    cancelKey,  \* training:cancel:<job> is there
    claim,      \* training:claim:<job>
    starts,     \* ml.training.runner.start messages under way
    msgs,       \* what the runners sent to the bridge
    child,      \* each launch
    store,      \* launches whose weights are in the object storage
    checks,     \* finished messages whose weights were looked up, not yet recorded
    silent,     \* the cutoffs no heartbeat came after
    sweep, requeue, purge  \* what the schedules read and did not write yet

row == <<status, result, resends, purged>>
keys == <<cancelKey, claim>>
schedules == <<sweep, requeue, purge>>
vars == <<row, keys, starts, msgs, child, store, checks, silent, schedules>>

Tokens == 1..Launches
Finished == {"succeeded", "failed", "cancelled"}
Heartbeat == [kind |-> "heartbeat", st |-> "running", key |-> None]
Report(st, key) == [kind |-> "finished", st |-> st, key |-> key]
Messages == {Heartbeat, Report("failed", None), Report("cancelled", None)}
            \cup {Report("succeeded", t) : t \in Tokens}
NoLaunch == [pc |-> "none", lost |-> FALSE, stop |-> "no"]

Init ==
    /\ status = "queued" /\ result = None /\ resends = 0 /\ purged = FALSE
    /\ cancelKey = FALSE /\ claim = None
    /\ starts = 1 /\ msgs = {}
    /\ child = [t \in Tokens |-> NoLaunch]
    /\ store = {} /\ checks = {} /\ silent = {}
    /\ sweep = "no" /\ requeue = FALSE /\ purge = FALSE

-----------------------------------------------------------------------------
(* Sending, and leaving a run: a send may fail for good, and a process     *)
(* that dies keeps the claim until it expires.                             *)

Send(m) == msgs' \in {msgs, msgs \cup {m}}
Ends(t) == child' = [child EXCEPT ![t] = [NoLaunch EXCEPT !.pc = "gone"]]
Goes(t, pc) == child' = [child EXCEPT ![t].pc = pc]
Leaves(t) ==
    /\ Ends(t)
    /\ claim' \in {claim, IF claim = t THEN None ELSE claim}
Running(t) == child[t].pc \in {"prepare", "train", "put"}
Stays == UNCHANGED <<row, store, checks, silent, schedules>>

-----------------------------------------------------------------------------
(* ml.training.runner.start, acknowledged before it runs *)

StartTask(t) ==
    /\ starts > 0
    /\ child[t].pc = "none" /\ \A u \in Tokens : u < t => child[u].pc # "none"
    /\ starts' = starts - 1
    /\ \/ ~cancelKey /\ Goes(t, "asked")
       \/ UNCHANGED child  \* cancelled, or the worker died with the message
    /\ Stays /\ UNCHANGED <<keys, msgs>>
Launch(t) ==
    /\ child[t].pc = "asked"
    /\ \/ claim = None /\ claim' = t /\ Goes(t, "prepare") /\ UNCHANGED msgs
       \/ claim = None /\ claim' \in {t, None} /\ Ends(t) /\ Send(Report("failed", None))
       \/ claim # None /\ Ends(t) /\ UNCHANGED <<claim, msgs>>
    /\ Stays /\ UNCHANGED <<cancelKey, starts>>

-----------------------------------------------------------------------------
(* The runner's process *)

(* The thread of claim_lease renews the claim, takes it back if it expired, *)
(* and gives up for good once another launch holds it.                      *)
Renew(t) ==
    /\ Running(t) /\ ~child[t].lost /\ claim # t
    /\ \/ claim = None /\ claim' = t /\ UNCHANGED child
       \/ claim # None /\ child' = [child EXCEPT ![t].lost = TRUE] /\ UNCHANGED claim
    /\ Stays /\ UNCHANGED <<cancelKey, starts, msgs>>

(* The first reason to stop wins. *)
Probe(t) ==
    /\ child[t].pc \in {"prepare", "train"} /\ child[t].stop = "no"
    /\ \E reason \in {"cancelled", "lost", "failed"} :
         /\ reason = "cancelled" => cancelKey
         /\ reason = "lost" => child[t].lost
         /\ child' = [child EXCEPT ![t].stop = reason]
    /\ Stays /\ UNCHANGED <<keys, starts, msgs>>
Stopped(t) ==
    /\ child[t].pc \in {"prepare", "train"} /\ child[t].stop # "no"
    /\ IF child[t].stop = "lost" THEN UNCHANGED msgs ELSE Send(Report(child[t].stop, None))
    /\ Leaves(t)
    /\ Stays /\ UNCHANGED <<cancelKey, starts>>
Fails(t) ==
    /\ child[t].pc \in {"prepare", "train", "put"} /\ child[t].stop = "no"
    /\ Send(Report("failed", None))
    /\ Leaves(t)
    /\ Stays /\ UNCHANGED <<cancelKey, starts>>

HoldLocks(t) ==
    /\ child[t].pc = "prepare" /\ child[t].stop = "no"
    /\ Goes(t, "train")
    /\ Send(Heartbeat)
    /\ Stays /\ UNCHANGED <<keys, starts>>
Beat(t) ==
    /\ child[t].pc \in {"train", "put"}
    /\ Heartbeat \notin msgs
    /\ msgs' = msgs \cup {Heartbeat}
    /\ Stays /\ UNCHANGED <<keys, starts, child>>
Publish(t) ==
    /\ child[t].pc = "train" /\ child[t].stop = "no"
    /\ \/ claim = t /\ Goes(t, "put")
       \/ claim # t /\ Ends(t)
    /\ Stays /\ UNCHANGED <<keys, starts, msgs>>
PutAndReport(t) ==
    /\ child[t].pc = "put"
    /\ store' = store \cup {t}
    /\ Send(Report("succeeded", t))
    /\ Leaves(t)
    /\ UNCHANGED <<row, cancelKey, starts, checks, silent, schedules>>

Crash(t) ==
    /\ Running(t) \/ child[t].pc = "asked"
    /\ Ends(t)
    /\ Stays /\ UNCHANGED <<keys, starts, msgs>>
Expire ==
    /\ claim # None
    /\ claim' = None
    /\ Stays /\ UNCHANGED <<cancelKey, starts, msgs, child>>
(* It lives for twice the longest run: no run outlives it. *)
ExpireCancel ==
    /\ cancelKey /\ \A t \in Tokens : ~Running(t)
    /\ cancelKey' = FALSE
    /\ Stays /\ UNCHANGED <<claim, starts, msgs, child>>

-----------------------------------------------------------------------------
(* The bridge.  Every end but success arms the cancel key before it commits. *)

Closes(st) == status' = st /\ cancelKey' = TRUE /\ UNCHANGED result
Succeeds(key) == status' = "succeeded" /\ result' = key /\ UNCHANGED cancelKey

RecordHeartbeat ==
    /\ Heartbeat \in msgs
    /\ msgs' = msgs \ {Heartbeat}
    /\ \/ status \in Finished /\ cancelKey' = TRUE /\ UNCHANGED <<status, silent>>
       \/ /\ status \notin Finished
          /\ status' = (IF status = "queued" THEN "running" ELSE status)
          /\ silent' = {}
          /\ UNCHANGED cancelKey
    /\ UNCHANGED <<result, resends, purged, claim, starts, child, store, checks, schedules>>

(* The weights are looked up before the transaction; the bridge may refuse *)
(* what it finds: another checksum, too large, the wrong metrics.          *)
StatWeights ==
    /\ \E m \in msgs : \E ok \in BOOLEAN :
         /\ m.st = "succeeded" /\ (ok => m.key \in store)
         /\ checks' = checks \cup {[m |-> m, ok |-> ok]}
    /\ UNCHANGED <<row, keys, starts, msgs, child, store, silent, schedules>>

FinishJobMutant(m, ok) ==
    \/ status \in Finished /\ cancelKey' = TRUE /\ UNCHANGED <<status, result>>
    \/ /\ status \notin Finished
       /\ \/ m.st = "succeeded" /\ ~ok /\ Closes("failed")
          \/ m.st = "succeeded" /\ ok /\ Succeeds(m.key)
          \/ m.st # "succeeded" /\ Closes(m.st)
FinishJob(m, ok) ==
    \/ status \in Finished /\ cancelKey' = TRUE /\ UNCHANGED <<status, result>>
    \/ /\ status \notin Finished
       /\ \/ m.st = "succeeded" /\ status = "cancelling" /\ Closes("cancelled")
          \/ m.st = "succeeded" /\ status # "cancelling" /\ ~ok /\ Closes("failed")
          \/ m.st = "succeeded" /\ status # "cancelling" /\ ok /\ Succeeds(m.key)
          \/ m.st # "succeeded" /\ Closes(m.st)
FinishTask ==
    /\ \E c \in checks \cup {[m |-> m, ok |-> FALSE] : m \in msgs \cap {Report("failed", None), Report("cancelled", None)}} :
         /\ FinishJob(c.m, c.ok)
         /\ checks' = checks \ {c}
         /\ msgs' \in {msgs, msgs \ {c.m}}  \* a worker that dies here gets the message again
    /\ UNCHANGED <<resends, purged, claim, starts, child, store, silent, schedules>>

(* N35.  The key is armed first: if the commit fails, only the key is left. *)
Cancel ==
    /\ status \in {"queued", "running"}
    /\ cancelKey' = TRUE
    /\ \/ status' = (IF status = "queued" THEN "cancelled" ELSE "cancelling")
       \/ UNCHANGED status
    /\ UNCHANGED <<result, resends, purged, claim, starts, msgs, child, store, checks, silent, schedules>>

-----------------------------------------------------------------------------
(* The schedules: each reads the job and its claim, then works under the   *)
(* row's lock on what it finds there.                                      *)

Silence ==
    /\ status \in {"running", "cancelling"} /\ "now" \notin silent
    /\ silent' = silent \cup {"now"}
    /\ UNCHANGED <<row, keys, starts, msgs, child, store, checks, schedules>>

Lost == {"running", "cancelling"}
SweepReadMutant ==
    /\ sweep = "no" /\ status = "running"
    /\ "now" \in silent /\ claim = None
    /\ sweep' = status /\ silent' = silent \cup {"sweep"}
    /\ UNCHANGED <<row, keys, starts, msgs, child, store, checks, requeue, purge>>
SweepRead ==
    /\ sweep = "no" /\ status \in Lost
    /\ "now" \in silent /\ claim = None
    /\ sweep' = status /\ silent' = silent \cup {"sweep"}
    /\ UNCHANGED <<row, keys, starts, msgs, child, store, checks, requeue, purge>>
FinishLost ==
    /\ sweep # "no"
    /\ \/ /\ status = sweep /\ "sweep" \in silent
          /\ Closes(IF sweep = "running" THEN "failed" ELSE "cancelled")
       \/ ~(status = sweep /\ "sweep" \in silent) /\ UNCHANGED <<status, cancelKey, result>>
    /\ sweep' = "no" /\ silent' = silent \ {"sweep"}
    /\ UNCHANGED <<resends, purged, claim, starts, msgs, child, store, checks, requeue, purge>>

RequeueRead ==
    /\ ~requeue /\ status = "queued" /\ claim = None
    /\ requeue' = TRUE
    /\ UNCHANGED <<row, keys, starts, msgs, child, store, checks, silent, sweep, purge>>
RequeueJobMutant ==
    \/ status # "queued" /\ UNCHANGED <<status, result, cancelKey, resends, starts>>
    \/ /\ status = "queued"
       /\ resends' = resends + 1 /\ starts' \in {starts, starts + 1}
       /\ UNCHANGED <<status, result, cancelKey>>
RequeueJob ==
    \/ status # "queued" /\ UNCHANGED <<status, result, cancelKey, resends, starts>>
    \/ /\ status = "queued" /\ resends < MaxResends
       /\ resends' = resends + 1 /\ starts' \in {starts, starts + 1}
       /\ UNCHANGED <<status, result, cancelKey>>
    \/ /\ status = "queued" /\ resends = MaxResends
       /\ Closes("failed")
       /\ UNCHANGED <<resends, starts>>
Requeue ==
    /\ requeue /\ requeue' = FALSE
    /\ RequeueJob
    /\ UNCHANGED <<purged, claim, msgs, child, store, checks, silent, sweep, purge>>

PurgeReadMutant ==
    /\ ~purge /\ status \in Finished /\ ~purged /\ claim = None
    /\ purge' = TRUE
    /\ UNCHANGED <<row, keys, starts, msgs, child, store, checks, silent, sweep, requeue>>
PurgeRead ==
    /\ ~purge /\ status \in {"failed", "cancelled"} /\ ~purged /\ claim = None
    /\ purge' = TRUE
    /\ UNCHANGED <<row, keys, starts, msgs, child, store, checks, silent, sweep, requeue>>
PurgeOne ==
    /\ purge /\ purge' = FALSE
    /\ store' = {}
    /\ purged' \in {TRUE, purged}  \* the mark is a transaction of its own
    /\ UNCHANGED <<status, result, resends, keys, starts, msgs, child, checks, silent, sweep, requeue>>

-----------------------------------------------------------------------------
Works(t) ==
    Launch(t) \/ Stopped(t) \/ Fails(t) \/ HoldLocks(t) \/ Publish(t)
    \/ PutAndReport(t)
Schedules == Silence \/ SweepRead \/ FinishLost \/ RequeueRead \/ Requeue
Next ==
    \/ \E t \in Tokens :
         StartTask(t) \/ Works(t) \/ Renew(t) \/ Probe(t) \/ Beat(t) \/ Crash(t)
    \/ Expire \/ ExpireCancel
    \/ RecordHeartbeat \/ StatWeights \/ FinishTask \/ Cancel
    \/ Schedules \/ PurgeRead \/ PurgeOne

(* A process works on or dies, beat runs each schedule again and again,    *)
(* and a key that nobody renews expires.  No message need arrive.          *)
Fairness ==
    /\ \A t \in Tokens : WF_vars(Works(t) \/ Crash(t))
    /\ WF_vars(Expire /\ \A t \in Tokens : ~Running(t))
    /\ WF_vars(Silence) /\ WF_vars(SweepRead) /\ WF_vars(FinishLost)
    /\ WF_vars(RequeueRead) /\ WF_vars(Requeue)

Spec == Init /\ [][Next]_vars
FairSpec == Spec /\ Fairness

-----------------------------------------------------------------------------
(* Properties *)

\* Every variable keeps its type, and the row its CHECKs: a result exactly when the job succeeded,
\* and no more messages sent again than the schedule allows.
TypeOK ==
    /\ status \in Finished \cup {"queued", "running", "cancelling"}
    /\ result \in Tokens \cup {None} /\ (result # None <=> status = "succeeded")
    /\ resends \in 0..MaxResends /\ purged \in BOOLEAN
    /\ cancelKey \in BOOLEAN /\ claim \in Tokens \cup {None}
    /\ starts \in Nat /\ starts <= resends + 1
    /\ msgs \subseteq Messages
    /\ child \in [Tokens -> [pc : {"none", "asked", "prepare", "train", "put", "gone"},
                             lost : BOOLEAN, stop : {"no", "cancelled", "lost", "failed"}]]
    /\ store \subseteq Tokens
    /\ checks \subseteq [m : Messages, ok : BOOLEAN]
    /\ silent \subseteq {"now", "sweep"}
    /\ sweep \in {"no", "running", "cancelling"} /\ requeue \in BOOLEAN
    /\ purge \in BOOLEAN

\* What the job ended as stays, and a job somebody cancelled never succeeds, however late, often or in
\* what order the reports of its launches come (training_bridge/tasks.py, _finish_succeeded).
OutcomeIsFinal ==
    [][/\ status \in Finished => status' = status /\ result' = result
       /\ status = "cancelling" => status' # "succeeded" /\ status' # "running"]_vars

\* A job with all its launches, messages and schedules is a JobLifecycle: each step of the bridge, of a
\* schedule or of N35 is one step of the life of the job, and all the others are none.  So no late
\* reading of a purge, and no report in whatever order, breaks what a job promises.
Lifecycle == INSTANCE JobLifecycle WITH Weights <- Tokens, stored <- store
ImplementsJob == Lifecycle!Spec

\* The weights a model version was registered with are in the storage for good: no schedule that read
\* the job earlier, and no other launch of it, takes them away.
ModelIsStored == status = "succeeded" => result \in store

\* Whatever is lost or dies, the job ends, and in the end none of its launches is left running.
JobEnds == <>[](status \in Finished /\ \A t \in Tokens : ~Running(t))
===============================================================================
