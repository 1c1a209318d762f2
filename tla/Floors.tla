-------------------------------- MODULE Floors ---------------------------------
(***************************************************************************)
(* The rows of one level of one project: soft deletion, the undo inside    *)
(* the restore window, a new row under the same level id after it, and the *)
(* hourly purge.  All rows of a level share two things: the counter row of *)
(* `project_floor_summaries`, whose `pipeline_state` the newest run of the *)
(* floor writes, and the object prefix `floors/{level_id}/`.               *)
(*                                                                         *)
(* Most requests and each run step are one transaction.  #7 is two: the    *)
(* first finds its row live, then the original is built with no            *)
(* transaction open, and the last one only asks for some live row of the   *)
(* level before it opens a run on the upload's own row.  The purge is      *)
(* three: it chooses the rows and notes whether each has a sibling, wipes  *)
(* the prefix with no transaction open, then deletes the row.              *)
(***************************************************************************)
EXTENDS Naturals

CONSTANT MaxRows   \* bound: how many rows the level ever gets

ASSUME MaxRowsAssumption == MaxRows \in Nat

Rows == 1..MaxRows

\* A row in the table is live, deleted inside the window, expired, or due for the purge.
Deleted == {"deleted", "expired", "due"}
Present == Deleted \cup {"live"}
LiveRun == {"pending", "running"}
RunStates == LiveRun \cup {"none", "completed", "failed"}

VARIABLES
    rows,      \* rows 1..rows were inserted, in order of pk
    state,     \* where each row is in its life
    run,       \* status of the newest pipeline run of each row
    counter,   \* the level's counter row: absent, hidden or shown
    pipelineState,   \* and the pipeline state it carries
    objects,   \* rows that still have objects under the level's prefix
    building,  \* rows with a #7 between its two transactions
    purge      \* what the current purge batch is about to do with each row

vars == <<rows, state, run, counter, pipelineState, objects, building, purge>>

Init ==
    /\ rows = 0
    /\ state = [f \in Rows |-> "none"]
    /\ run = [f \in Rows |-> "none"]
    /\ counter = "absent"
    /\ pipelineState = "none"
    /\ objects = {} /\ building = {}
    /\ purge = [f \in Rows |-> "idle"]

Siblings(f) == {g \in Rows \ {f} : state[g] \in Present}

-----------------------------------------------------------------------------
(* Requests *)

\* register_floor(restored=False): the counter restarts from its defaults.
InsertFloor ==
    /\ rows + 1 \in Rows
    /\ rows' = rows + 1
    /\ state' = [state EXCEPT ![rows + 1] = "live"]
    /\ counter' = "shown"
    /\ pipelineState' = "none"
    /\ UNCHANGED <<run, objects, building, purge>>

\* register_floor(restored=True): the counter is shown again with the numbers it kept.
RestoreFloor(f) ==
    /\ state[f] = "deleted"
    /\ state' = [state EXCEPT ![f] = "live"]
    /\ counter' = "shown"
    /\ UNCHANGED <<rows, run, pipelineState, objects, building, purge>>

\* Slip: a row inside its window is not looked for.
CreateFloorMutant ==
    /\ \A f \in Rows : state[f] # "live"
    /\ InsertFloor \/ \E f \in Rows : RestoreFloor(f)

\* #10: refused while the level is taken; a row still in its window is restored in place.
CreateFloor ==
    /\ \A f \in Rows : state[f] # "live"
    /\ \/ \E f \in Rows : RestoreFloor(f)
       \/ (\A f \in Rows : state[f] # "deleted") /\ InsertFloor

\* #11: the counter is only hidden.
DeleteFloor(f) ==
    /\ state[f] = "live"
    /\ state' = [state EXCEPT ![f] = "deleted"]
    /\ counter' = "hidden"
    /\ UNCHANGED <<rows, run, pipelineState, objects, building, purge>>

\* #6: chunks of an upload to the floor.  What may happen inside a #6 is the matter of Uploads.
UploadChunks(f) ==
    /\ state[f] = "live"
    /\ objects' = objects \cup {f}
    /\ UNCHANGED <<rows, state, run, counter, pipelineState, building, purge>>

\* complete_upload up to its rollback: the upload's own row is live, and the chunks are all there.
BeginComplete(f) ==
    /\ state[f] = "live"
    /\ f \in objects
    /\ building' = building \cup {f}
    /\ UNCHANGED <<rows, state, run, counter, pipelineState, objects, purge>>

\* _build_original, with no transaction open: the put may come after anything, a purge included.
BuildOriginal(f) ==
    /\ f \in building
    /\ objects' = objects \cup {f}
    /\ UNCHANGED <<rows, state, run, counter, pipelineState, building, purge>>

\* start_run on row f, whatever has become of it: the shared counter is written all the same.
StartRun(f) ==
    /\ run' = [run EXCEPT ![f] = "pending"]
    /\ pipelineState' = "pending"
    /\ UNCHANGED <<rows, state, counter, objects, purge>>

\* _finish: some row of the level is live, and the upload is still there with its row.  Another #7
\* of the row may still be building.
FinishComplete(f) ==
    /\ f \in building
    /\ state[f] \in Present
    /\ \E g \in Rows : state[g] = "live"
    /\ building' \in {building, building \ {f}}
    /\ StartRun(f)

\* The #7 ends without a run: 404, a rejected or changed file, a store that fails, or a crash.
\* What it built may be left behind for the purges.
AbandonComplete(f) ==
    /\ f \in building
    /\ building' = building \ {f}
    /\ UNCHANGED <<rows, state, run, counter, pipelineState, objects, purge>>

\* #31, #32: a corrected page opens a run on the live row whose drawing it is.
CorrectPage(f) ==
    /\ state[f] = "live"
    /\ f \in objects
    /\ run[f] # "none"
    /\ StartRun(f)
    /\ UNCHANGED building

-----------------------------------------------------------------------------
(* Run steps *)

\* Slip: the counter is always the run's own.
RecreatedMutant(f) == FALSE

\* _floor_was_recreated: another row of the level is not deleted.
Recreated(f) == \E g \in Rows \ {f} : state[g] = "live"

\* record_step and fail_run, with _settle: past the window the run fails, whatever its step did.
RunStep(f) ==
    /\ state[f] \in Present
    /\ run[f] \in LiveRun
    /\ \E s \in {"running", "completed", "failed"} :
          /\ s # run[f]
          /\ run[f] = "pending" => s # "completed"
          /\ state[f] \in {"expired", "due"} => s = "failed"
          /\ run' = [run EXCEPT ![f] = s]
          /\ pipelineState' = IF Recreated(f) THEN pipelineState ELSE s
    /\ UNCHANGED <<rows, state, counter, objects, building, purge>>

-----------------------------------------------------------------------------
(* Time and the purge *)

\* restore_window_elapsed turns true; later the row is past the purge cutoff.
Age(f) ==
    /\ \/ state[f] = "deleted" /\ state' = [state EXCEPT ![f] = "expired"]
       \/ state[f] = "expired" /\ state' = [state EXCEPT ![f] = "due"]
    /\ UNCHANGED <<rows, run, counter, pipelineState, objects, building, purge>>

\* Slip: the end of the restore window is taken for the cutoff.
SelectBatchMutant ==
    /\ \A f \in Rows : purge[f] = "idle"
    /\ \E f \in Rows : state[f] \in {"expired", "due"}
    /\ purge' = [f \in Rows |-> IF state[f] \notin {"expired", "due"} THEN "idle"
                                ELSE IF Siblings(f) = {} THEN "wipe" ELSE "delete"]
    /\ UNCHANGED <<rows, state, run, counter, pipelineState, objects, building>>

\* _select_batch: the due rows and their sibling flags, in one statement.
SelectBatch ==
    /\ \A f \in Rows : purge[f] = "idle"
    /\ \E f \in Rows : state[f] = "due"
    /\ purge' = [f \in Rows |-> IF state[f] # "due" THEN "idle"
                                ELSE IF Siblings(f) = {} THEN "wipe" ELSE "delete"]
    /\ UNCHANGED <<rows, state, run, counter, pipelineState, objects, building>>

\* The batch is worked through in order of pk.
Current(f) == \A g \in Rows : purge[g] # "idle" => f <= g

\* _delete_objects: everything under the level's prefix, unless the store fails.
WipePrefix(f) ==
    /\ purge[f] = "wipe" /\ Current(f)
    /\ \/ objects' = {} /\ purge' = [purge EXCEPT ![f] = "delete"]
       \/ UNCHANGED objects /\ purge' = [purge EXCEPT ![f] = "idle"]
    /\ UNCHANGED <<rows, state, run, counter, pipelineState, building>>

\* Slip: a soft-deleted sibling does not count.
LastOfLevelMutant(f) == \A g \in Siblings(f) : state[g] # "live"

\* _has_sibling, read again in the transaction that deletes the row.
LastOfLevel(f) == Siblings(f) = {}

\* _delete_row: the runs go with the row; the counter goes with the last row of the level.
DeleteRow(f) ==
    /\ purge[f] = "delete" /\ Current(f)
    /\ state[f] = "due"
    /\ state' = [state EXCEPT ![f] = "purged"]
    /\ run' = [run EXCEPT ![f] = "none"]
    /\ counter' = IF LastOfLevel(f) THEN "absent" ELSE counter
    /\ purge' = [purge EXCEPT ![f] = "idle"]
    /\ UNCHANGED <<rows, pipelineState, objects, building>>

\* The worker dies between two steps of its batch; the schedule starts over.
PurgeCrash ==
    /\ \E f \in Rows : purge[f] # "idle"
    /\ purge' = [f \in Rows |-> "idle"]
    /\ UNCHANGED <<rows, state, run, counter, pipelineState, objects, building>>

\* Slip: orphans are only looked for under levels that have no row left.
OrphanPurgeMutant(f) ==
    /\ state[f] = "purged" /\ f \in objects
    /\ Siblings(f) = {}
    /\ objects' = objects \ {f}
    /\ UNCHANGED <<rows, state, run, counter, pipelineState, building, purge>>

\* run_orphan_purge: objects whose upload has no row any more.
OrphanPurge(f) ==
    /\ state[f] = "purged" /\ f \in objects
    /\ objects' = objects \ {f}
    /\ UNCHANGED <<rows, state, run, counter, pipelineState, building, purge>>

-----------------------------------------------------------------------------
Next ==
    \/ CreateFloor \/ SelectBatch \/ PurgeCrash
    \/ \E f \in Rows :
          \/ DeleteFloor(f) \/ UploadChunks(f) \/ CorrectPage(f) \/ RunStep(f)
          \/ BeginComplete(f) \/ BuildOriginal(f) \/ FinishComplete(f) \/ AbandonComplete(f)
          \/ Age(f) \/ WipePrefix(f) \/ DeleteRow(f) \/ OrphanPurge(f)

Spec == Init /\ [][Next]_vars

\* The orphan schedule runs every day for as long as there are workers.
FairSpec == Spec /\ \A f \in Rows : WF_vars(OrphanPurge(f))

-----------------------------------------------------------------------------
(* Properties *)

\* The type invariant; a purge batch only ever holds rows past the cutoff.
TypeOK ==
    /\ rows \in 0..MaxRows
    /\ state \in [Rows -> Present \cup {"none", "purged"}]
    /\ \A f \in Rows : state[f] = "none" <=> f > rows
    /\ run \in [Rows -> RunStates]
    /\ counter \in {"absent", "hidden", "shown"}
    /\ pipelineState \in RunStates
    /\ objects \subseteq Rows
    /\ building \subseteq 1..rows
    /\ purge \in [Rows -> {"idle", "wipe", "delete"}]
    /\ \A f \in Rows : purge[f] # "idle" => state[f] = "due"

\* A level has one row that requests can use or bring back: a new row is inserted only when no
\* earlier one can be restored, so that an undo never finds its level taken (create_floor).
OneRestorableRow ==
    \A f, g \in Rows : state[f] \in {"live", "deleted"} /\ state[g] \in {"live", "deleted"} => f = g

\* Any row still in the table has its counter, shown exactly while a row is live: without it
\* set_upload_state raises, and every run step of the floor would fail (_delete_row, _write_one).
AnyRowHasCounter ==
    /\ (\E f \in Rows : state[f] \in Present) <=> counter # "absent"
    /\ (\E f \in Rows : state[f] = "live") <=> counter = "shown"

\* A step of a replaced row's run does not write the counter of the live row (_floor_was_recreated).
\* Its start does: start_run does not look.
OldRunSparesLiveFloor ==
    [][\A f, g \in Rows : f # g /\ run'[f] \notin {run[f], "pending"} /\ state[g] = "live"
          => pipelineState' = pipelineState]_vars

\* The level as the project shows it, with all the rows it ever had, their late #7, their late runs
\* and the purge, is a FloorLevel: an undo brings back the very row that was deleted, a new row
\* starts from nothing, and what a live floor shows is its own run's doing, but for the start of a
\* run by an upload to a floor it replaced (create_floor, _floor_was_recreated, start_run).
Usable(f) == state[f] \in {"live", "deleted"}
Held == \E f \in Rows : Usable(f)
Floor == IF Held THEN CHOOSE f \in Rows : Usable(f) ELSE 0
Level == INSTANCE FloorLevel WITH
    made <- rows,
    floor <- Floor,
    at <- IF Held THEN state[Floor] ELSE "free",
    run <- IF Held THEN run[Floor] ELSE "none",
    shown <- pipelineState
ImplementsLevel == Level!Spec

\* Objects that the purge left behind (every row of a batch flagged as another's sibling) still go.
PurgedObjectsGo == \A f \in Rows : state[f] = "purged" ~> f \notin objects

\* apps/api/drawings/runs.py:358: the run of an old floor must not overwrite the counter of the new
\* one; apps/api/projects/summaries.py:88,104: hiding a counter keeps its numbers for the undo.
\* So a live floor shows the state of its own newest run.
RestoredFloorShowsItsRun == \A f \in Rows : state[f] = "live" => pipelineState = run[f]

\* apps/api/floors/jobs.py:94: the purge deletes the objects of the floor it purges.  A floor that
\* can still be used or restored never loses its own.
UsableFloorKeepsObjects ==
    [][\A f \in Rows : state[f] \in {"live", "deleted"} /\ f \in objects => f \in objects']_vars
=============================================================================
