# Verification of AppBack

AppBack turns scanned floor plans into editable models. A user uploads a plan in chunks; a
pipeline of six steps, run by Celery workers, detects walls, objects and text and writes an "AI
layer" into the floor's document, which people edit at the same time. The program is an API
(FastAPI on PostgreSQL), a set of Celery workers, a machine learning service, Redis for locks and
streams, and an object store.

The TLA+ modules here model the protocols between those parts: what a handler reads and writes in
one transaction, and what can happen between two of them. Numbers such as #7 are the API's own
operation numbers; C14, J06, K32, FIX-P0-12 are the labels used in the source's comments.

## Reading order

| Module | What it is |
| --- | --- |
| `RunLifecycle` | the promise: how runs of one floor replace one another, and who may publish a layer |
| `PipelineRun` | the pipeline: every transaction on the runs of one floor, with both sweeps |
| `MCPipelineRun` | the instances of `PipelineRun` that TLC checks |
| `PipelineRun_proofs` | the inductive invariant of `PipelineRun` and its safety theorems |
| `PipelineSteps_proofs` | what a step may not do, and the refinement of `RunLifecycle` |
| `FloorLevel` | the promise: what people see of one level, whatever rows it has had |
| `Floors` | the rows of one level: deletion, undo, replacement, purge, shared counter and prefix |
| `UploadLifecycle` | the promise: how an upload is closed, once, and with which file |
| `Uploads` | one chunked upload: #6, #7 and the purges |
| `SharedFloor` | the promise: who may replace a floor's layer, and what every write has to leave alone |
| `SpatialWrite` | the document of one floor: people's writes, restores, the pipeline's merge, the change log |
| `MCSpatialWrite` | the instance of `SpatialWrite` that TLC checks |
| `SessionPromise` | the promise: when tokens replace one another, and for how long one is good |
| `Sessions` | one refresh session: rotation, reuse, revocation, the cache of principals |
| `JobLifecycle` | the promise: how a training job ends, and what a success rests on |
| `TrainingJobs` | one training job: its row, its launches, the two Redis keys, the bridge, the schedules |
| `Floors_proofs`, `Uploads_proofs`, `SpatialWrite_proofs`, `Sessions_proofs`, `TrainingJobs_proofs` | the inductive invariants and the theorems of these five |
| `SharedFloor_proofs` | the refinement of `SharedFloor` by `SpatialWrite` |

Operators named `...Mutant` are no part of any model. Each is the definition that follows it with
one plausible slip; `PROJECT.json` ("mutants") says which property notices it.

## Inventory

For each part: what it keeps, what it does, with whom it interacts, what is hard about it, and
what makes it correct. `PROJECT.json` lists all of them with their files and status.

### Modelled

**Pipeline runs** (`apps/api/drawings/runs.py`, `jobs.py`). Keeps `pipeline_runs` and
`pipeline_run_models`. `start_run` opens a run and supersedes every live one of the floor;
`record_step` and `fail_run` move it; the requeue sweep resends the start of pending runs or gives
them up after `REQUEUE_MAX`. Called by the upload, by page corrections and by all the workers.
Hard: tasks are sent after the commit and may be lost or delivered again; a run may be replaced
between any two of its steps; the sweep lists without locks. Correct when at most one run lives,
it is the newest, finished runs rest, and live ones end.

**Pipeline workers** (`apps/worker/pipeline_orchestrate`, `pipeline_steps`, `pipeline_build`,
`pipeline_persist`, `pipeline_quality`). They keep nothing but the pins, the "used" results, the
revision written and the quality summary of `pipeline_run_models`. Start is two transactions (GD1,
GD2) with minutes of image work between them; the three inferences run in parallel and report in
any order; persist merges the layer and may be delivered again after it committed; quality reads,
rolls back, and writes in a second transaction. The stuck-run sweep resends a silent step and
times it out after `STEP_REQUEUE_MAX`. Correct when a run is exactly as far as its evidence, the
layer is merged once, and each notification tells what happened.

**Floors** (`apps/api/floors`, counters in `apps/api/projects/summaries.py`). A level id has
several rows over time: live, deleted inside the restore window, expired, purged. All of them
share one counter row and one object prefix. Create, undo and delete are one transaction; #7 is two,
with the building of the original between them; the purge is three steps without a lock over them.
Hard: late uploads and run steps of an old row, and the purge, touch what the new row uses. Correct
when an undo always finds its level free, any row has its counter, and a live floor keeps its
objects and its own state.

**Chunked uploads** (`apps/api/drawings/uploads.py`, `complete.py`, `jobs.py`). #6 puts a chunk
and then saves its row; #7 joins the chunks with no transaction open and then closes the upload
under a lock; three purges remove abandoned uploads, finished chunks and orphans. Hard: parallel
#7, a chunk sent again while it is joined, a purge or a crash between any two steps. Correct when
one upload opens one run, its digest is that of its chunks, and nothing is left behind.

**Spatial documents, versions and the merge** (`apps/api/spatial_write`, `apps/api/versions`,
`packages/domain/rules_ai/merge.py`, `packages/domain/spatial`). Keeps `floor_documents` with a
revision, `floor_change_log` and `versions`. #35 replaces the layer with the one a person sends
with the revision it was read at; N19 restores a version the same way; persist merges what the
detector built; a schedule compacts the log. Hard: #35 holds no lock on the document, so it decides
on one revision and may update another; a stale base is let through when the log says that nothing
changed, while other schedules shorten the log; answers are lost and requests repeated; clients may
drop the flags by which the merge tells people's work from its own. Correct when no edit is lost,
nothing is applied twice, and neither people's work nor their removals are undone by a run.

**Sessions** (`apps/api/auth/sessions.py`). Keeps `refresh_sessions`, `users.token_version` and a
snapshot of each session in Redis. A refresh rotates the token by compare-and-set; within a grace
period the replaced token is answered with its successor, later it counts as stolen and ends the
session. Access checks answer from the snapshot. Hard: two tabs race, answers are lost, a check that
read before a revocation fills the cache after it, and the drop that follows a commit may fail.
Correct when an honest client keeps its session and what was ended stops being admitted in time.

**Training jobs** (`apps/api/admin_ml_jobs`, `apps/worker/training_bridge`,
`apps/ml/training_runner`). The row is the API's and the bridge's; a launch on a machine that trains
claims the job in Redis, reports by messages and looks at a cancel key. Three schedules sweep lost
jobs, resend the start and purge artifacts. Hard: everything but the row may be lost or late, the
claim expires under a paused holder so that two launches train, and each schedule reads without a
lock. Correct when the outcome is final, a cancelled job never succeeds, its weights stay, and the
job ends with no launch left running.

### Not modelled yet

* **Page corrections** (`quality`, #31 and #32): only their effect on runs (`SwapPage`) is in
  `PipelineRun`. Page keys and the undo of a page are not.
* **Idempotency records**: claim, lease, takeover, completion. Correct when one key commits once.
* **Locks and leases** (`packages/messaging/locks.py`, `apps/ml/runtime/lease.py`, the training slot
  in `slot.py`): expiry, fencing tokens, renewal with a grace period. Of these only the claim of a
  training job is modelled, in `TrainingJobs`.
* **Task delivery and after-commit publication**: the retry bookkeeping under the abstraction that
  `PipelineRun` uses, and the order of `Progress` frames.
* **Streams**: tail before snapshot; the limit of connections of a user.

### Not to be modelled

Geometry, vision and machine learning code (numeric); single-statement CRUD (measurements, rules,
templates, library, members, settings, users); request plumbing; object storage and cryptography
beyond "an operation happens or fails"; deployment and tooling.

## How the state and the actions correspond to the code

`PROJECT.json` ("map") gives the lines of each definition. The main choices:

**Transactions are actions.** Every handler of the pipeline locks the floor row and then the run
row before it reads, so a transaction is one step. What runs outside a transaction splits the
handler, and what was read before is a variable: `prepared` (GD1 done, GD2 not), `checked` (the
quality check has read), `stale` (the requeue sweep has listed the run), `building` (a #7 has found
its row live and left its transaction) and `purge` in `Floors`, and `accepted`, `put`, `call`,
`abandoned`, `orphans` in `Uploads`. A rolled back transaction is no step: that its writes and its
after-commit sends vanish with it is assumed, and no property shows it. `TasksAreJustified` is about
the order of the sends that were committed.

**Tasks are a growing set.** `sent` never shrinks: a task that was sent may be delivered late, any
number of times, or never. This covers redelivery after a lost worker, retries, resends and an
after-commit send that failed, which the code only logs. An inference or build worker writes only
objects before it reports, so its report is the step its task enables.

**Time is abstract.** An idle window, the restore window or the age of an object may have elapsed
at any moment: `Age`, `LoseFloor` and the sweeps have no clock. `LoseFloor` also stands for the
deletion of the project, which the code treats in the same way (`FLOOR_DELETED`). A #7 that began
before may still open a run on such a floor (`CompleteUpload`): its last transaction asks for some
live row of the level and not for the project, so it passes once the floor was replaced or if only
the project was deleted. A page correction looks at the live row (`SwapPage`).

**Data is abstract.** A run's upload is the number of its #5; a drawing is the upload it came from;
a layer is how often it was merged; a chunk is its index and whether it is sound; a level's
objects are the rows that own some. The uploader is taken to be still a member of the project when
a notification is due. `Uploads` assumes that the floor stays live. The limit on the number of
floors, the walls and areas of a counter, and the `Progress` frames are left out.

**Documents.** In `SpatialWrite` a floor has walls and openings; of an item the model keeps where it
is, which stands for its tracked fields, and its provenance. `docs` is the history of layers, so
that "the layer this person saw" can be said; the code keeps only the last. `write_layer` is split
where another transaction can come between: after the document is loaded (`Send`, `LoseRace`,
`SendAgain`), after the log is read (`Settle`), and at the update by revision (`Update`). The lock
shared on the floor's row keeps `Persist` out from the first to the last of these; a restore and
`Persist` lock the document and are one step. `Edits` gives what a client may send: it draws, moves,
approves, deletes, or forgets the flags of an item. `axes` stands for all a write may change that
the change log does not record (axes, origin): for these the promise that
no edit is lost does not hold, and `changes/UIFIX-B4.md` says so; that is why it is about layers. Rescaling, dimensions and the
ownership of entity ids are left out.

**Sessions.** A token is its position in the HMAC chain, so "previous" and "within the lookback"
are arithmetic on positions; signatures and the change of SECRET_KEY are left out. Time is a clock.
`MaxDelay` is how long a request or a fill of the cache may take. It is at most the grace period: a
statement is cut off after 10 s and a wait for a lock after 5 s (`packages/db/engine.py`), and the
grace period is 30 s. `outAt` and `endedAt` are history. A
snapshot is loaded only when none is cached; the code also loads one when Redis fails beside a filled
key, which only replaces an answer by a fresher one.

**Training jobs.** A launch is known by its claim's token. `silent` holds the cutoffs that no
heartbeat came after: a sweep that listed the job compares with the cutoff it took then. Messages
to the bridge are a set; one is removed when its task commits, or stays if the worker dies after the
commit, and a send that failed adds none. The cancel key expires only with no launch running,
because its lifetime, 172,800 s, is twice the longest run a launch may make (86,400 s). Metrics, log
lines, the slot and the GPU lease are left out: waiting for these and losing them is left open.

**`RunLifecycle`** has three variables and four actions. `PipelineRun` maps its statuses `pending`
and `running` to `open`, and the count of merges to `published` (`Lifecycle`). `start_run` is
`Open`, the commit of persist is `Publish`, the end of quality is `Complete`, every failure is
`Fail`, and everything else is a stuttering step.

**`FloorLevel`** has one floor where `Floors` has rows: the one that is live or in its restore
window (`Floor`, `Level`). A new row is `Create`, the end of the window is `Expire`, and the later
life of a replaced row, its purge and all objects are out of sight. Two actions are what is left of
them, and it would be wrong to leave them out, since the code does so (finding 3 below). `StrayStep`:
while no floor is live, a step of a replaced row's run may write the state the level shows.
`StrayStart`: an upload to a replaced row opens its run while a newer floor is live, which then shows
`pending`. That nothing else of a replaced row reaches a live floor is the promise. `Kept` is `Next`
without `StrayStart`, and `KeptSpec` the level as one would like it. Objects are no part of `FloorLevel`, as the purge does not keep what one
would promise of them (finding 4).

**`SharedFloor`** has the document's layers and their history, and neither requests nor a change
log, versions or locks. A write of #35 and a restore are `Edit`, a merge that changed the layer is
`Run` (`Shared`). `Edit` says that a person replaces the very layer that person saw, `Run` that the
detector works around what people made and removed, both that only an approver approves and that the
layer stays valid.

**`UploadLifecycle`** has an upload's status, chunks, digest and number of runs, and neither
requests nor an object store (`Lifecycle` in `Uploads`). A #6 that saves its chunk's row is
`Receive`, the transaction of #7 is `Complete` or `Reject`, the purges are `Abandon` and `Forget`.
What `Complete` writes is judged against the chunks at that moment: that a #7 joined them a
while ago, and that somebody may have sent one again since, is for `Uploads` to make up for.

**`SessionPromise`** has one session's current token, its times, the token each refresh is to be
answered with (`Held`) and the version each check has admitted (`Admitted`). It decides at the
moment of the step, where `Sessions` decides on a row or a cached principal it read earlier. `Slack`
and `Staleness` say by how much those readings may be old: a rotation may come a request's length
after the session's life, and a check may admit an access token for as long as a cached
answer and a request last after it stopped being good.

**`JobLifecycle`** has a training job's status, its registered weights and those in the storage. A
launch that publishes is `Store`; the bridge and the schedules are the rest (`Lifecycle` in
`TrainingJobs`). All the launches, claims, messages, readings and heartbeats are out of sight.

## Runs

| Run | Bounds | States | What it shows |
| --- | --- | --- | --- |
| `pipeline` | 2 runs, 1 resend per sweep | 485,051 | 9 invariants, 2 action properties, the refinement, 2 liveness properties |
| `floors` | 3 rows of a level | 574,054 | the refinement of `FloorLevel`, the undo, the counter, the leftover objects |
| `uploads` | 2 chunks, 2 parallel #7, 3 #6 | 151,960 | the refinement of `UploadLifecycle`, the digest, nothing left behind |
| `spatial` | 2 walls, 1 opening, 2 places, 2 people, 2 builds, 3 revisions, 2 attempts | 988,554 | the refinement of `SharedFloor`, no second application, valid merges, exact removals, harmless reruns, undo |
| `sessions` | 2 refreshes, 1 check, grace 1, lookback 2, TTL 1, clock to 5 | 2,096,841 | who is taken for a thief, what a refresh is answered with, the refinement of `SessionPromise` |
| `training` | 2 launches, 1 resend | 567,639 | the refinement of `JobLifecycle`, the weights, and that the job ends |
| `pipeline_gone_floor` | 1 run | violated | a lost floor can keep a pending run for ever |
| `pipeline_takeover` | 3 runs | violated | a page correction can supersede an upload in progress |
| `floors_counter` | 2 rows | violated | a live floor can show another row's state |
| `floors_purge` | 2 rows | violated | the purge can wipe a new row's objects |
| `uploads_new_chunk` | 1 chunk | violated | a new chunk does not keep its upload |
| `uploads_original` | 1 chunk, 2 #7 | violated | a complete upload can lose its original |

*Why the bounds are enough.* A run reacts to other runs only through "newer" and "the drawing's
upload", so two runs show every case of one replacing another; the takeover needs a third, as it
involves the drawing's run, one of an older upload and the correction. A sweep acts below its cap
and at it, so a cap of one shows both (the code has 6 and 3). Three rows of a level give an
expired row, one in its window or live, and a purged one. With two chunks a file can be half
missing; three #6 send both chunks and one of them again; two #7 are parallel. In
`SpatialWrite` three revisions, after which the model stops, are one to start from, one by somebody
else and one of one's own, or a wall that is drawn, removed and looked for by a run; two walls at one of two places match or not; one person
may approve, the other not; two attempts lose one race and give up at the next. In `Sessions` the
clock allows three rotations, so a token can be current, replaced in or out of its grace period, or
beyond; the lookback of 2 is passed as well as used; a snapshot outlives a revocation. Two launches
of a training job are all it takes for one to lose the claim to another. For the safety part of all
six modules, the theorems hold for every value of the bounds.

*Deadlock* is not checked: with bounded runs, rows and requests, a model that used its bounds has
nothing left to do, while the program waits for the next request.

### Fairness

Only what a schedule or a time limit guarantees is fair, and never the arrival of a task:

* `PipelineRun`: weak fairness of the sweeps of each run. Celery beat runs both for ever. The
  requeue skips a run only if it changed meanwhile; the stuck-run sweep passes over a run whose
  queue is busy, but not for longer than the run's maximal duration, after which it is taken
  whatever its queue does.
* `Floors`: weak fairness of the orphan purge, a daily schedule. Neither the hourly purge nor any
  request is fair.
* `Uploads`: weak fairness of the orphan purge, and of the end of a #6 that put its chunk: it saves
  it or dies, in far less than the day after which an object counts as an orphan.

* `TrainingJobs`: weak fairness of a launch going on or dying (the watchdog ends a run at its
  maximal duration), of a claim's expiry once no launch renews it, of time passing without a
  heartbeat, and of the sweep and the requeue, which beat runs for ever. No message need arrive, so
  `JobEnds` rests on the schedules alone.

`SpatialWrite` and `Sessions` promise nothing that must happen, and state no fairness.

### Disagreements between the code and its documents

Six runs state what a comment, a document or a test says, and TLC shows the code doing otherwise.
`PROJECT.json` ("findings") quotes each sentence. In short:

1. `GoneFloorEndsItsRuns`: the requeue sweep lists no run of a deleted floor, so a pending run
   whose start message was lost stays pending after the restore window, whether it was opened before
   or by a late #7.
2. `NewUploadKeepsItsRun`: "newer upload" is decided by the time of #5, while runs are opened by
   #7; an upload begun earlier and completed later is not protected.
3. `RestoredFloorShowsItsRun`: `start_run` does not ask whether the row of its upload was replaced,
   so a #7 that outlived its row writes the counter of the live row that took its place. A late step
   of an expired row's run does ask, but only for rows that are not deleted: it writes the counter
   that a newer row, deleted inside its window, will show again.
4. `UsableFloorKeepsObjects`: the purge acts on a sibling flag it read earlier.
5. `NewChunkKeepsUpload`: the purge looks at `updated_at`, which saving a chunk does not change.
6. `CompleteHasItsOriginal`: the purge, and a refused second #7, delete the original of an upload
   that completed after they looked.

For four of them a theorem says what the disagreement takes: exclude that coincidence (or, for
finding 3, those two), and the sentence holds for every value of the bounds. TLC finds a coincidence
in each of the runs above; with either of the two of finding 3 excluded alone, three rows are enough
for TLC to violate the sentence by the other, so no hypothesis is idle.

| Property | Holds as long as | Theorem |
| --- | --- | --- |
| `NewUploadKeepsItsRun` | uploads complete in the order they were begun | `InOrderUploadsKeepTheirRun` |
| `RestoredFloorShowsItsRun` | no run of an expired row is at work while a newer row waits for its undo, and no #7 of an expired row is between its transactions while a newer row is live | `RestoredFloorsShowTheirRun` |
| `UsableFloorKeepsObjects` | no row is inserted between the choice of a purge batch and its wipe | `UsableFloorsKeepObjects` |
| `CompleteHasItsOriginal` | no upload grows as old as an abandoned one, and no two #7 overlap | `AloneKeepsOriginal` |

One more was met while modelling and has no run: `apps/ml/training_runner/runner.py:8` says that a
launch which lost its claim sends no `finished`, but if its training fails before it notices the
loss, `execute` reports the failure. `Fails` allows it; the bridge then fails the job although
another launch trains it. `JobLifecycle` is implemented and `ModelIsStored` holds in spite of it.

## Proofs

`tlapm` checks the eight proof modules with no step left out. The only assumptions are those of the
modules on their constants: bounds are natural numbers, an upload has at least one chunk, a detector
builds items of its own that nobody reviewed or edited, at least one snapshot is kept, a request takes no
longer than the grace period, and resends are fewer than launches.

Seven properties are proved but not in a configuration, because a property that is there covers
them: `OneRunPerUpload` by `ImplementsUpload`, `AdmitFresh` by `ImplementsSession`,
`OldRunSparesLiveFloor` by `ImplementsLevel`, `OutcomeIsFinal` by `ImplementsJob`, and
`NoLostEdit`, `PipelineKeepsHumanWork` and `RemovedStaysRemoved` by `ImplementsSharedFloor`.

### PipelineRun

**Typing** (`TypeCorrect`). One case per action. Part of the type is that both resend counters stay
within their caps, so the theorem also says that no sweep resends more often than it may.

**The inductive invariant** (`IInv`, `Invariant`). No invariant of `PipelineRun` is inductive alone:
that quality only completes a run with all its results needs `StepMatchesEvidence`; that needs the
tasks to be justified (persist trusts that its task was sent after all inferences); those need the
evidence again; and all of them need that a handler's run is the only live one, for the drawing is
shared. `IInv` is the conjunction of the eight safety invariants with four more facts:

* `Fresh`: a number without a run stands for nothing, so a new run inherits nothing;
* `LiveHasNoCode`: a live run has no failure code yet, so a code is never left from elsewhere;
* `CheckedIsWritten`: the quality check has read only layers that were written, which is what its
  second transaction relies on without looking again;
* `TasksFollowStart`: only the start is queued for a run still at its first step, so persist finds
  the drawing in place.

The proof groups the actions by what they do: `FailKeeps` (a live run fails), `SendKeeps` (only
tasks and notes), `StartRunKeeps`, `CloseStepKeeps` (a step closed with its evidence),
`InferCompletedKeeps`, `PersistKeeps` and `QualityWriteKeeps`; `IInvNext` is one case per action.
Each safety invariant is then a theorem.

**Steps** (`PipelineSteps_proofs`). `EveryHandlerIsForward` shows that a handler or a sweep touches
one run, that this run is live, and that it does one of four things: work on, write a layer not
yet written, fail, or complete with its layer written. From it follow `FinishedRunsRest`
(`FinalIsFinal`), `RunsOnlyAdvance` (`ProgressNeverBack`) and `PipelineImplementsLifecycle`
(`Spec => Lifecycle!Spec`).

`SweepsUseUpTheRun` is the variant behind `LiveRunEnds` and `RunningRunEnds`, of which the prover
cannot do the fairness. `Budget` counts the sweeps a live run can still take: the resends of its
start that are left, those of its current step, a full count for each step ahead, and the sweep that
fails it. A handler ends the run, leaves the counts alone, or resets the count of a step only by
closing it; a sweep ends the run or uses up one resend. So each sweep lowers `Budget`, no other step
raises it, and it is a natural number. That a sweep is enabled on a live run remains for TLC.

`InOrderUploadsKeepTheirRun` (finding 2) rests on `UploadsKnown`: while uploads complete in
order, a live run is of the newest upload, unless it is of the drawing's, since page corrections
only open runs of that one, and the drawing is of an upload that has a run. A correction that
would supersede another upload's run finds that upload to be newer, and is refused.

### Floors

`OneRestorableRow` and `AnyRowHasCounter` are inductive together with the types: hiding the counter
with a row is right because no other row is live, and inserting a row is right because none can
come back. The types say that a purge batch only holds rows past the cutoff, so nothing the purge
deletes was restored in the meantime. `OldRunsSpareTheLiveFloor` follows: a run that takes a step
(anything but its start) and is not of the live row finds that row by `_floor_was_recreated` and
leaves the counter alone. It says so of steps, since starts do not look.

`FloorsImplementLevel` maps each step to one of `FloorLevel` (`LevelStep`). `FloorIs` says that a usable row is
the level's floor, because there is only one; `Unborn` adds to the invariant that a row not inserted
yet has no run, so that a new floor starts from nothing. `StartsOfRuns`: a #7 that ends finds a live
row; either it is the upload's own, or the upload's row is not usable, since only one is, and the
start is the stray one. That takes an `UploadOutlivesItsRow`, so without it the level keeps to
`Kept` (`LevelIsKept`). The case that needs both the undo's
invariant and the rule of `_floor_was_recreated` is a run's step (`StepsOfRuns`): the run is the
usable row's, and then its state is shown; or it is a replaced row's, and then either a live row
keeps it off the counter, or it is the stray step that `FloorLevel` allows.

`RestoredFloorsShowTheirRun` (finding 3): `Shown`, that a usable row's state is the one the
counter carries, is inductive unless `UploadOutlivesItsRow` or `RunOutlivesItsRow`. `UsableFloorsKeepObjects` (finding 4):
`WipesAlone`, that a row to be wiped has no sibling, is inductive under `NoRowMeanwhile`.

### Uploads

The only strengthening is `CallsAreSound`: a #7 that has joined its chunks found them sound.
`StatusStep` says what any step may do to an upload (nothing, save or drop a chunk's row, or leave
`receiving`, to `complete` only with the chunks as they are now). The three properties follow from
it.

`ClosedUploadsRest` follows too: no late request or purge changes a closed upload.

`UploadsImplementLifecycle` (`Spec => ImplementsUpload`) maps each step to one of
`UploadLifecycle`. It needs `Settled` besides: while a #7 is under way for an upload that receives, all
chunks are there, and only a closed upload's chunks are being thrown away. `Complete` asks for the
chunks as they are now, and gets them from `CallsAreSound` and from #7 comparing digests before it
closes.

`AloneKeepsOriginal` says how much finding 6 takes. As long as no upload is old enough for the purge
and no two #7 are between joining the chunks and their answer, a complete upload has its original.
`Undisturbed` is inductive under these two hypotheses.

### SpatialWrite

That no edit is lost rests on the change log, which two schedules shorten and which says nothing of
what it does not record. The invariant therefore has three parts.

* `DocInv`, about the document and its log. `Newest`: a log that is not empty has a newest row, and
  compaction never removes it, so a base is never taken for fresh because the rows after it were
  compacted away (`LogTellsTheTruth`). The layer is valid at every revision. What somebody touched
  is `OfPeople`, by a flag the server sets even if the client dropped its own (`MarkEdited`).
  `Tracked`: the newest rows of a wall say where it is, and where it was when a person removed it.
* `Requested`, about each request: if its update would find the revision it decided on, its base
  still has the current layer; and once it changed the layer, the log has a row after its base, so
  that sending it again ends in a conflict or in the recognition of the last write.
* `VersionsOK`: the newest version has its snapshot.

`Promises` collects what a step may not do, and `Steps` shows it of every action. `MergesAreValid`
needs what the merge keeps to be closed under references (`KeepIds`). `CanUndo` assumes that more
than one snapshot is kept: with `VERSIONS_KEEP_SNAPSHOTS=1`, which the setting allows (its default
is 50), the version recorded after a restore takes the snapshot of the one recorded before.

`Tracked` says that the merge misses no removal; `Exact` is the converse. It says that the newest
row of a wall, and the newest that gives it a place, survive every compaction, that one write puts a
wall at one place, and that a wall whose newest rows read like a person's removal was removed by a
person and not since drawn again or removed by a run. The two give `RemovalsKnown`
(`RemovalsAreExact`): the list the merge reads is exactly the history of removals. `MergeTwice` is
about the operator alone: merging a build into a layer that holds its result changes nothing.
`RerunIsHarmless` (`RerunChangesNothing`) follows with `RunKeepsRemovals`: what a run logs is not
taken for a removal.

**The refinement** (`SharedFloor_proofs`). `Allowed` says of a request that waits for its update
that its body may be written over the revision it decided on (`WritesAreAllowed`). The document may
have moved on since; but then the update finds another revision and does nothing, and the revision
decided on is history, which `PastStays` says does not change. `FloorIsShared`
(`Spec => ImplementsSharedFloor`) maps `Update` and a restore to `Edit`, where `Requested` gives the
layer the person saw, and a merge to `Run`. Every other step is a stutter: loading, deciding, losing
a race, giving up, answering, sending again, compaction, and a merge that changed nothing.

### Sessions

`Chain` relates the history of a token to the row: the one before the current was replaced at
`rotated_at`, and each older one more than the grace period before the next rotation, since within
the grace period a refresh is answered and not rotated. `Knows` says what a request may still rely
on after others rotated: its token is the current one, or was replaced after the request began,
which is less than the grace period ago. This is where `MaxDelay <= Grace` is needed: without it a
slow loser would end an honest session. `Fresh` bounds the age of a snapshot that says "good" of a
version that was ended, in the hands of a check and in the cache.

`SessionKeepsPromise` (`Spec => ImplementsSession`) maps each step to one of `SessionPromise`. A
refresh is answered on a row it read before, so each case needs `Knows` to bring that decision to
the present: a repeated answer holds the token that is current now, and a rotation is of the
token that is current now and more than the grace period old. `Life` says that no snapshot
outlives the session's life, and that a request that is to rotate the current token began inside it.

### TrainingJobs

`Pending` says what a reading is worth when it is used: a purge that listed the job found it failed
or cancelled, and these stay; weights that were found are in the storage unless the job ended
badly since. With it `ModelIsStored` is inductive.

`TrainingImplementsJob` (`Spec => ImplementsJob`) needs `Pending` for two steps: the purge deletes
weights on the strength of an old reading, and `Purge` only those of a job that ended badly; and the
task for a report of success registers weights that it looked up before, which `Succeed` takes from
the storage as it is now. `OutcomeKept` (`OutcomeIsFinal`) is proved by itself, one case per action
of the bridge and of the schedules.

`LaunchesAreBounded` rests on `LaunchesTookMessages`: launch `t` took the `t`-th start message. So a
job has no more launches than messages, and the bound `Launches`, of which the assumption only says
that it is larger than `MaxResends`, excludes none. `ClaimExcludes`: without the expiry of a claim
under its holder, whoever runs holds the claim (`HoldersTrain`), so one launch trains at a time. The
lease can expire, and then two may run; that nothing a job promises depends on it is what
`TrainingImplementsJob` and `ModelKept` say.

### Only model-checked

Liveness (`LiveRunEnds`, `RunningRunEnds`, `PurgedObjectsGo`, `PurgedLeavesNothing`, `JobEnds`), since it rests
on fairness and ENABLED, which the prover does not handle. Of the first two the variant is proved
(`SweepsUseUpTheRun`).

## Plan

Done: `PipelineRun` over `RunLifecycle`, `Floors`, `Uploads`, `SpatialWrite`, `Sessions` and
`TrainingJobs`, each with the abstract specification it implements, and the proofs about the
safety of all of them. Left, in the order of their worth:

1. `Idempotency`: claim, lease, takeover and completion, with a slow first request.
2. `SafeLock` for the locks, the GPU lease and the training slot, with expiry and failures of
   Redis, and `TrainingJobs` over it with several jobs.
3. The order of `Progress` frames published after a commit, and the streams that deliver them.
4. `StartPages`: page keys, corrections and their undo, composed with `PipelineRun`'s drawing.
5. Within the modules there are: #5 with its search for a twin in `Uploads`; scale, dimensions and
   the ownership of entity ids in `SpatialWrite`; signing in and password changes in `Sessions`.

Most of the repository's lines are geometry, vision and machine learning code and single-statement
CRUD, which have no protocol to model; the modules follow the parts where steps of several actors
meet.
