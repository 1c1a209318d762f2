------------------------------ MODULE Floors_proofs ------------------------------
(***************************************************************************)
(* Proofs about Floors for every number of rows.  The three invariants     *)
(* support one another: hiding the counter with a row is right because no  *)
(* other row is live, and a row is only inserted when none can come back.  *)
(***************************************************************************)
EXTENDS Floors, TLAPS

IInv == TypeOK /\ OneRestorableRow /\ AnyRowHasCounter

LEMMA IInvInit == Init => IInv
<1> SUFFICES ASSUME Init PROVE IInv
  OBVIOUS
<1>1. \A f \in Rows : f > 0
  BY DEF Rows
<1>2. TypeOK
  BY <1>1, MaxRowsAssumption DEF Init, TypeOK, RunStates
<1>3. OneRestorableRow /\ AnyRowHasCounter
  BY DEF Init, OneRestorableRow, AnyRowHasCounter, Present, Deleted
<1> QED
  BY <1>2, <1>3 DEF IInv

\* The steps of a #7.
Calls(f) == BeginComplete(f) \/ BuildOriginal(f) \/ FinishComplete(f) \/ AbandonComplete(f)

\* A step that moves at most one row, which has a number, keeps the types.
LEMMA TypeNext == TypeOK /\ [Next]_vars => TypeOK'
<1> SUFFICES ASSUME TypeOK, [Next]_vars PROVE TypeOK'
  OBVIOUS
<1>0. \A f \in Rows : state[f] \in Present \cup {"purged"} => f <= rows /\ ~(f > rows)
  BY MaxRowsAssumption DEF TypeOK, Rows, Present, Deleted
<1>1. CASE InsertFloor
  <2>1. rows + 1 \in Rows /\ rows' = rows + 1 /\ rows \in Nat /\ rows' \in 0..MaxRows
    BY <1>1, MaxRowsAssumption DEF InsertFloor, Rows, TypeOK
  <2>2. /\ state'[rows + 1] = "live" /\ \A f \in Rows \ {rows + 1} : state'[f] = state[f]
        /\ state' \in [Rows -> Present \cup {"none", "purged"}]
    BY <1>1, <2>1 DEF InsertFloor, TypeOK, Present
  <2>3. \A f \in Rows : state'[f] = "none" <=> f > rows'
    BY <2>1, <2>2 DEF TypeOK, Rows
  <2>4. \A f \in Rows : purge'[f] # "idle" => state'[f] = "due"
    BY <1>1, <2>1, <2>2 DEF InsertFloor, TypeOK, Rows
  <2>5. building' \subseteq 1..rows'
    BY <1>1, <2>1 DEF InsertFloor, TypeOK
  <2> QED
    BY <1>1, <2>1, <2>2, <2>3, <2>4, <2>5 DEF InsertFloor, TypeOK, RunStates
<1>2. ASSUME NEW f \in Rows, RestoreFloor(f) PROVE TypeOK'
  BY <1>0, <1>2 DEF RestoreFloor, TypeOK, Present, Deleted
<1>3. ASSUME NEW f \in Rows, DeleteFloor(f) PROVE TypeOK'
  BY <1>0, <1>3 DEF DeleteFloor, TypeOK, Present, Deleted
<1>4. ASSUME NEW f \in Rows, UploadChunks(f) PROVE TypeOK'
  BY <1>4 DEF UploadChunks, TypeOK
<1>5. ASSUME NEW f \in Rows, FinishComplete(f) \/ CorrectPage(f) PROVE TypeOK'
  <2>1. StartRun(f) /\ building' \in {building, building \ {f}}
    BY <1>5 DEF FinishComplete, CorrectPage
  <2>2. /\ run' \in [Rows -> RunStates] /\ pipelineState' \in RunStates
        /\ rows' = rows /\ building' \subseteq 1..rows
    BY <2>1 DEF StartRun, TypeOK, RunStates, LiveRun
  <2> QED
    BY <2>1, <2>2 DEF StartRun, TypeOK
<1>6. ASSUME NEW f \in Rows, RunStep(f) PROVE TypeOK'
  BY <1>6 DEF RunStep, TypeOK, RunStates, LiveRun
<1>7. ASSUME NEW f \in Rows, Age(f) PROVE TypeOK'
  BY <1>0, <1>7 DEF Age, TypeOK, Present, Deleted
<1>8. CASE SelectBatch
  BY <1>8 DEF SelectBatch, TypeOK
<1>9. ASSUME NEW f \in Rows, WipePrefix(f) PROVE TypeOK'
  BY <1>9 DEF WipePrefix, TypeOK
<1>10. ASSUME NEW f \in Rows, DeleteRow(f) PROVE TypeOK'
  <2>1. counter' \in {"absent", "hidden", "shown"}
    BY <1>10 DEF DeleteRow, TypeOK
  <2> QED
    BY <1>0, <1>10, <2>1 DEF DeleteRow, TypeOK, Present, Deleted, RunStates
<1>11. CASE PurgeCrash
  BY <1>11 DEF PurgeCrash, TypeOK
<1>12. ASSUME NEW f \in Rows, OrphanPurge(f) PROVE TypeOK'
  BY <1>12 DEF OrphanPurge, TypeOK
<1>13. CASE UNCHANGED vars
  BY <1>13 DEF vars, TypeOK
<1>14. ASSUME NEW f \in Rows, BeginComplete(f) PROVE TypeOK'
  <2>1. f \in 1..rows
    BY <1>0, <1>14 DEF BeginComplete, TypeOK, Rows, Present
  <2> QED
    BY <1>14, <2>1 DEF BeginComplete, TypeOK
<1>15. ASSUME NEW f \in Rows, BuildOriginal(f) \/ AbandonComplete(f) PROVE TypeOK'
  BY <1>15 DEF BuildOriginal, AbandonComplete, TypeOK
<1> QED
  BY <1>1, <1>2, <1>3, <1>4, <1>5, <1>6, <1>7, <1>8, <1>9, <1>10, <1>11, <1>12, <1>13, <1>14, <1>15
     DEF Next, CreateFloor

\* The undo finds its level free, and the counter follows the rows.
LEMMA IInvNext == IInv /\ [Next]_vars => IInv'
<1> SUFFICES ASSUME IInv, [Next]_vars PROVE OneRestorableRow' /\ AnyRowHasCounter'
  BY TypeNext DEF IInv
<1>0. /\ TypeOK /\ TypeOK' /\ OneRestorableRow /\ AnyRowHasCounter
  BY TypeNext DEF IInv
<1>1. CASE InsertFloor /\ \A f \in Rows : state[f] \notin {"live", "deleted"}
  <2>1. /\ rows + 1 \in Rows /\ counter' = "shown"
        /\ state'[rows + 1] = "live" /\ \A f \in Rows \ {rows + 1} : state'[f] = state[f]
    BY <1>0, <1>1 DEF InsertFloor, TypeOK
  <2> QED
    BY <1>1, <2>1 DEF OneRestorableRow, AnyRowHasCounter, Present
<1>2. ASSUME NEW f \in Rows, RestoreFloor(f) PROVE OneRestorableRow' /\ AnyRowHasCounter'
  <2>1. /\ state[f] = "deleted" /\ state'[f] = "live" /\ counter' = "shown"
        /\ \A g \in Rows \ {f} : state'[g] = state[g]
    BY <1>0, <1>2 DEF RestoreFloor, TypeOK
  <2> QED
    BY <1>0, <2>1 DEF OneRestorableRow, AnyRowHasCounter, Present
<1>3. ASSUME NEW f \in Rows, DeleteFloor(f) PROVE OneRestorableRow' /\ AnyRowHasCounter'
  <2>1. /\ state[f] = "live" /\ state'[f] = "deleted" /\ counter' = "hidden"
        /\ \A g \in Rows \ {f} : state'[g] = state[g]
    BY <1>0, <1>3 DEF DeleteFloor, TypeOK
  <2> QED
    BY <1>0, <2>1 DEF OneRestorableRow, AnyRowHasCounter, Present, Deleted
<1>4. ASSUME NEW f \in Rows, Age(f) PROVE OneRestorableRow' /\ AnyRowHasCounter'
  <2>1. /\ state[f] \in Deleted /\ state'[f] \in Deleted \ {"deleted"} /\ counter' = counter
        /\ \A g \in Rows \ {f} : state'[g] = state[g]
    BY <1>0, <1>4 DEF Age, TypeOK, Deleted
  <2> QED
    BY <1>0, <2>1 DEF OneRestorableRow, AnyRowHasCounter, Present, Deleted
<1>5. ASSUME NEW f \in Rows, DeleteRow(f) PROVE OneRestorableRow' /\ AnyRowHasCounter'
  <2>1. /\ state[f] = "due" /\ state'[f] = "purged"
        /\ \A g \in Rows \ {f} : state'[g] = state[g]
        /\ counter' = IF \E g \in Rows \ {f} : state[g] \in Present THEN counter ELSE "absent"
    BY <1>0, <1>5 DEF DeleteRow, TypeOK, LastOfLevel, Siblings
  <2> QED
    BY <1>0, <2>1 DEF OneRestorableRow, AnyRowHasCounter, Present, Deleted
<1>6. ASSUME UNCHANGED <<state, counter>> PROVE OneRestorableRow' /\ AnyRowHasCounter'
  BY <1>0, <1>6 DEF OneRestorableRow, AnyRowHasCounter
<1>7. CASE CreateFloor
  BY <1>1, <1>2, <1>7 DEF CreateFloor
<1>8. CASE SelectBatch \/ PurgeCrash \/ UNCHANGED vars
  BY <1>6, <1>8 DEF SelectBatch, PurgeCrash, vars
<1>9. ASSUME NEW f \in Rows, UploadChunks(f) \/ RunStep(f) \/ WipePrefix(f) \/ OrphanPurge(f)
      PROVE  OneRestorableRow' /\ AnyRowHasCounter'
  BY <1>6, <1>9 DEF UploadChunks, RunStep, WipePrefix, OrphanPurge
<1>10. ASSUME NEW f \in Rows, Calls(f) \/ CorrectPage(f) PROVE OneRestorableRow' /\ AnyRowHasCounter'
  BY <1>6, <1>10 DEF Calls, BeginComplete, BuildOriginal, FinishComplete, AbandonComplete, CorrectPage, StartRun
<1> QED
  BY <1>2, <1>3, <1>4, <1>5, <1>7, <1>8, <1>9, <1>10 DEF Next, Calls

\* What holds of every reachable state, for every number of rows.
THEOREM Invariant == Spec => []IInv
BY IInvInit, IInvNext, PTL DEF Spec

\* The types; a purge batch only holds rows past the cutoff (_select_batch, _delete_row).
THEOREM TypeCorrect == Spec => []TypeOK
<1>1. IInv => TypeOK
  BY DEF IInv
<1> QED
  BY <1>1, Invariant, PTL

\* One row of a level can be used or brought back (create_floor).
THEOREM UndoFindsItsLevelFree == Spec => []OneRestorableRow
<1>1. IInv => OneRestorableRow
  BY DEF IInv
<1> QED
  BY <1>1, Invariant, PTL

\* Any row has its counter, shown exactly while a row is live (register_floor, _delete_row).
THEOREM CounterFollowsRows == Spec => []AnyRowHasCounter
<1>1. IInv => AnyRowHasCounter
  BY DEF IInv
<1> QED
  BY <1>1, Invariant, PTL

\* No step of a replaced row's run writes the counter of the live one (_floor_was_recreated), with
\* runs that were opened on the old row before or after it was replaced.
THEOREM OldRunsSpareTheLiveFloor == Spec => OldRunSparesLiveFloor
<1>1. ASSUME IInv, [Next]_vars, NEW f \in Rows, NEW g \in Rows,
             f # g, run'[f] \notin {run[f], "pending"}, state[g] = "live"
      PROVE  pipelineState' = pipelineState
  <2>1. run \in [Rows -> RunStates]
    BY <1>1 DEF IInv, TypeOK
  <2>2. ASSUME NEW h \in Rows, StartRun(h) PROVE FALSE
    BY <1>1, <2>1, <2>2 DEF StartRun
  <2>3. ASSUME NEW h \in Rows, RunStep(h) PROVE pipelineState' = pipelineState
    <3>1. h = f
      BY <1>1, <2>1, <2>3 DEF RunStep
    <3>2. Recreated(f)
      BY <1>1 DEF Recreated
    <3> QED
      BY <2>3, <3>1, <3>2 DEF RunStep
  <2>4. ASSUME NEW h \in Rows, DeleteRow(h) PROVE pipelineState' = pipelineState
    BY <2>4 DEF DeleteRow
  <2>5. ASSUME UNCHANGED run PROVE FALSE
    BY <1>1, <2>5
  <2>6. CASE CreateFloor \/ SelectBatch \/ PurgeCrash \/ UNCHANGED vars
    BY <2>5, <2>6 DEF CreateFloor, InsertFloor, RestoreFloor, SelectBatch, PurgeCrash, vars
  <2>7. ASSUME NEW h \in Rows, FinishComplete(h) \/ CorrectPage(h) PROVE FALSE
    BY <2>2, <2>7 DEF FinishComplete, CorrectPage
  <2>8. ASSUME NEW h \in Rows,
               \/ BeginComplete(h) \/ BuildOriginal(h) \/ AbandonComplete(h)
               \/ DeleteFloor(h) \/ UploadChunks(h) \/ Age(h) \/ WipePrefix(h) \/ OrphanPurge(h)
        PROVE  FALSE
    BY <2>5, <2>8 DEF BeginComplete, BuildOriginal, AbandonComplete, DeleteFloor, UploadChunks, Age, WipePrefix, OrphanPurge
  <2> QED
    BY <1>1, <2>3, <2>4, <2>6, <2>7, <2>8 DEF Next
<1>2. IInv /\ [Next]_vars =>
        [\A f, g \in Rows : f # g /\ run'[f] \notin {run[f], "pending"} /\ state[g] = "live"
          => pipelineState' = pipelineState]_vars
  BY <1>1
<1> QED
  BY <1>2, Invariant, PTL DEF Spec, OldRunSparesLiveFloor
-----------------------------------------------------------------------------
(* The level as a FloorLevel *)

\* A number without a row stands for nothing, so a new row starts without a run.
Unborn == \A f \in Rows : f > rows => run[f] = "none"

LEMMA UnbornNext == IInv /\ Unborn /\ [Next]_vars => Unborn'
<1> SUFFICES ASSUME IInv, Unborn, [Next]_vars PROVE Unborn'
  OBVIOUS
<1>0. /\ rows \in Nat /\ run \in [Rows -> RunStates] /\ Rows \subseteq Nat
      /\ \A f \in Rows : state[f] \in Present => f <= rows
  BY MaxRowsAssumption DEF IInv, TypeOK, Rows, Present, Deleted
<1>1. CASE UNCHANGED <<rows, run>>
  BY <1>1 DEF Unborn
<1>2. CASE InsertFloor
  BY <1>0, <1>2 DEF InsertFloor, Unborn
<1>3. ASSUME NEW f \in Rows, state[f] \in Present, rows' = rows,
             \A g \in Rows \ {f} : run'[g] = run[g]
      PROVE  Unborn'
  BY <1>0, <1>3 DEF Unborn
<1>4. ASSUME NEW f \in Rows, FinishComplete(f) \/ CorrectPage(f) \/ RunStep(f) PROVE Unborn'
  BY <1>0, <1>3, <1>4 DEF FinishComplete, CorrectPage, StartRun, RunStep, Present
<1>5. ASSUME NEW f \in Rows, DeleteRow(f) PROVE Unborn'
  BY <1>0, <1>3, <1>5 DEF DeleteRow, Present, Deleted
<1>6. CASE \/ SelectBatch \/ PurgeCrash \/ UNCHANGED vars
           \/ \E f \in Rows : \/ RestoreFloor(f) \/ DeleteFloor(f) \/ UploadChunks(f) \/ Age(f)
                             \/ BeginComplete(f) \/ BuildOriginal(f) \/ AbandonComplete(f)
                             \/ WipePrefix(f) \/ OrphanPurge(f)
  BY <1>1, <1>6 DEF SelectBatch, PurgeCrash, vars, RestoreFloor, DeleteFloor, UploadChunks, Age,
                    BeginComplete, BuildOriginal, AbandonComplete, WipePrefix, OrphanPurge
<1> QED
  BY <1>2, <1>4, <1>5, <1>6 DEF Next, CreateFloor

At == IF Held THEN state[Floor] ELSE "free"
NewestRun == IF Held THEN run[Floor] ELSE "none"

\* The row that can be used or brought back is the floor of the level; without one it is free.
FloorFacts ==
    /\ \A f \in Rows : Usable(f) => Held /\ Floor = f /\ At = state[f] /\ NewestRun = run[f]
    /\ Held => Floor \in Rows /\ Usable(Floor)
    /\ ~Held => Floor = 0 /\ At = "free" /\ NewestRun = "none"
LEMMA FloorIs == OneRestorableRow => FloorFacts
<1> SUFFICES ASSUME OneRestorableRow PROVE FloorFacts
  OBVIOUS
<1>1. Held => Floor \in Rows /\ Usable(Floor)
  BY DEF Held, Floor
<1>2. \A f \in Rows : Usable(f) => Held /\ Floor = f
  BY <1>1 DEF Held, Usable, OneRestorableRow
<1> QED
  BY <1>1, <1>2 DEF FloorFacts, Floor, At, NewestRun
LEMMA FloorIsNext == OneRestorableRow' => FloorFacts'
BY FloorIs, PTL

LEMMA LevelInit == Init => Level!Init
<1> SUFFICES ASSUME Init PROVE Level!Init
  OBVIOUS
<1>1. ~Held
  BY DEF Init, Held, Usable
<1> QED
  BY <1>1 DEF Init, Level!Init, Floor

\* A step that leaves the usable row, its run and the counter's state alone shows nothing.
LEMMA Hidden ==
  ASSUME IInv, IInv', rows' = rows, pipelineState' = pipelineState,
         \A f \in Rows : (Usable(f) \/ Usable(f)') => state'[f] = state[f] /\ run'[f] = run[f]
  PROVE  UNCHANGED Level!vars
<1>0. OneRestorableRow /\ OneRestorableRow'
  BY DEF IInv
<1>1. CASE Held
  <2>1. Floor \in Rows /\ Usable(Floor)
    BY <1>0, <1>1, FloorIs DEF FloorFacts
  <2>2. state'[Floor] = state[Floor] /\ run'[Floor] = run[Floor]
    BY <2>1
  <2>3. PICK f \in Rows : f = Floor
    BY <2>1
  <2>4. Usable(f) /\ Usable(f)' /\ state'[f] = state[f] /\ run'[f] = run[f]
    BY <2>1, <2>2, <2>3 DEF Usable
  <2>5. /\ Floor = f /\ At = state[f] /\ NewestRun = run[f]
        /\ Floor' = f /\ At' = state'[f] /\ NewestRun' = run'[f]
    BY <1>0, <2>4, FloorIs, FloorIsNext DEF FloorFacts
  <2> QED
    BY <2>4, <2>5 DEF Level!vars, At, NewestRun
<1>2. CASE ~Held
  <2>1. \A f \in Rows : ~Usable(f)
    BY <1>2 DEF Held
  <2>2. \A f \in Rows : ~Usable(f)'
    BY <2>1 DEF Usable
  <2>3. ~Held'
    BY <2>2 DEF Held
  <2>4. /\ Floor = 0 /\ At = "free" /\ NewestRun = "none"
        /\ Floor' = 0 /\ At' = "free" /\ NewestRun' = "none"
    BY <1>0, <1>2, <2>3, FloorIs, FloorIsNext DEF FloorFacts
  <2> QED
    BY <2>4 DEF Level!vars, At, NewestRun
<1> QED
  BY <1>1, <1>2

\* A new row comes where none can be used: it starts from nothing.
LEMMA InsertCreates ==
  ASSUME IInv, IInv', Unborn, InsertFloor, \A f \in Rows : state[f] \notin {"live", "deleted"}
  PROVE  Level!Create
<1>1. /\ rows \in Nat /\ rows + 1 \in Rows /\ rows < MaxRows /\ rows' = rows + 1
      /\ state' = [state EXCEPT ![rows + 1] = "live"] /\ pipelineState' = "none" /\ run' = run
      /\ state \in [Rows -> Present \cup {"none", "purged"}] /\ run \in [Rows -> RunStates]
  BY MaxRowsAssumption DEF IInv, TypeOK, InsertFloor, Rows
<1>2. ~Held
  BY DEF Held, Usable
<1>3. PICK f \in Rows : f = rows + 1
  BY <1>1
<1>4. state'[f] = "live" /\ run'[f] = "none" /\ Usable(f)'
  BY <1>1, <1>3 DEF Usable, Unborn
<1>5. /\ Floor' = f /\ At' = "live" /\ NewestRun' = "none"
      /\ At = "free"
  BY <1>2, <1>4, FloorIsNext, FloorIs DEF FloorFacts, IInv
<1> QED
  BY <1>1, <1>3, <1>5 DEF Level!Create, At, NewestRun

\* A step that moves the one usable row.
LEMMA Moves ==
  ASSUME IInv, IInv', NEW f \in Rows, Usable(f), Usable(f)'
  PROVE  /\ Floor = f /\ At = state[f] /\ NewestRun = run[f]
         /\ Floor' = f /\ At' = state'[f] /\ NewestRun' = run'[f]
BY FloorIs, FloorIsNext DEF IInv, FloorFacts

LEMMA RestoreAndDelete ==
  ASSUME IInv, IInv', NEW f \in Rows
  PROVE  /\ RestoreFloor(f) => Level!Restore
         /\ DeleteFloor(f) => Level!Delete
         /\ StartRun(f) /\ state[f] = "live" => Level!StartRun
<1>0. state \in [Rows -> Present \cup {"none", "purged"}] /\ run \in [Rows -> RunStates]
  BY DEF IInv, TypeOK
<1>1. ASSUME RestoreFloor(f) PROVE Level!Restore
  <2>1. /\ state[f] = "deleted" /\ state'[f] = "live" /\ Usable(f) /\ Usable(f)'
        /\ rows' = rows /\ run' = run /\ pipelineState' = pipelineState
    BY <1>0, <1>1 DEF RestoreFloor, Usable
  <2> QED
    BY <2>1, Moves DEF Level!Restore, At, NewestRun
<1>2. ASSUME DeleteFloor(f) PROVE Level!Delete
  <2>1. /\ state[f] = "live" /\ state'[f] = "deleted" /\ Usable(f) /\ Usable(f)'
        /\ rows' = rows /\ run' = run /\ pipelineState' = pipelineState
    BY <1>0, <1>2 DEF DeleteFloor, Usable
  <2> QED
    BY <2>1, Moves DEF Level!Delete, At, NewestRun
<1>3. ASSUME StartRun(f), state[f] = "live" PROVE Level!StartRun
  <2>1. /\ state[f] = "live" /\ state' = state /\ Usable(f) /\ Usable(f)'
        /\ rows' = rows /\ run'[f] = "pending" /\ pipelineState' = "pending"
    BY <1>0, <1>3 DEF StartRun, Usable
  <2> QED
    BY <2>1, Moves DEF Level!StartRun, At, NewestRun
<1> QED
  BY <1>1, <1>2, <1>3

\* An upload is about to open a run on a row that is past its window, while a floor is live.
UploadOutlivesItsRow ==
    \E f \in building, g \in Rows : state[f] \in {"expired", "due"} /\ state[g] = "live"

\* A #7 opens the live floor's own run, or it is an upload to a floor that was replaced.
LEMMA StartsOfRuns ==
  ASSUME IInv, IInv', NEW f \in Rows, FinishComplete(f)
  PROVE  Level!StartRun \/ (Level!StrayStart /\ UploadOutlivesItsRow)
<1>0. /\ state \in [Rows -> Present \cup {"none", "purged"}] /\ run \in [Rows -> RunStates]
      /\ \A h \in Rows : state[h] = "none" <=> h > rows
      /\ rows \in Nat
  BY MaxRowsAssumption DEF IInv, TypeOK
<1>1. StartRun(f) /\ f \in building /\ state[f] \in Present
  BY DEF FinishComplete
<1>2. PICK g \in Rows : state[g] = "live"
  BY DEF FinishComplete
<1>3. CASE f = g
  BY <1>1, <1>2, <1>3, RestoreAndDelete
<1>4. CASE f # g
  <2>1. state[f] \in {"expired", "due"}
    BY <1>1, <1>2, <1>4 DEF IInv, OneRestorableRow, Present, Deleted
  <2>2. rows > 1
    BY <1>0, <1>2, <1>4, <2>1 DEF Rows
  <2>3. /\ state' = state /\ rows' = rows /\ run'[g] = run[g] /\ pipelineState' = "pending"
        /\ Usable(g) /\ Usable(g)'
    BY <1>0, <1>1, <1>2, <1>4 DEF StartRun, Usable
  <2>4. Level!StrayStart
    BY <1>2, <2>2, <2>3, Moves DEF Level!StrayStart, At, NewestRun
  <2> QED
    BY <1>1, <1>2, <2>1, <2>4 DEF UploadOutlivesItsRow
<1> QED
  BY <1>3, <1>4

\* A run step is the floor's own, or of a replaced row: then it shows only while no floor is live.
LEMMA StepsOfRuns ==
  ASSUME IInv, IInv', NEW f \in Rows, RunStep(f)
  PROVE  Level!Kept \/ UNCHANGED Level!vars
<1>0. state \in [Rows -> Present \cup {"none", "purged"}] /\ run \in [Rows -> RunStates]
  BY DEF IInv, TypeOK
<1>1. PICK s \in {"running", "completed", "failed"} :
        /\ s # run[f]
        /\ run[f] = "pending" => s # "completed"
        /\ run' = [run EXCEPT ![f] = s]
        /\ pipelineState' = IF Recreated(f) THEN pipelineState ELSE s
  BY DEF RunStep
<1>2. run[f] \in {"pending", "running"} /\ state' = state /\ rows' = rows
  BY DEF RunStep, LiveRun
<1>3. CASE Usable(f)
  <2>1. ~Recreated(f) /\ Usable(f)'
    BY <1>2, <1>3 DEF IInv, OneRestorableRow, Recreated, Usable
  <2>2. run'[f] = s /\ pipelineState' = s
    BY <1>0, <1>1, <2>1
  <2>3. Level!RunStep(s)
    BY <1>1, <1>2, <1>3, <2>1, <2>2, Moves DEF Level!RunStep, At, NewestRun
  <2> QED
    BY <2>3 DEF Level!Kept
<1>4. CASE ~Usable(f)
  <2>1. \A g \in Rows : Usable(g) \/ Usable(g)' => Usable(g) /\ Usable(g)' /\ state'[g] = state[g] /\ run'[g] = run[g]
    BY <1>0, <1>1, <1>2, <1>4 DEF Usable
  <2>2. CASE Recreated(f)
    BY <1>1, <1>2, <2>1, <2>2, Hidden
  <2>3. CASE ~Recreated(f)
    <3>1. \A g \in Rows : Usable(g) => state[g] = "deleted"
      BY <1>4, <2>3 DEF Recreated, Usable
    <3>2. pipelineState' = s
      BY <1>1, <2>3
    <3>3. CASE Held
      <4>1. PICK g \in Rows : g = Floor /\ Usable(g)
        BY <3>3, FloorIs DEF FloorFacts, IInv
      <4>2. Usable(g)' /\ state[g] = "deleted" /\ state'[g] = state[g] /\ run'[g] = run[g]
        BY <2>1, <3>1, <4>1
      <4>3. Level!StrayStep(s)
        BY <1>2, <3>2, <4>1, <4>2, Moves DEF Level!StrayStep, At, NewestRun
      <4> QED
        BY <4>3 DEF Level!Kept
    <3>4. CASE ~Held
      <4>1. ~Held'
        BY <1>2, <3>4 DEF Held, Usable
      <4>2. /\ Floor = 0 /\ At = "free" /\ NewestRun = "none"
            /\ Floor' = 0 /\ At' = "free" /\ NewestRun' = "none"
        BY <3>4, <4>1, FloorIs, FloorIsNext DEF FloorFacts, IInv
      <4>3. Level!StrayStep(s)
        BY <1>2, <3>2, <4>2 DEF Level!StrayStep, At, NewestRun
      <4> QED
        BY <4>3 DEF Level!Kept
    <3> QED
      BY <3>3, <3>4
  <2> QED
    BY <2>2, <2>3
<1> QED
  BY <1>3, <1>4

\* The end of the restore window frees the level; that of a row past it is not seen.
LEMMA AgeExpires ==
  ASSUME IInv, IInv', NEW f \in Rows, Age(f)
  PROVE  Level!Expire \/ UNCHANGED Level!vars
<1>0. /\ state \in [Rows -> Present \cup {"none", "purged"}]
      /\ rows' = rows /\ run' = run /\ pipelineState' = pipelineState
  BY DEF IInv, TypeOK, Age
<1>1. CASE state[f] = "deleted" /\ state' = [state EXCEPT ![f] = "expired"]
  <2>1. Usable(f)
    BY <1>1 DEF Usable
  <2>2. ~Held'
    BY <1>0, <1>1 DEF Held, Usable, IInv, OneRestorableRow
  <2>3. At = "deleted" /\ Floor' = 0 /\ At' = "free" /\ NewestRun' = "none"
    BY <1>1, <2>1, <2>2, FloorIs, FloorIsNext DEF FloorFacts, IInv
  <2> QED
    BY <1>0, <2>3 DEF Level!Expire, At, NewestRun
<1>2. CASE state[f] = "expired" /\ state' = [state EXCEPT ![f] = "due"]
  BY <1>0, <1>2, Hidden DEF Usable
<1> QED
  BY <1>1, <1>2 DEF Age

\* A step of the level, or the start of a run on a replaced row.
LateStart == Level!StrayStart /\ UploadOutlivesItsRow
LEMMA LevelStep ==
    IInv /\ Unborn /\ [Next]_vars => Level!Kept \/ LateStart \/ UNCHANGED Level!vars
<1> SUFFICES ASSUME IInv, Unborn, [Next]_vars PROVE Level!Kept \/ LateStart \/ UNCHANGED Level!vars
  OBVIOUS
<1>0. IInv'
  BY IInvNext
<1>1. ASSUME UNCHANGED <<rows, state, run, pipelineState>> PROVE UNCHANGED Level!vars
  BY <1>0, <1>1, Hidden
<1>2. CASE CreateFloor
  <2>1. CASE InsertFloor /\ \A f \in Rows : state[f] # "deleted"
    <3>1. \A f \in Rows : state[f] \notin {"live", "deleted"}
      BY <1>2, <2>1 DEF CreateFloor
    <3> QED
      BY <1>0, <2>1, <3>1, InsertCreates DEF Level!Kept
  <2>2. CASE \E f \in Rows : RestoreFloor(f)
    BY <1>0, <2>2, RestoreAndDelete DEF Level!Kept
  <2> QED
    BY <1>2, <2>1, <2>2 DEF CreateFloor
<1>3. CASE \E f \in Rows : DeleteFloor(f) \/ FinishComplete(f) \/ CorrectPage(f)
  BY <1>0, <1>3, RestoreAndDelete, StartsOfRuns DEF Level!Kept, LateStart, CorrectPage
<1>4. CASE \E f \in Rows : RunStep(f)
  BY <1>0, <1>4, StepsOfRuns
<1>5. CASE \E f \in Rows : Age(f)
  BY <1>0, <1>5, AgeExpires DEF Level!Kept
<1>6. CASE \E f \in Rows : DeleteRow(f)
  <2> PICK f \in Rows : DeleteRow(f)
    BY <1>6
  <2>1. /\ state[f] = "due" /\ state' = [state EXCEPT ![f] = "purged"] /\ run' = [run EXCEPT ![f] = "none"]
        /\ rows' = rows /\ pipelineState' = pipelineState
        /\ state \in [Rows -> Present \cup {"none", "purged"}] /\ run \in [Rows -> RunStates]
    BY DEF DeleteRow, IInv, TypeOK
  <2> QED
    BY <1>0, <2>1, Hidden DEF Usable
<1>7. CASE \/ SelectBatch \/ PurgeCrash \/ UNCHANGED vars
           \/ \E f \in Rows : \/ UploadChunks(f) \/ WipePrefix(f) \/ OrphanPurge(f)
                             \/ BeginComplete(f) \/ BuildOriginal(f) \/ AbandonComplete(f)
  BY <1>1, <1>7 DEF SelectBatch, PurgeCrash, vars, UploadChunks, WipePrefix, OrphanPurge,
                    BeginComplete, BuildOriginal, AbandonComplete
<1> QED
  BY <1>2, <1>3, <1>4, <1>5, <1>6, <1>7 DEF Next

\* The level, with all the rows it ever had, is a FloorLevel (create_floor, delete_floor,
\* record_step, run_floor_purge, and start_run, whose late call for a replaced row shows).
THEOREM FloorsImplementLevel == Spec => ImplementsLevel
<1>1. Init => Unborn
  BY DEF Init, Unborn
<1>2. IInv /\ Unborn /\ [Next]_vars => [Level!Next]_Level!vars
  BY LevelStep DEF LateStart, Level!Next
<1>3. Init /\ [][Next]_vars => Level!Init /\ [][Level!Next]_Level!vars
  BY <1>1, <1>2, UnbornNext, LevelInit, Invariant, PTL DEF Spec
<1> QED
  BY <1>3 DEF Spec, ImplementsLevel, Level!Spec

\* As long as no upload is left to open a run on a row past its window while another one is live,
\* what a live floor shows is its own run's doing and nothing else's.
THEOREM LevelIsKept == Spec /\ []~UploadOutlivesItsRow => Level!KeptSpec
<1>1. Init => Unborn
  BY DEF Init, Unborn
<1>2. IInv /\ Unborn /\ ~UploadOutlivesItsRow /\ [Next]_vars => [Level!Kept]_Level!vars
  BY LevelStep DEF LateStart
<1>3. Init /\ [][Next]_vars /\ []~UploadOutlivesItsRow => Level!Init /\ [][Level!Kept]_Level!vars
  BY <1>1, <1>2, UnbornNext, LevelInit, Invariant, PTL DEF Spec
<1> QED
  BY <1>3 DEF Spec, Level!KeptSpec
-----------------------------------------------------------------------------
(* What the two disagreements of this module take: each theorem excludes one *)
(* coincidence and proves the rest of what the code's documents say.         *)

\* An expired row's run is still at work while a newer row of the level waits for its undo.
RunOutlivesItsRow ==
    \E f, g \in Rows :
        /\ state[f] \in {"expired", "due"} /\ run[f] \in LiveRun
        /\ state[g] = "deleted"

Shown == \A f \in Rows : Usable(f) => pipelineState = run[f]

LEMMA ShownNext ==
    IInv /\ Unborn /\ ~UploadOutlivesItsRow /\ ~RunOutlivesItsRow /\ Shown /\ [Next]_vars => Shown'
<1> SUFFICES ASSUME IInv, Unborn, ~UploadOutlivesItsRow, ~RunOutlivesItsRow, Shown, [Next]_vars
             PROVE  Shown'
  OBVIOUS
<1>0. /\ OneRestorableRow
      /\ state \in [Rows -> Present \cup {"none", "purged"}] /\ run \in [Rows -> RunStates]
  BY DEF IInv, TypeOK
<1>1. ASSUME pipelineState' = pipelineState, run' = run, \A f \in Rows : Usable(f)' => Usable(f)
      PROVE  Shown'
  BY <1>1 DEF Shown
<1>2. CASE InsertFloor /\ \A f \in Rows : state[f] \notin {"live", "deleted"}
  <2>1. /\ rows + 1 \in Rows /\ rows \in Nat /\ run' = run /\ pipelineState' = "none"
        /\ state' = [state EXCEPT ![rows + 1] = "live"]
    BY <1>2, MaxRowsAssumption DEF InsertFloor, IInv, TypeOK
  <2>2. \A f \in Rows : Usable(f)' => f = rows + 1
    BY <1>0, <1>2, <2>1 DEF Usable
  <2>3. run[rows + 1] = "none"
    BY <2>1 DEF Unborn
  <2> QED
    BY <2>1, <2>2, <2>3 DEF Shown
<1>3. ASSUME NEW f \in Rows, RestoreFloor(f) \/ DeleteFloor(f) \/ Age(f) PROVE Shown'
  BY <1>0, <1>1, <1>3 DEF RestoreFloor, DeleteFloor, Age, Usable
<1>4. ASSUME NEW f \in Rows, FinishComplete(f) \/ CorrectPage(f) PROVE Shown'
  <2>1. StartRun(f)
    BY <1>4 DEF FinishComplete, CorrectPage
  <2>2. state[f] = "live"
    BY <1>0, <1>4 DEF FinishComplete, CorrectPage, UploadOutlivesItsRow, OneRestorableRow, Present, Deleted
  <2>3. \A g \in Rows : Usable(g)' => g = f
    BY <1>0, <2>1, <2>2 DEF StartRun, Usable, OneRestorableRow
  <2> QED
    BY <1>0, <2>1, <2>3 DEF StartRun, Shown
<1>5. ASSUME NEW f \in Rows, RunStep(f) PROVE Shown'
  <2>1. PICK s \in {"running", "completed", "failed"} :
          /\ run' = [run EXCEPT ![f] = s]
          /\ pipelineState' = IF Recreated(f) THEN pipelineState ELSE s
    BY <1>5 DEF RunStep
  <2>2. state' = state /\ state[f] \in Present /\ run[f] \in LiveRun
    BY <1>5 DEF RunStep
  <2>3. CASE Usable(f)
    <3>1. ~Recreated(f) /\ \A g \in Rows : Usable(g)' => g = f
      BY <1>0, <2>2, <2>3 DEF Usable, Recreated, OneRestorableRow
    <3> QED
      BY <1>0, <2>1, <3>1 DEF Shown
  <2>4. CASE ~Usable(f)
    <3>1. \A g \in Rows : Usable(g) => g # f /\ state[g] = "live"
      BY <2>2, <2>4 DEF Usable, RunOutlivesItsRow, Present, Deleted
    <3>2. \A g \in Rows : Usable(g) => Recreated(f)
      BY <3>1 DEF Recreated
    <3> QED
      BY <1>0, <2>1, <2>2, <3>1, <3>2 DEF Shown, Usable
  <2> QED
    BY <2>3, <2>4
<1>6. ASSUME NEW f \in Rows, DeleteRow(f) PROVE Shown'
  <2>1. \A g \in Rows : Usable(g)' => g # f /\ Usable(g) /\ run'[g] = run[g]
    BY <1>0, <1>6 DEF DeleteRow, Usable
  <2> QED
    BY <1>6, <2>1 DEF DeleteRow, Shown
<1>7. CASE \/ SelectBatch \/ PurgeCrash \/ UNCHANGED vars
           \/ \E f \in Rows : \/ UploadChunks(f) \/ WipePrefix(f) \/ OrphanPurge(f)
                             \/ BeginComplete(f) \/ BuildOriginal(f) \/ AbandonComplete(f)
  BY <1>1, <1>7 DEF SelectBatch, PurgeCrash, vars, UploadChunks, WipePrefix, OrphanPurge,
                    BeginComplete, BuildOriginal, AbandonComplete, Usable
<1> QED
  BY <1>2, <1>3, <1>4, <1>5, <1>6, <1>7 DEF Next, CreateFloor

\* As long as no upload to an expired row is left to open its run while a newer row is live, and no
\* run of an expired row is at work while a newer row waits for its undo, a live floor shows the
\* state of its own newest run, restored or not (finding 3 takes one of the two, and no less).
THEOREM RestoredFloorsShowTheirRun ==
  Spec /\ []~UploadOutlivesItsRow /\ []~RunOutlivesItsRow => []RestoredFloorShowsItsRun
<1>1. Init => Shown /\ Unborn
  BY DEF Init, Shown, Unborn
<1>2. Shown => RestoredFloorShowsItsRun
  BY DEF Shown, RestoredFloorShowsItsRun, Usable
<1> QED
  BY <1>1, <1>2, Invariant, UnbornNext, ShownNext, PTL DEF Spec

\* No row of the level is inserted between the choice of a batch and the wipe of the prefix.
NoRowMeanwhile == (\E f \in Rows : purge[f] = "wipe") => rows' = rows

WipesAlone == \A f \in Rows : purge[f] = "wipe" => Siblings(f) = {}

LEMMA WipesAloneNext ==
    IInv /\ WipesAlone /\ [Next]_vars /\ [NoRowMeanwhile]_vars => WipesAlone'
<1> SUFFICES ASSUME IInv, WipesAlone, [Next]_vars, [NoRowMeanwhile]_vars PROVE WipesAlone'
  OBVIOUS
<1>0. /\ state \in [Rows -> Present \cup {"none", "purged"}]
      /\ purge \in [Rows -> {"idle", "wipe", "delete"}]
      /\ \A f \in Rows : purge[f] # "idle" => state[f] = "due"
  BY DEF IInv, TypeOK
<1>1. ASSUME \A f \in Rows : purge'[f] = "wipe" => purge[f] = "wipe",
             \A g \in Rows : state'[g] \in Present => state[g] \in Present
      PROVE  WipesAlone'
  BY <1>1 DEF WipesAlone, Siblings
<1>2. CASE InsertFloor
  <2>1. rows' # rows /\ purge' = purge
    BY <1>2, MaxRowsAssumption DEF InsertFloor, IInv, TypeOK
  <2>2. NoRowMeanwhile
    BY <2>1 DEF vars
  <2> QED
    BY <2>1, <2>2 DEF NoRowMeanwhile, WipesAlone
<1>3. ASSUME NEW f \in Rows, RestoreFloor(f) \/ DeleteFloor(f) \/ Age(f) PROVE WipesAlone'
  <2>1. purge' = purge /\ state[f] \in Present /\ \A g \in Rows \ {f} : state'[g] = state[g]
    BY <1>0, <1>3 DEF RestoreFloor, DeleteFloor, Age, Present, Deleted
  <2> QED
    BY <1>1, <2>1
<1>4. CASE SelectBatch
  <2>1. state' = state /\ \A f \in Rows : purge'[f] = "wipe" => Siblings(f) = {}
    BY <1>4 DEF SelectBatch
  <2> QED
    BY <2>1 DEF WipesAlone, Siblings
<1>5. ASSUME NEW f \in Rows, WipePrefix(f) PROVE WipesAlone'
  BY <1>0, <1>1, <1>5 DEF WipePrefix
<1>6. ASSUME NEW f \in Rows, DeleteRow(f) PROVE WipesAlone'
  <2>1. /\ \A g \in Rows : purge'[g] = "wipe" => purge[g] = "wipe"
        /\ state[f] \in Present /\ \A g \in Rows \ {f} : state'[g] = state[g]
    BY <1>0, <1>6 DEF DeleteRow, Present, Deleted
  <2> QED
    BY <1>1, <2>1
<1>7. CASE PurgeCrash
  BY <1>0, <1>1, <1>7 DEF PurgeCrash
<1>8. CASE UNCHANGED vars \/ \E f \in Rows : UploadChunks(f) \/ RunStep(f) \/ OrphanPurge(f)
  BY <1>1, <1>8 DEF vars, UploadChunks, RunStep, OrphanPurge
<1>9. CASE \E f \in Rows : Calls(f) \/ CorrectPage(f)
  BY <1>1, <1>9 DEF Calls, BeginComplete, BuildOriginal, FinishComplete, AbandonComplete, CorrectPage, StartRun
<1> QED
  BY <1>2, <1>3, <1>4, <1>5, <1>6, <1>7, <1>8, <1>9 DEF Next, CreateFloor, Calls

\* As long as no row is inserted between the choice of a purge batch and its wipe, no floor that
\* can be used or brought back loses its objects (finding 4 takes nothing less).
THEOREM UsableFloorsKeepObjects ==
  Spec /\ [][NoRowMeanwhile]_vars => UsableFloorKeepsObjects
<1>1. Init => WipesAlone
  BY DEF Init, WipesAlone
<1>2. ASSUME IInv, WipesAlone, [Next]_vars, NEW f \in Rows, state[f] \in {"live", "deleted"}, f \in objects
      PROVE  f \in objects'
  <2>0. \A g \in Rows : purge[g] # "idle" => state[g] = "due"
    BY <1>2 DEF IInv, TypeOK
  <2>1. ASSUME NEW g \in Rows, WipePrefix(g) PROVE f \in objects'
    <3>1. purge[g] = "wipe" /\ f # g
      BY <1>2, <2>0, <2>1 DEF WipePrefix
    <3>2. f \in Siblings(g)
      BY <1>2, <3>1 DEF Siblings, Present, Deleted
    <3> QED
      BY <1>2, <3>1, <3>2 DEF WipesAlone
  <2>2. ASSUME NEW g \in Rows, OrphanPurge(g) PROVE f \in objects'
    BY <1>2, <2>2 DEF OrphanPurge
  <2>3. ASSUME NEW g \in Rows, UploadChunks(g) PROVE f \in objects'
    BY <1>2, <2>3 DEF UploadChunks
  <2>4. CASE \/ InsertFloor \/ SelectBatch \/ PurgeCrash \/ UNCHANGED vars
             \/ \E g \in Rows : RestoreFloor(g) \/ DeleteFloor(g) \/ RunStep(g) \/ Age(g) \/ DeleteRow(g)
    BY <1>2, <2>4 DEF InsertFloor, SelectBatch, PurgeCrash, vars, RestoreFloor, DeleteFloor, RunStep, Age, DeleteRow
  <2>5. ASSUME NEW g \in Rows, Calls(g) \/ CorrectPage(g) PROVE f \in objects'
    BY <1>2, <2>5 DEF Calls, BeginComplete, BuildOriginal, FinishComplete, AbandonComplete, CorrectPage, StartRun
  <2> QED
    BY <1>2, <2>1, <2>2, <2>3, <2>4, <2>5 DEF Next, CreateFloor, Calls
<1>3. IInv /\ WipesAlone /\ [Next]_vars =>
        [\A f \in Rows : state[f] \in {"live", "deleted"} /\ f \in objects => f \in objects']_vars
  BY <1>2
<1> QED
  BY <1>1, <1>3, Invariant, WipesAloneNext, PTL DEF Spec, UsableFloorKeepsObjects
=============================================================================
