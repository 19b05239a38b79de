-------------------- MODULE BranchLifecycle_type_proofs --------------------
(***************************************************************************)
(* Type correctness of BranchLifecycle, for every set of branches, every   *)
(* limit and every bound.  The lemmas come first: the values the model     *)
(* writes have their types, and so have the variables that the helpers of  *)
(* a step write.  An action then needs no more than its own shape.         *)
(***************************************************************************)
EXTENDS BranchLifecycle, TLAPS

-----------------------------------------------------------------------------
(***************************************************************************)
(* Values                                                                  *)
(***************************************************************************)

\* The datasets zfs.go makes and what a snapshot of one is worth.
LEMMA VolumeValues ==
    /\ NoVolume \in Volumes /\ NewClone \in Volumes
    /\ \A v \in Volumes : Taken(v) \in Snapshots
    /\ "none" \in Snapshots
BY DEF NoVolume, NewClone, Volumes, Snapshots, Taken

\* The rows SetState and SetError of state.go leave.
LEMMA RowValues ==
    /\ \A s \in RowStates : RowIn(s) \in Rows
    /\ \A op \in Operations, stage \in Stages : ErrorRow(op, stage) \in Rows
<1>1. \A s \in RowStates : RowIn(s) \in Rows
  BY DEF Rows, RowIn, Operations, Stages
<1>2. "error" \in RowStates
  BY DEF RowStates
<1>3. QED
  BY <1>1, <1>2 DEF Rows, ErrorRow

\* A branch lock nobody holds.
LEMMA IdleTask == Idle \in Tasks
BY DEF Idle, Tasks, Pcs, Paths, Operations

-----------------------------------------------------------------------------
(***************************************************************************)
(* Helpers of a step                                                       *)
(***************************************************************************)

\* The next step of a call keeps what the call knows.
LEMMA GotoTyped ==
    ASSUME TypeOK, NEW b \in Branches, NEW pc \in Pcs, Goto(b, pc)
    PROVE  task' \in [Branches -> Tasks]
BY DEF TypeOK, Goto, Tasks

\* Unlocking.
LEMMA ReleaseTyped ==
    ASSUME TypeOK, NEW b \in Branches, Release(b)
    PROVE  task' \in [Branches -> Tasks]
BY IdleTask DEF TypeOK, Release

\* The first step of a call.
LEMMA BeginTyped ==
    ASSUME TypeOK, NEW b \in Branches, NEW pc \in Pcs, NEW path \in Paths,
           NEW name \in Operations, Begin(b, pc, path, name)
    PROVE  task' \in [Branches -> Tasks]
BY DEF TypeOK, Begin, Tasks

\* failOp records the operation of the call that failed.
LEMMA FailOpTyped ==
    ASSUME TypeOK, NEW b \in Branches, NEW stage \in Stages, FailOp(b, stage)
    PROVE  row' \in [Branches -> Rows] /\ task' \in [Branches -> Tasks]
<1>1. task[b].name \in Operations
  BY DEF TypeOK, Tasks
<1>2. ErrorRow(task[b].name, stage) \in Rows
  BY <1>1, RowValues
<1>3. row' \in [Branches -> Rows]
  BY <1>2 DEF FailOp, SetRow, TypeOK
<1>4. QED
  BY <1>3, ReleaseTyped DEF FailOp

\* What a step can do to the row and to the call, in one place.
LEMMA CallTyped ==
    ASSUME TypeOK, NEW b \in Branches
    PROVE  /\ \A pc \in Pcs : Goto(b, pc) => task' \in [Branches -> Tasks]
           /\ Release(b) => task' \in [Branches -> Tasks]
           /\ \A stage \in Stages :
                FailOp(b, stage) => /\ row' \in [Branches -> Rows]
                                    /\ task' \in [Branches -> Tasks]
           /\ \A r \in Rows : SetRow(b, r) => row' \in [Branches -> Rows]
           /\ UNCHANGED row => row' \in [Branches -> Rows]
BY GotoTyped, ReleaseTyped, FailOpTyped DEF TypeOK, SetRow

\* Starting, stopping and killing an engine.
LEMMA EngineTyped ==
    ASSUME TypeOK, NEW b \in Branches
    PROVE  /\ EngineUp(b) \/ EngineStop(b) => /\ eng' \in [Branches -> BOOLEAN]
                                              /\ vol' \in [Branches -> Volumes]
           /\ EngineKill(b) => eng' \in [Branches -> BOOLEAN]
<1>1. /\ vol[b] \in Volumes /\ eng[b] \in BOOLEAN
      /\ vol[b].clean \in BOOLEAN
  BY DEF TypeOK, Volumes
<1>2. \A x \in BOOLEAN : [vol[b] EXCEPT !.clean = x] \in Volumes
  BY <1>1 DEF Volumes
<1>3. EngineUp(b) => /\ eng' \in [Branches -> BOOLEAN]
                     /\ vol' \in [Branches -> Volumes]
  BY <1>1, <1>2 DEF EngineUp, TypeOK
<1>4. EngineStop(b) => /\ eng' \in [Branches -> BOOLEAN]
                       /\ vol' \in [Branches -> Volumes]
  BY <1>1, <1>2 DEF EngineStop, TypeOK
<1>5. QED
  BY <1>3, <1>4 DEF EngineKill, TypeOK

\* The rename to <name>-recreating.
LEMMA MoveTyped ==
    ASSUME TypeOK, NEW b \in Branches, MoveToStash(b)
    PROVE  vol' \in [Branches -> Volumes] /\ stash' \in [Branches -> Volumes]
BY VolumeValues DEF TypeOK, MoveToStash

\* The bound on failing commands.
LEMMA FaultsTyped ==
    ASSUME TypeOK
    PROVE  /\ Works => faults' \in 0..MaxFaults
           /\ \A kind : Breaks(kind) => faults' \in 0..MaxFaults
           /\ \A kind, cond : FailsIf(cond, kind) => faults' \in 0..MaxFaults
BY LimitsAssumption DEF TypeOK, LimitsAssumption, Works, Breaks, FailsIf

-----------------------------------------------------------------------------
(***************************************************************************)
(* Actions                                                                 *)
(***************************************************************************)

\* st.Clone of the origin, in create and in recreateFrom.
LEMMA CloneTyped ==
    ASSUME TypeOK, NEW b \in Branches, Clone(b)
    PROVE  TypeOK'
<1>1. faults' \in 0..MaxFaults
  BY FaultsTyped DEF Clone
<1>2. vol' \in [Branches -> Volumes]
  BY VolumeValues DEF Clone, TypeOK
<1>3. "restore" \in Pcs /\ "quota" \in Pcs /\ "clone" \in Stages
  BY DEF Pcs, Stages
<1>4. CloneFailed(b) =>
         row' \in [Branches -> Rows] /\ task' \in [Branches -> Tasks]
  BY <1>3, CallTyped DEF CloneFailed
<1>5. row' \in [Branches -> Rows] /\ task' \in [Branches -> Tasks]
  BY <1>3, <1>4, CallTyped DEF Clone
<1>6. QED
  BY <1>1, <1>2, <1>5 DEF TypeOK, Clone, daemon

\* recreateFrom's way back when the clone failed.
LEMMA RestoreStashTyped ==
    ASSUME TypeOK, NEW b \in Branches, RestoreStash(b)
    PROVE  TypeOK'
<1>1. faults' \in 0..MaxFaults
  BY FaultsTyped DEF RestoreStash
<1>2. eng' \in [Branches -> BOOLEAN]
  BY DEF TypeOK, RestoreStash
<1>3. stash' \in [Branches -> Volumes]
  BY VolumeValues DEF RestoreStash, TypeOK
<1>4. (stash[b].clean /\ ~eng'[b]) \in BOOLEAN
  OBVIOUS
<1>5. [stash[b] EXCEPT !.clean = stash[b].clean /\ ~eng'[b]] \in Volumes
  BY <1>4 DEF TypeOK, Volumes
<1>6. vol' \in [Branches -> Volumes]
  BY <1>5 DEF RestoreStash, TypeOK
<1>7. "clone" \in Stages
  BY DEF Stages
<1>8. row' \in [Branches -> Rows] /\ task' \in [Branches -> Tasks]
  BY <1>7, CallTyped DEF RestoreStash
<1>9. QED
  BY <1>1, <1>2, <1>3, <1>6, <1>8 DEF TypeOK, RestoreStash, daemon

\* applyQuota, and the choice whether a hook runs.
LEMMA QuotaTyped ==
    ASSUME TypeOK, NEW b \in Branches, Quota(b)
    PROVE  TypeOK'
BY CallTyped, RowValues, FaultsTyped
DEF Quota, daemon, At, TypeOK, Pcs, Stages, Operations

\* The start before the on-create hook.
LEMMA BootForHookTyped ==
    ASSUME TypeOK, NEW b \in Branches, BootForHook(b)
    PROVE  TypeOK'
BY CallTyped, RowValues, EngineTyped, FaultsTyped
DEF BootForHook, Boot, BootFails, daemon, At, TypeOK, Pcs, Stages, Operations

\* runHook of on-create or on-recreate.
LEMMA HookTyped ==
    ASSUME TypeOK, NEW b \in Branches, Hook(b)
    PROVE  TypeOK'
BY CallTyped, RowValues, FaultsTyped
DEF Hook, daemon, At, TypeOK, Pcs, Stages, Operations

\* The graceful stop before @init.
LEMMA StopForInitTyped ==
    ASSUME TypeOK, NEW b \in Branches, StopForInit(b)
    PROVE  TypeOK'
BY CallTyped, RowValues, EngineTyped, FaultsTyped
DEF StopForInit, daemon, At, TypeOK, Pcs, Stages, Operations

\* st.SnapshotInit.
LEMMA SnapshotInitTyped ==
    ASSUME TypeOK, NEW b \in Branches, SnapshotInit(b)
    PROVE  TypeOK'
<1>1. faults' \in 0..MaxFaults
  BY FaultsTyped DEF SnapshotInit
<1>2. Taken(vol[b]) \in Snapshots
  BY VolumeValues DEF TypeOK
<1>3. vol' \in [Branches -> Volumes]
  BY <1>2, SMTT(30) DEF SnapshotInit, TypeOK, Volumes
<1>4. "boot2" \in Pcs /\ "snapshot" \in Stages
  BY DEF Pcs, Stages
<1>5. row' \in [Branches -> Rows] /\ task' \in [Branches -> Tasks]
  BY <1>4, CallTyped DEF SnapshotInit
<1>6. QED
  BY <1>1, <1>3, <1>5 DEF TypeOK, SnapshotInit, daemon

\* The last start of create, reset and recreate.
LEMMA BootForUseTyped ==
    ASSUME TypeOK, NEW b \in Branches, BootForUse(b)
    PROVE  TypeOK'
BY CallTyped, RowValues, EngineTyped, FaultsTyped
DEF BootForUse, Boot, BootFails, daemon, At, TypeOK, Pcs, Stages, Operations

\* SetState(running) at the end of a call.
LEMMA MarkRunningTyped ==
    ASSUME TypeOK, NEW b \in Branches, MarkRunning(b)
    PROVE  TypeOK'
BY CallTyped, RowValues
DEF MarkRunning, daemon, budget, At, TypeOK, Stages, RowStates, Transitional

\* An engine is killed, or survives it.
LEMMA KillTyped ==
    ASSUME TypeOK, NEW b \in Branches
    PROVE  /\ KillSurvived(b) => faults' \in 0..MaxFaults
           /\ EngineKill(b) \/ KillSurvived(b) => eng' \in [Branches -> BOOLEAN]
BY FaultsTyped, EngineTyped DEF KillSurvived, TypeOK

\* recreateFrom kills the engine of the old volume.
LEMMA KillOldTyped ==
    ASSUME TypeOK, NEW b \in Branches, KillOld(b)
    PROVE  TypeOK'
<1>1. faults' \in 0..MaxFaults
  BY FaultsTyped, KillTyped DEF KillOld
<1>2. eng' \in [Branches -> BOOLEAN]
  BY KillTyped DEF KillOld, TypeOK
<1>3. "stale" \in Pcs
  BY DEF Pcs
<1>4. CASE Goto(b, "stale")
  BY <1>1, <1>2, <1>3, <1>4, CallTyped DEF KillOld, TypeOK, daemon
<1>5. CASE task' = [task EXCEPT ![b].pc = "stale", ![b].hasOld = TRUE]
  <2>1. task' \in [Branches -> Tasks]
    BY <1>3, <1>5 DEF TypeOK, Tasks
  <2>2. QED
    BY <1>1, <1>2, <2>1 DEF KillOld, TypeOK, daemon
<1>6. QED
  BY <1>4, <1>5 DEF KillOld

\* recreateFrom removes what an earlier attempt stashed.
LEMMA DropStaleTyped ==
    ASSUME TypeOK, NEW b \in Branches, DropStale(b)
    PROVE  TypeOK'
<1>1. faults' \in 0..MaxFaults
  BY FaultsTyped DEF DropStale
<1>2. stash' \in [Branches -> Volumes]
  BY VolumeValues DEF DropStale, TypeOK
<1>3. (IF task[b].hasOld THEN "stash" ELSE "clone") \in Pcs
  BY DEF Pcs
<1>4. task' \in [Branches -> Tasks]
  BY <1>3, CallTyped DEF DropStale
<1>5. QED
  BY <1>1, <1>2, <1>4 DEF TypeOK, DropStale, daemon

\* recreateFrom renames the old volume.
LEMMA StashOldTyped ==
    ASSUME TypeOK, NEW b \in Branches, StashOld(b)
    PROVE  TypeOK'
<1>1. faults' \in 0..MaxFaults
  BY FaultsTyped DEF StashOld
<1>2. vol' \in [Branches -> Volumes] /\ stash' \in [Branches -> Volumes]
  BY MoveTyped DEF StashOld, TypeOK
<1>3. "clone" \in Pcs /\ "stash" \in Stages
  BY DEF Pcs, Stages
<1>4. row' \in [Branches -> Rows] /\ task' \in [Branches -> Tasks]
  BY <1>3, CallTyped DEF StashOld
<1>5. QED
  BY <1>1, <1>2, <1>4 DEF TypeOK, StashOld, daemon

\* recreateFrom destroys the volume it replaced.
LEMMA DropOldTyped ==
    ASSUME TypeOK, NEW b \in Branches, DropOld(b)
    PROVE  TypeOK'
<1>1. faults' \in 0..MaxFaults
  BY FaultsTyped DEF DropOld
<1>2. stash' \in [Branches -> Volumes]
  BY VolumeValues DEF DropOld, TypeOK
<1>3. "done" \in Pcs
  BY DEF Pcs
<1>4. task' \in [Branches -> Tasks]
  BY <1>3, CallTyped DEF DropOld
<1>5. QED
  BY <1>1, <1>2, <1>4 DEF TypeOK, DropOld, daemon

\* Reset kills the engine and rolls back to @init.
LEMMA RollbackTyped ==
    ASSUME TypeOK, NEW b \in Branches, Rollback(b)
    PROVE  TypeOK'
<1>1. faults' \in 0..MaxFaults
  BY FaultsTyped, KillTyped DEF Rollback
<1>2. eng' \in [Branches -> BOOLEAN]
  BY KillTyped DEF Rollback
<1>3. vol' \in [Branches -> Volumes]
  <2>1. (vol[b].init = "clean" /\ ~eng'[b]) \in BOOLEAN
    OBVIOUS
  <2>2. \A x \in BOOLEAN :
          [vol[b] EXCEPT !.clean = x, !.base = "none"] \in Volumes
    BY VolumeValues DEF TypeOK, Volumes
  <2>3. CASE UNCHANGED vol
    BY <2>3 DEF TypeOK
  <2>4. CASE vol' = [vol EXCEPT ![b].clean = vol[b].init = "clean" /\ ~eng'[b],
                                ![b].base = "none"]
    <3>1. vol' = [vol EXCEPT ![b] =
             [vol[b] EXCEPT !.clean = vol[b].init = "clean" /\ ~eng'[b], !.base = "none"]]
      BY <2>4 DEF TypeOK
    <3>2. QED
      BY <2>1, <2>2, <3>1 DEF TypeOK
  <2>5. QED
    BY <2>3, <2>4 DEF Rollback
<1>4. "boot2" \in Pcs /\ "rollback" \in Stages
  BY DEF Pcs, Stages
<1>5. row' \in [Branches -> Rows] /\ task' \in [Branches -> Tasks]
  BY <1>4, CallTyped DEF Rollback
<1>6. QED
  BY <1>1, <1>2, <1>3, <1>5 DEF TypeOK, Rollback, daemon

\* Delete stops the engine and destroys the dataset.
LEMMA DestroyTyped ==
    ASSUME TypeOK, NEW b \in Branches, Destroy(b)
    PROVE  TypeOK'
<1>1. faults' \in 0..MaxFaults
  BY FaultsTyped DEF Destroy
<1>2. eng' \in [Branches -> BOOLEAN]
  BY EngineTyped DEF Destroy, TypeOK
<1>3. vol' \in [Branches -> Volumes]
  BY VolumeValues, EngineTyped DEF Destroy, TypeOK
<1>4. "dropRow" \in Pcs /\ ErrorRow("none", "none") \in Rows
  BY RowValues DEF Pcs, Stages, Operations
<1>5. row' \in [Branches -> Rows] /\ task' \in [Branches -> Tasks]
  BY <1>4, CallTyped DEF Destroy, DestroyFailed
<1>6. QED
  BY <1>1, <1>2, <1>3, <1>5 DEF TypeOK, Destroy, daemon

\* Delete removes the row.
LEMMA DropRowTyped ==
    ASSUME TypeOK, NEW b \in Branches, DropRow(b)
    PROVE  TypeOK'
BY CallTyped, RowValues
DEF DropRow, daemon, budget, At, TypeOK, Stages, RowStates, Transitional

\* Wake finds the engine running.
LEMMA WakeSkipsTyped ==
    ASSUME TypeOK, NEW b \in Branches, WakeSkips(b)
    PROVE  TypeOK'
BY CallTyped
DEF WakeSkips, durable, daemon, budget, At, TypeOK, Pcs

\* Wake starts the engine.
LEMMA WakeBootsTyped ==
    ASSUME TypeOK, NEW b \in Branches, WakeBoots(b)
    PROVE  TypeOK'
BY CallTyped, RowValues, EngineTyped, FaultsTyped
DEF WakeBoots, Boot, BootFails, daemon, At, TypeOK, Pcs, Stages, Operations

\* Sleep writes the row.
LEMMA MarkSleepingTyped ==
    ASSUME TypeOK, NEW b \in Branches, MarkSleeping(b)
    PROVE  TypeOK'
BY CallTyped, RowValues
DEF MarkSleeping, daemon, budget, At, TypeOK, Stages, RowStates, Transitional

\* PromoteBranch takes the snapshot.
LEMMA PromoteSnapshotTyped ==
    ASSUME TypeOK, NEW b \in Branches, PromoteSnapshot(b)
    PROVE  TypeOK'
<1>1. faults' \in 0..MaxFaults
  BY FaultsTyped DEF PromoteSnapshot
<1>2. Taken(vol[b]) \in Snapshots
  BY VolumeValues DEF TypeOK
<1>3. vol' \in [Branches -> Volumes]
  BY <1>2 DEF PromoteSnapshot, TypeOK, Volumes
<1>4. "register" \in Pcs /\ "restart" \in Pcs
  BY DEF Pcs
<1>5. task' \in [Branches -> Tasks]
  BY <1>4, CallTyped DEF PromoteSnapshot
<1>6. QED
  BY <1>1, <1>3, <1>5 DEF TypeOK, PromoteSnapshot, daemon

\* PromoteBranch registers the baseline.
LEMMA RegisterBaselineTyped ==
    ASSUME TypeOK, NEW b \in Branches, RegisterBaseline(b)
    PROVE  TypeOK'
BY CallTyped
DEF RegisterBaseline, daemon, budget, At, TypeOK, Pcs

\* PromoteBranch starts the engine again.
LEMMA RestartBranchTyped ==
    ASSUME TypeOK, NEW b \in Branches, RestartBranch(b)
    PROVE  TypeOK'
BY CallTyped, EngineTyped, FaultsTyped
DEF RestartBranch, daemon, At, TypeOK

\* CreateWithMetaFrom up to the insertion of the row.
LEMMA CreateTyped ==
    ASSUME TypeOK, NEW b \in Branches, Create(b)
    PROVE  TypeOK'
BY CallTyped, BeginTyped, RowValues
DEF Create, Callable, daemon, budget, Locked, TypeOK, Pcs, Stages, Paths,
    Operations, RowStates, Transitional

\* Reset up to SetState(resetting).
LEMMA ResetTyped ==
    ASSUME TypeOK, NEW b \in Branches, Reset(b)
    PROVE  TypeOK'
BY CallTyped, BeginTyped, RowValues
DEF Reset, Callable, daemon, budget, Locked, TypeOK, Pcs, Stages, Paths,
    Operations, RowStates, Transitional

\* Recreate up to SetState(resetting).
LEMMA RecreateTyped ==
    ASSUME TypeOK, NEW b \in Branches, Recreate(b)
    PROVE  TypeOK'
BY CallTyped, BeginTyped, RowValues
DEF Recreate, RecreateFrom, Callable, daemon, budget, Locked, TypeOK, Pcs,
    Stages, Paths, Operations, RowStates, Transitional

\* Delete up to SetState(deleting), or the row alone.
LEMMA DeleteTyped ==
    ASSUME TypeOK, NEW b \in Branches, Delete(b)
    PROVE  TypeOK'
BY CallTyped, BeginTyped, RowValues, FaultsTyped
DEF Delete, DeleteBody, Callable, Locked, TypeOK, Pcs, Stages, Paths,
    Operations, RowStates, Transitional

\* Wake up to SetState(running).
LEMMA WakeTyped ==
    ASSUME TypeOK, NEW b \in Branches, Wake(b)
    PROVE  TypeOK'
BY CallTyped, BeginTyped, RowValues
DEF Wake, Callable, daemon, budget, Locked, TypeOK, Pcs, Stages, Paths,
    Operations, RowStates, Transitional

\* Sleep stops the engine.
LEMMA SleepTyped ==
    ASSUME TypeOK, NEW b \in Branches, Sleep(b)
    PROVE  TypeOK'
BY BeginTyped, EngineTyped
DEF Sleep, Callable, daemon, budget, Locked, TypeOK, Pcs, Paths, Operations

\* PromoteBranch stops the engine.
LEMMA PromoteTyped ==
    ASSUME TypeOK, NEW b \in Branches, Promote(b)
    PROVE  TypeOK'
BY BeginTyped, EngineTyped
DEF Promote, Callable, daemon, budget, Locked, TypeOK, Pcs, Paths, Operations

\* Retry reads the row outside the lock.
LEMMA RetryReadsTyped ==
    ASSUME TypeOK, NEW b \in Branches, RetryReads(b)
    PROVE  TypeOK'
BY DEF RetryReads, durable, daemon, budget, TypeOK

\* retryCreate up to SetState(resetting).
LEMMA RetryCreateTyped ==
    ASSUME TypeOK, NEW b \in Branches, RetryCreate(b)
    PROVE  TypeOK'
BY CallTyped, BeginTyped, RowValues
DEF RetryCreate, RecreateFrom, Callable, daemon, budget, Locked, TypeOK, Pcs,
    Stages, Paths, Operations, RowStates, Transitional

\* Retry that finds nothing left to do.
LEMMA RetryGivesUpTyped ==
    ASSUME TypeOK, NEW b \in Branches, RetryGivesUp(b)
    PROVE  TypeOK'
BY DEF RetryGivesUp, Callable, durable, daemon, budget, Locked, TypeOK

\* A baseline of the branch is deleted.
LEMMA RetireBaselineTyped ==
    ASSUME TypeOK, NEW b \in Branches, RetireBaseline(b)
    PROVE  TypeOK'
<1>1. "none" \in Snapshots
  BY VolumeValues
<1>2. vol' \in [Branches -> Volumes]
  BY <1>1 DEF RetireBaseline, TypeOK, Volumes
<1>3. QED
  BY <1>2 DEF RetireBaseline, TypeOK, daemon, budget

\* The engine's process dies.
LEMMA EngineDiesTyped ==
    ASSUME TypeOK, NEW b \in Branches, EngineDies(b)
    PROVE  TypeOK'
<1>1. eng' \in [Branches -> BOOLEAN]
  BY EngineTyped DEF EngineDies
<1>2. deaths' \in 0..MaxDeaths
  BY LimitsAssumption DEF EngineDies, TypeOK, LimitsAssumption
<1>3. QED
  BY <1>1, <1>2 DEF EngineDies, TypeOK, daemon

\* Reconcile resumes a deletion.
LEMMA ReconcileDeleteTyped ==
    ASSUME TypeOK, NEW b \in Branches, ReconcileDelete(b)
    PROVE  TypeOK'
BY CallTyped, BeginTyped, RowValues, FaultsTyped
DEF ReconcileDelete, DeleteBody, Visiting, Locked, TypeOK, Pcs, Stages, Paths,
    Operations, RowStates, Transitional

\* Reconcile reports an interrupted call.
LEMMA ReconcileInterruptedTyped ==
    ASSUME TypeOK, NEW b \in Branches, ReconcileInterrupted(b)
    PROVE  TypeOK'
BY CallTyped, RowValues, FaultsTyped
DEF ReconcileInterrupted, Visiting, Locked, TypeOK, Stages, Operations

\* Reconcile looks at a settled row.
LEMMA ReconcileSettledTyped ==
    ASSUME TypeOK, NEW b \in Branches, ReconcileSettled(b)
    PROVE  TypeOK'
BY CallTyped, RowValues, FaultsTyped
DEF ReconcileSettled, Visiting, Transitional, Locked, TypeOK, Stages,
    Operations, RowStates

-----------------------------------------------------------------------------
(***************************************************************************)
(* The specification                                                       *)
(***************************************************************************)

\* Everything begins with its type,
LEMMA InitTyped == Init => TypeOK
BY VolumeValues, RowValues, IdleTask, LimitsAssumption
DEF Init, TypeOK, LimitsAssumption, RowStates

\* and every step keeps it.
LEMMA NextTyped == TypeOK /\ [Next]_vars => TypeOK'
<1> SUFFICES ASSUME TypeOK, [Next]_vars PROVE TypeOK'
  OBVIOUS
<1>1. ASSUME NEW b \in Branches, Call(b) PROVE TypeOK'
  BY <1>1, CreateTyped, ResetTyped, RecreateTyped, DeleteTyped, WakeTyped,
     SleepTyped, PromoteTyped, RetryReadsTyped, RetryCreateTyped,
     RetryGivesUpTyped DEF Call
<1>2. ASSUME NEW b \in Branches, Proceed(b) PROVE TypeOK'
  BY <1>2, CloneTyped, RestoreStashTyped, QuotaTyped, BootForHookTyped, HookTyped,
     StopForInitTyped, SnapshotInitTyped, BootForUseTyped, MarkRunningTyped,
     KillOldTyped, DropStaleTyped, StashOldTyped, DropOldTyped,
     RollbackTyped, DestroyTyped, DropRowTyped, WakeSkipsTyped,
     WakeBootsTyped, MarkSleepingTyped, PromoteSnapshotTyped,
     RegisterBaselineTyped, RestartBranchTyped DEF Proceed
<1>3. ASSUME NEW b \in Branches, ReconcileBranch(b) PROVE TypeOK'
  BY <1>3, ReconcileDeleteTyped, ReconcileInterruptedTyped, ReconcileSettledTyped
  DEF ReconcileBranch
<1>4. ASSUME Crash PROVE TypeOK'
  BY <1>4, IdleTask, LimitsAssumption
  DEF Crash, TypeOK, durable, LimitsAssumption
<1>5. ASSUME ReconcileDone PROVE TypeOK'
  BY <1>5 DEF ReconcileDone, TypeOK, durable, budget
<1>6. ASSUME UNCHANGED vars PROVE TypeOK'
  BY <1>6 DEF vars, durable, daemon, budget, TypeOK
<1>7. QED
  BY <1>1, <1>2, <1>3, <1>4, <1>5, <1>6, RetireBaselineTyped,
     EngineDiesTyped DEF Next

\* TypeOK holds of every reachable state: the rows, datasets and calls of
\* manager.go never leave their types.
THEOREM TypeCorrect == Spec => []TypeOK
BY InitTyped, NextTyped, PTL DEF Spec

=============================================================================
