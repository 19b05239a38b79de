----------------------- MODULE BranchLifecycle_proofs -----------------------
(***************************************************************************)
(* LifecycleInv is an inductive invariant of BranchLifecycle, and with it  *)
(* the safety properties of the branch lifecycle hold of every number of   *)
(* branches, limit, fault and crash.                                       *)
(*                                                                         *)
(* The argument is local.  A step belongs to one branch b and leaves what  *)
(* Fits says of the others alone (OthersKeep); what it does to Fits(b) is  *)
(* one lemma per action (<Action>Keeps), each in three parts: who may hold *)
(* the branch, what its datasets are, and what @init was taken of.         *)
(***************************************************************************)
EXTENDS BranchLifecycle_type_proofs, FiniteSetTheorems

-----------------------------------------------------------------------------
(***************************************************************************)
(* What the helpers of a step do to the branch they are given              *)
(***************************************************************************)

\* The types of one branch's part of the state.
LEMMA Values ==
    ASSUME TypeOK, NEW b \in Branches
    PROVE  /\ row[b] \in Rows /\ task[b] \in Tasks
           /\ vol[b] \in Volumes /\ stash[b] \in Volumes
           /\ eng[b] \in BOOLEAN /\ reg[b] \in BOOLEAN
           /\ row \in [Branches -> Rows] /\ task \in [Branches -> Tasks]
           /\ vol \in [Branches -> Volumes]
           /\ stash \in [Branches -> Volumes]
           /\ eng \in [Branches -> BOOLEAN] /\ reg \in [Branches -> BOOLEAN]
           /\ deaths \in Nat
BY DEF TypeOK

\* A call goes on to its next step.
LEMMA GotoEffect ==
    ASSUME TypeOK, NEW b \in Branches, NEW pc, Goto(b, pc)
    PROVE  /\ task'[b].pc = pc
           /\ task'[b].path = task[b].path
           /\ task'[b].name = task[b].name
           /\ task'[b].hasOld = task[b].hasOld
           /\ task'[b].wasError = task[b].wasError
BY DEF Goto, TypeOK, Tasks

\* A call unlocks the branch.
LEMMA ReleaseEffect ==
    ASSUME TypeOK, NEW b \in Branches, Release(b)
    PROVE  /\ task'[b].pc = "idle" /\ task'[b].path = "none"
           /\ task'[b].name = "none"
BY DEF Release, TypeOK, Idle

\* SetState and SetError write one row.
LEMMA SetRowEffect ==
    ASSUME TypeOK, NEW b \in Branches, NEW r, SetRow(b, r)
    PROVE  row'[b] = r
BY DEF SetRow, TypeOK

\* failOp leaves an error row that names the call's operation, and unlocks.
LEMMA FailOpEffect ==
    ASSUME TypeOK, NEW b \in Branches, NEW stage, FailOp(b, stage)
    PROVE  /\ task'[b].pc = "idle" /\ task'[b].path = "none"
           /\ task'[b].name = "none"
           /\ row'[b].state = "error" /\ row'[b].op = task[b].name
BY SetRowEffect, ReleaseEffect DEF FailOp, ErrorRow

\* Starting and stopping an engine leaves the dataset and its snapshots.
LEMMA EngineEffect ==
    ASSUME TypeOK, NEW b \in Branches
    PROVE  /\ EngineUp(b) \/ EngineStop(b) => /\ vol'[b].exists = vol[b].exists
                                              /\ vol'[b].init = vol[b].init
                                              /\ vol'[b].base = vol[b].base
           /\ EngineUp(b) => eng'[b]
           /\ EngineStop(b) => /\ ~eng'[b]
                               /\ vol'[b].clean <=> (eng[b] \/ vol[b].clean)
BY DEF EngineUp, EngineStop, TypeOK, Volumes

\* The rename to <name>-recreating.
LEMMA MoveEffect ==
    ASSUME TypeOK, NEW b \in Branches, MoveToStash(b)
    PROVE  vol'[b] = NoVolume /\ stash'[b] = vol[b]
BY DEF MoveToStash, TypeOK

\* Which call a program counter belongs to.
LEMMA Holder ==
    ASSUME TypeOK, NEW b \in Branches, CallFits(b)
    PROVE  LET t == task[b]  s == row[b].state IN
           /\ t.pc = "clone" => s \in {"creating", "resetting"}
           /\ t.pc \in {"restore", "stash"} =>
                t.path = "recreate" /\ s = "resetting" /\ t.name # "wake"
           /\ t.pc = "rollback" =>
                t.path = "reset" /\ s = "resetting" /\ t.name # "wake"
           /\ t.pc = "destroy" => t.path = "delete" /\ s = "deleting"
           /\ t.pc = "wake" => t.path = "wake" /\ s = "running"
           /\ t.pc \in {"snap", "register", "restart"} =>
                t.path = "promote" /\ s \in {"running", "sleeping"}
BY DEF CallFits, TypeOK, Tasks, Paths

-----------------------------------------------------------------------------
(***************************************************************************)
(* Actions                                                                 *)
(***************************************************************************)

\* st.Clone of the origin, in create and in recreateFrom.
LEMMA CloneKeeps ==
    ASSUME TypeOK, NEW b \in Branches, Clone(b), Fits(b)
    PROVE  Fits(b)'
<1>1. CallFits(b)
  BY DEF Fits
<1>2. CallFits(b)' /\ PromotionFits(b)' /\ SettledFits(b)'
  BY <1>1, Holder, FailOpEffect, GotoEffect, Values
  DEF Clone, Fits, CallFits, PromotionFits, SettledFits, Kept, CloneFailed,
      daemon, At, Works, Breaks, FailsIf, NewClone, NoVolume, Locked,
      Transitional
<1>3. ("resolve" \notin FaultKinds => Covered(b))'
  BY <1>1, Holder, FailOpEffect, GotoEffect, Values
  DEF Clone, Fits, Covered, CallFits, CloneFailed, daemon, At, Works, Breaks,
      FailsIf, NewClone, NoVolume, Volumes
<1>4. VolumeFits(b)' /\ Resettable(b)' /\ Kept(b)'
  BY <1>1, Holder, FailOpEffect, GotoEffect, Values
  DEF Clone, Fits, VolumeFits, Resettable, Kept, CallFits, Live, CloneFailed,
      daemon, At, Works, Breaks, FailsIf, NewClone, NoVolume, Volumes
<1>5. CleanFits(b)' /\ InitClean(b)'
  BY FailOpEffect, GotoEffect, Values, SMTT(30)
  DEF Clone, Fits, CleanFits, InitClean, CallFits, CloneFailed, daemon, At,
      Works, Breaks, FailsIf, NewClone, NoVolume, Volumes
<1>6. QED
  BY <1>2, <1>3, <1>4, <1>5 DEF Fits

\* recreateFrom's way back when the clone failed.
LEMMA RestoreStashKeeps ==
    ASSUME TypeOK, NEW b \in Branches, RestoreStash(b), Fits(b)
    PROVE  Fits(b)'
<1>1. task[b].pc = "restore"
  BY DEF RestoreStash, At
<1>2. stash[b].exists
  BY <1>1 DEF Fits, VolumeFits
<1>3. row[b].state = "resetting" /\ task[b].name # "wake"
  BY <1>1, Holder DEF Fits
<1>4. /\ task'[b].pc = "idle"
      /\ row'[b].state = "error" /\ row'[b].op # "wake"
  BY <1>3, FailOpEffect DEF RestoreStash
<1>5. \/ /\ ~vol[b].exists
         /\ vol'[b].exists /\ vol'[b].init = stash[b].init
         /\ vol'[b].base = stash[b].base
      \/ vol'[b] = vol[b] /\ eng'[b] = eng[b]
  BY <1>2, Values DEF RestoreStash, Volumes
<1>6. CallFits(b)' /\ PromotionFits(b)' /\ SettledFits(b)'
  BY FailOpEffect, Values
  DEF RestoreStash, Fits, CallFits, PromotionFits, SettledFits, daemon, At,
      Works, Breaks, FailsIf, NoVolume, Locked, Transitional
<1>7. VolumeFits(b)'
  BY <1>2, <1>4, <1>5 DEF Fits, VolumeFits
<1>8. /\ ("resolve" \notin FaultKinds => Covered(b))'
      /\ Resettable(b)'
      /\ Kept(b)'
  BY <1>4, <1>5 DEF Fits, Covered, Resettable, Live, Kept, RestoreStash
<1>9. CleanFits(b)' /\ InitClean(b)'
  BY FailOpEffect, Values
  DEF RestoreStash, Fits, CleanFits, InitClean, CallFits, daemon, At, Works,
      Breaks, FailsIf, NoVolume, Volumes
<1>10. QED
  BY <1>6, <1>7, <1>8, <1>9 DEF Fits

\* applyQuota, and the choice whether a hook runs.
LEMMA QuotaKeeps ==
    ASSUME TypeOK, NEW b \in Branches, Quota(b), Fits(b)
    PROVE  Fits(b)'
<1>1. CallFits(b)' /\ PromotionFits(b)' /\ SettledFits(b)'
  BY FailOpEffect, GotoEffect, Values
  DEF Quota, Fits, CallFits, PromotionFits, SettledFits, daemon, At, Works,
      FailsIf, Breaks, Locked, Transitional
<1>2. /\ VolumeFits(b)'
      /\ ("resolve" \notin FaultKinds => Covered(b))'
      /\ Resettable(b)'
      /\ Kept(b)'
  BY FailOpEffect, GotoEffect, Values
  DEF Quota, Fits, VolumeFits, Covered, Resettable, Kept, CallFits, Live,
      daemon, At, Works, FailsIf, Breaks, Volumes
<1>3. CleanFits(b)' /\ InitClean(b)'
  BY FailOpEffect, GotoEffect, Values
  DEF Quota, Fits, CleanFits, InitClean, CallFits, daemon, At, Works, FailsIf,
      Breaks, Volumes
<1>4. QED
  BY <1>1, <1>2, <1>3 DEF Fits

\* The start before the on-create hook.
LEMMA BootForHookKeeps ==
    ASSUME TypeOK, NEW b \in Branches, BootForHook(b), Fits(b)
    PROVE  Fits(b)'
<1>1. CallFits(b)' /\ PromotionFits(b)' /\ SettledFits(b)'
  BY EngineEffect, FailOpEffect, GotoEffect, Values
  DEF BootForHook, Fits, CallFits, PromotionFits, SettledFits, Boot,
      BootFails, daemon, At, Works, Breaks, FailsIf, Locked, Transitional
<1>2. /\ VolumeFits(b)'
      /\ ("resolve" \notin FaultKinds => Covered(b))'
      /\ Resettable(b)'
      /\ Kept(b)'
  BY EngineEffect, FailOpEffect, GotoEffect, Values
  DEF BootForHook, Fits, VolumeFits, Covered, Resettable, Kept, CallFits,
      Live, Boot, BootFails, daemon, At, Works, Breaks, FailsIf, Volumes
<1>3. CleanFits(b)' /\ InitClean(b)'
  BY EngineEffect, FailOpEffect, GotoEffect, Values
  DEF BootForHook, Fits, CleanFits, InitClean, CallFits, Boot, BootFails,
      daemon, At, Works, Breaks, FailsIf, Volumes
<1>4. QED
  BY <1>1, <1>2, <1>3 DEF Fits

\* runHook of on-create or on-recreate.
LEMMA HookKeeps ==
    ASSUME TypeOK, NEW b \in Branches, Hook(b), Fits(b)
    PROVE  Fits(b)'
<1>1. CallFits(b)' /\ PromotionFits(b)' /\ SettledFits(b)'
  BY FailOpEffect, GotoEffect, Values
  DEF Hook, Fits, CallFits, PromotionFits, SettledFits, daemon, At, Works,
      Breaks, Locked, Transitional
<1>2. /\ VolumeFits(b)'
      /\ ("resolve" \notin FaultKinds => Covered(b))'
      /\ Resettable(b)'
      /\ Kept(b)'
  BY FailOpEffect, GotoEffect, Values
  DEF Hook, Fits, VolumeFits, Covered, Resettable, Kept, CallFits, Live,
      daemon, At, Works, Breaks, Volumes
<1>3. CleanFits(b)' /\ InitClean(b)'
  BY FailOpEffect, GotoEffect, Values
  DEF Hook, Fits, CleanFits, InitClean, CallFits, daemon, At, Works, Breaks,
      Volumes
<1>4. QED
  BY <1>1, <1>2, <1>3 DEF Fits

\* The graceful stop before @init.
LEMMA StopForInitKeeps ==
    ASSUME TypeOK, NEW b \in Branches, StopForInit(b), Fits(b)
    PROVE  Fits(b)'
<1>1. CallFits(b)' /\ PromotionFits(b)' /\ SettledFits(b)'
  BY EngineEffect, FailOpEffect, GotoEffect, Values
  DEF StopForInit, Fits, CallFits, PromotionFits, SettledFits, daemon, At,
      Works, Breaks, Locked, Transitional
<1>2. /\ VolumeFits(b)'
      /\ ("resolve" \notin FaultKinds => Covered(b))'
      /\ Resettable(b)'
      /\ Kept(b)'
  BY EngineEffect, FailOpEffect, GotoEffect, Values
  DEF StopForInit, Fits, VolumeFits, Covered, Resettable, Kept, CallFits,
      Live, daemon, At, Works, Breaks, Volumes
<1>3. CleanFits(b)' /\ InitClean(b)'
  BY EngineEffect, FailOpEffect, GotoEffect, Values
  DEF StopForInit, Fits, CleanFits, InitClean, CallFits, daemon, At, Works,
      Breaks, Volumes
<1>4. QED
  BY <1>1, <1>2, <1>3 DEF Fits

\* st.SnapshotInit.
LEMMA SnapshotInitKeeps ==
    ASSUME TypeOK, NEW b \in Branches, SnapshotInit(b), Fits(b)
    PROVE  Fits(b)'
<1>1. CallFits(b)' /\ PromotionFits(b)' /\ SettledFits(b)'
  BY FailOpEffect, GotoEffect, Values
  DEF SnapshotInit, Fits, CallFits, PromotionFits, SettledFits, daemon, At,
      Works, FailsIf, Taken, Breaks, Locked, Transitional
<1>2. /\ VolumeFits(b)'
      /\ ("resolve" \notin FaultKinds => Covered(b))'
      /\ Resettable(b)'
      /\ Kept(b)'
  BY FailOpEffect, GotoEffect, Values, SMTT(30)
  DEF SnapshotInit, Fits, VolumeFits, Covered, Resettable, Kept, CallFits,
      Live, daemon, At, Works, FailsIf, Taken, Breaks, Volumes
<1>3. CleanFits(b)' /\ InitClean(b)'
  BY FailOpEffect, GotoEffect, Values
  DEF SnapshotInit, Fits, CleanFits, InitClean, CallFits, daemon, At, Works,
      FailsIf, Taken, Breaks, Volumes
<1>4. QED
  BY <1>1, <1>2, <1>3 DEF Fits

\* The last start of create, reset and recreate.
LEMMA BootForUseKeeps ==
    ASSUME TypeOK, NEW b \in Branches, BootForUse(b), Fits(b)
    PROVE  Fits(b)'
<1>1. CallFits(b)' /\ PromotionFits(b)' /\ SettledFits(b)'
  BY EngineEffect, FailOpEffect, GotoEffect, Values
  DEF BootForUse, Fits, CallFits, PromotionFits, SettledFits, Boot, BootFails,
      daemon, At, Works, Breaks, FailsIf, Locked, Transitional
<1>2. /\ VolumeFits(b)'
      /\ ("resolve" \notin FaultKinds => Covered(b))'
      /\ Resettable(b)'
      /\ Kept(b)'
  BY EngineEffect, FailOpEffect, GotoEffect, Values
  DEF BootForUse, Fits, VolumeFits, Covered, Resettable, Kept, CallFits, Live,
      Boot, BootFails, daemon, At, Works, Breaks, FailsIf, Volumes
<1>3. CleanFits(b)' /\ InitClean(b)'
  BY EngineEffect, FailOpEffect, GotoEffect, Values
  DEF BootForUse, Fits, CleanFits, InitClean, CallFits, Boot, BootFails,
      daemon, At, Works, Breaks, FailsIf, Volumes
<1>4. QED
  BY <1>1, <1>2, <1>3 DEF Fits

\* SetState(running) at the end of a call.
LEMMA MarkRunningKeeps ==
    ASSUME TypeOK, NEW b \in Branches, MarkRunning(b), Fits(b)
    PROVE  Fits(b)'
<1>1. CallFits(b)' /\ PromotionFits(b)' /\ SettledFits(b)'
  BY ReleaseEffect, SetRowEffect, Values
  DEF MarkRunning, Fits, CallFits, PromotionFits, SettledFits, daemon, budget,
      At, RowIn, Locked, Transitional
<1>2. /\ VolumeFits(b)'
      /\ ("resolve" \notin FaultKinds => Covered(b))'
      /\ Resettable(b)'
      /\ Kept(b)'
  BY ReleaseEffect, SetRowEffect, Values
  DEF MarkRunning, Fits, VolumeFits, Covered, Resettable, Kept, CallFits,
      Live, daemon, budget, At, RowIn, Volumes
<1>3. CleanFits(b)' /\ InitClean(b)'
  BY ReleaseEffect, SetRowEffect, Values
  DEF MarkRunning, Fits, CleanFits, InitClean, CallFits, daemon, budget, At,
      RowIn, Volumes
<1>4. QED
  BY <1>1, <1>2, <1>3 DEF Fits

\* recreateFrom kills the engine of the old volume.
LEMMA KillOldKeeps ==
    ASSUME TypeOK, NEW b \in Branches, KillOld(b), Fits(b)
    PROVE  Fits(b)'
<1>1. task[b].pc = "kill" /\ ~task[b].hasOld
  BY DEF KillOld, At, Fits, VolumeFits
<1>2. task[b].path = "recreate" /\ row[b].state = "resetting" /\ ~reg[b]
  BY <1>1, Values DEF Fits, CallFits, PromotionFits, Tasks, Paths
<1>3. UNCHANGED <<row, reg, vol, stash, mode, todo, deaths>>
  BY DEF KillOld, daemon
<1>4. /\ task'[b].pc = "stale"
      /\ task'[b].path = task[b].path /\ task'[b].name = task[b].name
      /\ eng' \in {eng, [eng EXCEPT ![b] = FALSE]}
      /\ task'[b].hasOld => vol[b].exists
  <2>1. CASE Goto(b, "stale") /\ eng' = eng
    <3>1. /\ task'[b].pc = "stale" /\ task'[b].hasOld = task[b].hasOld
          /\ task'[b].path = task[b].path /\ task'[b].name = task[b].name
      BY <2>1, GotoEffect
    <3>2. QED
      BY <1>1, <2>1, <3>1
  <2>2. CASE /\ task' = [task EXCEPT ![b].pc = "stale", ![b].hasOld = TRUE]
             /\ vol[b].exists /\ (EngineKill(b) \/ KillSurvived(b))
    BY <2>2, Values DEF EngineKill, KillSurvived, Tasks
  <2>3. QED
    BY <2>1, <2>2 DEF KillOld
<1>5. CallFits(b)' /\ PromotionFits(b)' /\ SettledFits(b)'
  BY <1>2, <1>3, <1>4 DEF Fits, CallFits, PromotionFits, SettledFits, Locked
<1>6. /\ VolumeFits(b)'
      /\ ("resolve" \notin FaultKinds => Covered(b))'
      /\ Resettable(b)'
      /\ Kept(b)'
  BY <1>3, <1>4, Values DEF Fits, VolumeFits, Covered, Resettable, Live, Kept
<1>7. CleanFits(b)' /\ InitClean(b)'
  BY <1>3, <1>4 DEF Fits, CleanFits, InitClean
<1>8. QED
  BY <1>5, <1>6, <1>7 DEF Fits

\* recreateFrom removes what an earlier attempt stashed.
LEMMA DropStaleKeeps ==
    ASSUME TypeOK, NEW b \in Branches, DropStale(b), Fits(b)
    PROVE  Fits(b)'
<1>1. CallFits(b)' /\ PromotionFits(b)' /\ SettledFits(b)'
  BY GotoEffect, Values
  DEF DropStale, Fits, CallFits, PromotionFits, SettledFits, daemon, At,
      Works, FailsIf, NoVolume, Breaks, Locked, Transitional
<1>2. /\ VolumeFits(b)'
      /\ ("resolve" \notin FaultKinds => Covered(b))'
      /\ Resettable(b)'
      /\ Kept(b)'
  BY GotoEffect, Values
  DEF DropStale, Fits, VolumeFits, Covered, Resettable, Kept, CallFits, Live,
      daemon, At, Works, FailsIf, NoVolume, Breaks, Volumes
<1>3. CleanFits(b)' /\ InitClean(b)'
  BY GotoEffect, Values
  DEF DropStale, Fits, CleanFits, InitClean, CallFits, daemon, At, Works,
      FailsIf, NoVolume, Breaks, Volumes
<1>4. QED
  BY <1>1, <1>2, <1>3 DEF Fits

\* recreateFrom renames the old volume.
LEMMA StashOldKeeps ==
    ASSUME TypeOK, NEW b \in Branches, StashOld(b), Fits(b)
    PROVE  Fits(b)'
<1>1. CallFits(b)
  BY DEF Fits
<1>2. CallFits(b)' /\ PromotionFits(b)' /\ SettledFits(b)'
  BY FailOpEffect, GotoEffect, MoveEffect, Values
  DEF StashOld, Fits, CallFits, PromotionFits, SettledFits, daemon, At, Works,
      Breaks, FailsIf, Locked, Transitional
<1>3. VolumeFits(b)'
  <2>1. vol[b].exists
    BY DEF StashOld, At, Fits, VolumeFits
  <2>2. \/ /\ vol'[b] = NoVolume /\ stash'[b] = vol[b] /\ ~eng[b]
           /\ task'[b].pc \in {"clone", "idle"}
        \/ UNCHANGED <<vol, stash>> /\ task'[b].pc = "idle"
    BY MoveEffect, GotoEffect, FailOpEffect DEF StashOld
  <2>3. eng' = eng
    BY DEF StashOld
  <2>4. QED
    BY <2>1, <2>2, <2>3 DEF Fits, VolumeFits, NoVolume
<1>4. ("resolve" \notin FaultKinds => Covered(b))'
  BY <1>1, Holder, FailOpEffect, GotoEffect, MoveEffect, Values
  DEF StashOld, Fits, Covered, CallFits, VolumeFits, daemon, At, Works,
      Breaks, FailsIf, Volumes
<1>5. Resettable(b)' /\ Kept(b)'
  BY <1>1, Holder, FailOpEffect, GotoEffect, MoveEffect, Values
  DEF StashOld, Fits, Resettable, Kept, CallFits, VolumeFits, PromotionFits,
      Live, daemon, At, Works, Breaks, FailsIf, Volumes
<1>6. CleanFits(b)'
  BY FailOpEffect, GotoEffect, MoveEffect, Values
  DEF StashOld, Fits, CleanFits, CallFits, daemon, At, Works, Breaks, FailsIf,
      Volumes
<1>7. InitClean(b)'
  <2>1. \/ vol'[b] = NoVolume /\ stash'[b] = vol[b]
        \/ UNCHANGED <<vol, stash>>
    BY MoveEffect DEF StashOld
  <2>2. deaths' = deaths
    BY DEF StashOld
  <2>3. QED
    BY <2>1, <2>2 DEF Fits, InitClean, NoVolume
<1>8. QED
  BY <1>2, <1>3, <1>4, <1>5, <1>6, <1>7 DEF Fits

\* recreateFrom destroys the volume it replaced.
LEMMA DropOldKeeps ==
    ASSUME TypeOK, NEW b \in Branches, DropOld(b), Fits(b)
    PROVE  Fits(b)'
<1>1. CallFits(b)' /\ PromotionFits(b)' /\ SettledFits(b)'
  BY GotoEffect, Values
  DEF DropOld, Fits, CallFits, PromotionFits, SettledFits, daemon, At, Works,
      FailsIf, NoVolume, Breaks, Locked, Transitional
<1>2. /\ VolumeFits(b)'
      /\ ("resolve" \notin FaultKinds => Covered(b))'
      /\ Resettable(b)'
      /\ Kept(b)'
  BY GotoEffect, Values
  DEF DropOld, Fits, VolumeFits, Covered, Resettable, Kept, CallFits, Live,
      daemon, At, Works, FailsIf, NoVolume, Breaks, Volumes
<1>3. CleanFits(b)' /\ InitClean(b)'
  BY GotoEffect, Values
  DEF DropOld, Fits, CleanFits, InitClean, CallFits, daemon, At, Works,
      FailsIf, NoVolume, Breaks, Volumes
<1>4. QED
  BY <1>1, <1>2, <1>3 DEF Fits

\* Reset kills the engine and rolls back to @init.
LEMMA RollbackKeeps ==
    ASSUME TypeOK, NEW b \in Branches, Rollback(b), Fits(b)
    PROVE  Fits(b)'
<1>1. CallFits(b)
  BY DEF Fits
<1>2. CallFits(b)' /\ PromotionFits(b)' /\ SettledFits(b)'
  BY FailOpEffect, GotoEffect, Values
  DEF Rollback, Fits, CallFits, PromotionFits, SettledFits, daemon, At, Works,
      FailsIf, EngineKill, Breaks, Locked, Transitional
<1>3. VolumeFits(b)'
  <2>1. vol'[b].exists = vol[b].exists /\ vol'[b].init = vol[b].init
    BY Values DEF Rollback, Volumes
  <2>2. eng'[b] => eng[b]
    BY Values DEF Rollback, EngineKill, KillSurvived
  <2>3. \/ task'[b].pc = "boot2" /\ vol[b].init # "none"
        \/ task'[b].pc = "idle"
    BY GotoEffect, FailOpEffect DEF Rollback
  <2>4. QED
    BY <2>1, <2>2, <2>3 DEF Fits, VolumeFits
<1>4. /\ ("resolve" \notin FaultKinds => Covered(b))'
      /\ Resettable(b)'
      /\ Kept(b)'
  BY <1>1, Holder, FailOpEffect, GotoEffect, Values
  DEF Rollback, Fits, Covered, Resettable, Kept, CallFits, VolumeFits,
      PromotionFits, Live, daemon, At, Works, FailsIf, EngineKill, Breaks,
      Volumes
<1>5. CleanFits(b)' /\ InitClean(b)'
  BY FailOpEffect, GotoEffect, Values
  DEF Rollback, Fits, CleanFits, InitClean, CallFits, daemon, At, Works,
      FailsIf, EngineKill, Breaks, Volumes
<1>6. QED
  BY <1>2, <1>3, <1>4, <1>5 DEF Fits

\* Delete stops the engine and destroys the dataset.
LEMMA DestroyKeeps ==
    ASSUME TypeOK, NEW b \in Branches, Destroy(b), Fits(b)
    PROVE  Fits(b)'
<1>1. CallFits(b)
  BY DEF Fits
<1>2. CallFits(b)' /\ PromotionFits(b)' /\ SettledFits(b)'
  BY EngineEffect, GotoEffect, ReleaseEffect, SetRowEffect, Values
  DEF Destroy, Fits, CallFits, PromotionFits, SettledFits, DestroyFailed,
      daemon, At, Works, Breaks, NoVolume, EngineKill, ErrorRow, Locked,
      Transitional
<1>3. VolumeFits(b)' /\ ("resolve" \notin FaultKinds => Covered(b))'
  BY <1>1, Holder, EngineEffect, GotoEffect, ReleaseEffect, SetRowEffect,
     Values
  DEF Destroy, Fits, VolumeFits, Covered, CallFits, DestroyFailed, daemon, At,
      Works, Breaks, NoVolume, EngineKill, ErrorRow, Volumes
<1>4. Resettable(b)' /\ Kept(b)'
  BY <1>1, Holder, EngineEffect, GotoEffect, ReleaseEffect, SetRowEffect,
     Values
  DEF Destroy, Fits, Resettable, Kept, CallFits, VolumeFits, PromotionFits,
      Live, DestroyFailed, daemon, At, Works, Breaks, NoVolume, EngineKill,
      ErrorRow, Volumes
<1>5. CleanFits(b)' /\ InitClean(b)'
  BY EngineEffect, GotoEffect, ReleaseEffect, SetRowEffect, Values
  DEF Destroy, Fits, CleanFits, InitClean, CallFits, DestroyFailed, daemon,
      At, Works, Breaks, NoVolume, EngineKill, ErrorRow, Volumes
<1>6. QED
  BY <1>2, <1>3, <1>4, <1>5 DEF Fits

\* Delete removes the row.
LEMMA DropRowKeeps ==
    ASSUME TypeOK, NEW b \in Branches, DropRow(b), Fits(b)
    PROVE  Fits(b)'
<1>1. CallFits(b)' /\ PromotionFits(b)' /\ SettledFits(b)'
  BY ReleaseEffect, SetRowEffect, Values
  DEF DropRow, Fits, CallFits, PromotionFits, SettledFits, daemon, budget, At,
      RowIn, Locked, Transitional
<1>2. /\ VolumeFits(b)'
      /\ ("resolve" \notin FaultKinds => Covered(b))'
      /\ Resettable(b)'
      /\ Kept(b)'
  BY ReleaseEffect, SetRowEffect, Values
  DEF DropRow, Fits, VolumeFits, Covered, Resettable, Kept, CallFits, Live,
      daemon, budget, At, RowIn, Volumes
<1>3. CleanFits(b)' /\ InitClean(b)'
  BY ReleaseEffect, SetRowEffect, Values
  DEF DropRow, Fits, CleanFits, InitClean, CallFits, daemon, budget, At,
      RowIn, Volumes
<1>4. QED
  BY <1>1, <1>2, <1>3 DEF Fits

\* Wake finds the engine running.
LEMMA WakeSkipsKeeps ==
    ASSUME TypeOK, NEW b \in Branches, WakeSkips(b), Fits(b)
    PROVE  Fits(b)'
<1>1. task[b].pc = "wake"
  BY DEF WakeSkips, At
<1>2. row[b].state = "running"
  BY <1>1, Holder DEF Fits
<1>3. vol[b].exists /\ vol[b].init # "none"
  BY <1>2 DEF Fits, Resettable, Live
<1>4. task'[b].pc = "done"
  BY GotoEffect DEF WakeSkips
<1>5. UNCHANGED <<row, reg, vol, stash, eng>>
  BY DEF WakeSkips, durable
<1>6. CallFits(b)' /\ PromotionFits(b)' /\ SettledFits(b)'
  BY GotoEffect, Values
  DEF WakeSkips, Fits, CallFits, PromotionFits, SettledFits, durable, daemon,
      budget, At, Locked, Transitional
<1>7. VolumeFits(b)'
  BY <1>3, <1>4, <1>5 DEF Fits, VolumeFits
<1>8. /\ ("resolve" \notin FaultKinds => Covered(b))'
      /\ Resettable(b)'
      /\ Kept(b)'
  BY <1>5 DEF Fits, Covered, Resettable, Live, Kept
<1>9. CleanFits(b)' /\ InitClean(b)'
  BY GotoEffect, Values
  DEF WakeSkips, Fits, CleanFits, InitClean, CallFits, durable, daemon,
      budget, At, Volumes
<1>10. QED
  BY <1>6, <1>7, <1>8, <1>9 DEF Fits

\* Wake starts the engine.
LEMMA WakeBootsKeeps ==
    ASSUME TypeOK, NEW b \in Branches, WakeBoots(b), Fits(b)
    PROVE  Fits(b)'
<1>1. task[b].pc = "wake"
  BY DEF WakeBoots, Boot, At
<1>2. row[b].state = "running"
  BY <1>1, Holder DEF Fits
<1>3. vol[b].exists /\ vol[b].init # "none"
  BY <1>2 DEF Fits, Resettable, Live
<1>4. vol'[b].exists /\ vol'[b].init = vol[b].init /\ vol'[b].base = vol[b].base
  BY <1>3, EngineEffect DEF WakeBoots, Boot, BootFails
<1>5. task'[b].pc \in {"done", "idle"}
  BY GotoEffect, FailOpEffect DEF WakeBoots, Boot, BootFails
<1>6. row'[b].state # "absent" /\ reg' = reg
  BY <1>2, FailOpEffect DEF WakeBoots, Boot, BootFails
<1>7. CallFits(b)' /\ PromotionFits(b)' /\ SettledFits(b)'
  BY EngineEffect, FailOpEffect, GotoEffect, Values
  DEF WakeBoots, Fits, CallFits, PromotionFits, SettledFits, Boot, BootFails,
      daemon, At, Works, Breaks, FailsIf, Locked, Transitional
<1>8. VolumeFits(b)'
  BY <1>3, <1>4, <1>5 DEF VolumeFits
<1>9. /\ ("resolve" \notin FaultKinds => Covered(b))'
      /\ Resettable(b)'
      /\ Kept(b)'
  BY <1>3, <1>4, <1>6 DEF Fits, Covered, Resettable, Kept
<1>10. CleanFits(b)' /\ InitClean(b)'
  BY EngineEffect, FailOpEffect, GotoEffect, Values
  DEF WakeBoots, Fits, CleanFits, InitClean, CallFits, Boot, BootFails,
      daemon, At, Works, Breaks, FailsIf, Volumes
<1>11. QED
  BY <1>7, <1>8, <1>9, <1>10 DEF Fits

\* Sleep writes the row.
LEMMA MarkSleepingKeeps ==
    ASSUME TypeOK, NEW b \in Branches, MarkSleeping(b), Fits(b)
    PROVE  Fits(b)'
<1>1. row[b].state = "running"
  BY Values DEF MarkSleeping, At, Fits, CallFits, Tasks, Paths
<1>2. vol[b].exists /\ vol[b].init # "none"
  BY <1>1 DEF Fits, Resettable, Live
<1>3. row'[b].state = "sleeping" /\ UNCHANGED <<reg, vol, eng>>
  BY SetRowEffect DEF MarkSleeping, RowIn
<1>4. CallFits(b)' /\ PromotionFits(b)' /\ SettledFits(b)'
  BY ReleaseEffect, SetRowEffect, Values
  DEF MarkSleeping, Fits, CallFits, PromotionFits, SettledFits, daemon,
      budget, At, RowIn, Locked, Transitional
<1>5. VolumeFits(b)'
  BY ReleaseEffect, SetRowEffect, Values
  DEF MarkSleeping, Fits, VolumeFits, CallFits, daemon, budget, At, RowIn,
      Volumes
<1>6. /\ ("resolve" \notin FaultKinds => Covered(b))'
      /\ Resettable(b)'
      /\ Kept(b)'
  BY <1>2, <1>3 DEF Fits, Covered, Resettable, Kept
<1>7. CleanFits(b)' /\ InitClean(b)'
  BY ReleaseEffect, SetRowEffect, Values
  DEF MarkSleeping, Fits, CleanFits, InitClean, CallFits, daemon, budget, At,
      RowIn, Volumes
<1>8. QED
  BY <1>4, <1>5, <1>6, <1>7 DEF Fits

\* PromoteBranch takes the snapshot.
LEMMA PromoteSnapshotKeeps ==
    ASSUME TypeOK, NEW b \in Branches, PromoteSnapshot(b), Fits(b)
    PROVE  Fits(b)'
<1>1. task[b].pc = "snap"
  BY DEF PromoteSnapshot, At
<1>2. row[b].state \in {"running", "sleeping"} /\ task[b].path = "promote"
  BY <1>1, Holder DEF Fits
<1>3. vol[b].exists /\ ~reg[b]
  BY <1>1, <1>2 DEF Fits, Resettable, Live, PromotionFits
<1>4. /\ UNCHANGED <<row, reg, stash, eng, mode, todo, deaths>>
      /\ task'[b].path = task[b].path /\ task'[b].name = task[b].name
  BY GotoEffect DEF PromoteSnapshot, daemon
<1>5. /\ vol'[b].exists = vol[b].exists /\ vol'[b].init = vol[b].init
      /\ vol'[b].clean = vol[b].clean
  BY Values DEF PromoteSnapshot, Volumes
<1>6. \/ task'[b].pc = "restart"
      \/ task'[b].pc = "register" /\ vol'[b].base # "none"
  <2>1. Taken(vol[b]) # "none"
    BY DEF Taken
  <2>2. QED
    BY <2>1, GotoEffect, Values DEF PromoteSnapshot, Volumes
<1>7. CallFits(b)' /\ PromotionFits(b)' /\ SettledFits(b)'
  BY <1>2, <1>3, <1>4, <1>6 DEF Fits, CallFits, PromotionFits, SettledFits,
     Transitional
<1>8. /\ VolumeFits(b)'
      /\ ("resolve" \notin FaultKinds => Covered(b))'
      /\ Resettable(b)'
      /\ Kept(b)'
  BY <1>3, <1>4, <1>5, <1>6 DEF Fits, VolumeFits, Covered,
     Resettable, Live, Kept
<1>9. CleanFits(b)' /\ InitClean(b)'
  BY <1>4, <1>5, <1>6 DEF Fits, CleanFits, InitClean
<1>10. QED
  BY <1>7, <1>8, <1>9 DEF Fits

\* PromoteBranch registers the baseline.
LEMMA RegisterBaselineKeeps ==
    ASSUME TypeOK, NEW b \in Branches, RegisterBaseline(b), Fits(b)
    PROVE  Fits(b)'
<1>1. task[b].pc = "register"
  BY DEF RegisterBaseline, At
<1>2. vol[b].base # "none"
  BY <1>1 DEF Fits, PromotionFits
<1>3. row[b].state \in {"running", "sleeping"}
  BY <1>1, Holder DEF Fits
<1>4. vol[b].exists
  BY <1>3 DEF Fits, Resettable, Live
<1>5. CallFits(b)' /\ PromotionFits(b)' /\ SettledFits(b)'
  BY GotoEffect, Values
  DEF RegisterBaseline, Fits, CallFits, PromotionFits, SettledFits, daemon,
      budget, At, Locked, Transitional
<1>6. /\ VolumeFits(b)'
      /\ ("resolve" \notin FaultKinds => Covered(b))'
      /\ Resettable(b)'
  BY GotoEffect, Values
  DEF RegisterBaseline, Fits, VolumeFits, Covered, Resettable, CallFits, Live,
      daemon, budget, At, Volumes
<1>7. Kept(b)'
  BY <1>2, <1>4 DEF RegisterBaseline, Kept
<1>8. CleanFits(b)' /\ InitClean(b)'
  BY GotoEffect, Values
  DEF RegisterBaseline, Fits, CleanFits, InitClean, CallFits, daemon, budget,
      At, Volumes
<1>9. QED
  BY <1>5, <1>6, <1>7, <1>8 DEF Fits

\* PromoteBranch starts the engine again.
LEMMA RestartBranchKeeps ==
    ASSUME TypeOK, NEW b \in Branches, RestartBranch(b), Fits(b)
    PROVE  Fits(b)'
<1>1. task[b].pc = "restart"
  BY DEF RestartBranch, At
<1>2. row[b].state \in {"running", "sleeping"}
  BY <1>1, Holder DEF Fits
<1>3. vol[b].exists
  BY <1>2 DEF Fits, Resettable, Live
<1>4. /\ vol'[b].exists /\ vol'[b].init = vol[b].init
      /\ vol'[b].base = vol[b].base
  BY <1>3, EngineEffect DEF RestartBranch
<1>5. task'[b].pc = "idle" /\ task'[b].path = "none" /\ task'[b].name = "none"
  BY ReleaseEffect DEF RestartBranch
<1>6. row' = row /\ reg' = reg /\ stash' = stash
  BY DEF RestartBranch
<1>7. CallFits(b)' /\ PromotionFits(b)' /\ SettledFits(b)'
  BY <1>2, <1>5, <1>6
  DEF CallFits, PromotionFits, SettledFits, Transitional
<1>8. VolumeFits(b)'
  BY <1>4, <1>5 DEF Fits, VolumeFits
<1>9. /\ ("resolve" \notin FaultKinds => Covered(b))'
      /\ Resettable(b)'
      /\ Kept(b)'
  BY <1>2, <1>4, <1>6 DEF Fits, Covered, Resettable, Live, Kept
<1>10. CleanFits(b)' /\ InitClean(b)'
  BY EngineEffect, ReleaseEffect, Values
  DEF RestartBranch, Fits, CleanFits, InitClean, CallFits, daemon, At, Works,
      Breaks, Volumes
<1>11. QED
  BY <1>7, <1>8, <1>9, <1>10 DEF Fits

\* CreateWithMetaFrom up to the insertion of the row.
LEMMA CreateKeeps ==
    ASSUME TypeOK, NEW b \in Branches, Create(b), Fits(b)
    PROVE  Fits(b)'
<1>1. CallFits(b)' /\ PromotionFits(b)' /\ SettledFits(b)'
  BY SetRowEffect, Values
  DEF Create, Fits, CallFits, PromotionFits, SettledFits, Callable, daemon,
      budget, Begin, RowIn, Locked, Transitional
<1>2. /\ VolumeFits(b)'
      /\ ("resolve" \notin FaultKinds => Covered(b))'
      /\ Resettable(b)'
      /\ Kept(b)'
  BY SetRowEffect, Values
  DEF Create, Fits, VolumeFits, Covered, Resettable, Kept, CallFits, Live,
      Callable, daemon, budget, Begin, RowIn, Locked, Volumes
<1>3. CleanFits(b)' /\ InitClean(b)'
  BY SetRowEffect, Values
  DEF Create, Fits, CleanFits, InitClean, CallFits, Callable, daemon, budget,
      Begin, RowIn, Locked, Volumes
<1>4. QED
  BY <1>1, <1>2, <1>3 DEF Fits

\* Reset up to SetState(resetting).
LEMMA ResetKeeps ==
    ASSUME TypeOK, NEW b \in Branches, Reset(b), Fits(b)
    PROVE  Fits(b)'
<1>1. CallFits(b)' /\ PromotionFits(b)' /\ SettledFits(b)'
  BY SetRowEffect, Values
  DEF Reset, Fits, CallFits, PromotionFits, SettledFits, Callable, daemon,
      budget, Begin, RowIn, Locked, Transitional
<1>2. /\ VolumeFits(b)'
      /\ ("resolve" \notin FaultKinds => Covered(b))'
      /\ Resettable(b)'
      /\ Kept(b)'
  BY SetRowEffect, Values
  DEF Reset, Fits, VolumeFits, Covered, Resettable, Kept, CallFits, Live,
      Callable, daemon, budget, Begin, RowIn, Locked, Volumes
<1>3. CleanFits(b)' /\ InitClean(b)'
  BY SetRowEffect, Values
  DEF Reset, Fits, CleanFits, InitClean, CallFits, Callable, daemon, budget,
      Begin, RowIn, Locked, Volumes
<1>4. QED
  BY <1>1, <1>2, <1>3 DEF Fits

\* Recreate up to SetState(resetting).
LEMMA RecreateKeeps ==
    ASSUME TypeOK, NEW b \in Branches, Recreate(b), Fits(b)
    PROVE  Fits(b)'
<1>1. CallFits(b)' /\ PromotionFits(b)' /\ SettledFits(b)'
  BY SetRowEffect, Values
  DEF Recreate, Fits, CallFits, PromotionFits, SettledFits, RecreateFrom,
      Callable, daemon, budget, Locked, Begin, RowIn, Transitional
<1>2. /\ VolumeFits(b)'
      /\ ("resolve" \notin FaultKinds => Covered(b))'
      /\ Resettable(b)'
      /\ Kept(b)'
  BY SetRowEffect, Values
  DEF Recreate, Fits, VolumeFits, Covered, Resettable, Kept, CallFits, Live,
      RecreateFrom, Callable, daemon, budget, Locked, Begin, RowIn, Volumes
<1>3. CleanFits(b)' /\ InitClean(b)'
  BY SetRowEffect, Values
  DEF Recreate, Fits, CleanFits, InitClean, CallFits, RecreateFrom, Callable,
      daemon, budget, Locked, Begin, RowIn, Volumes
<1>4. QED
  BY <1>1, <1>2, <1>3 DEF Fits

\* Delete up to SetState(deleting), or the row alone.
LEMMA DeleteKeeps ==
    ASSUME TypeOK, NEW b \in Branches, Delete(b), Fits(b)
    PROVE  Fits(b)'
<1>1. CallFits(b)' /\ PromotionFits(b)' /\ SettledFits(b)'
  BY SetRowEffect, Values
  DEF Delete, Fits, CallFits, PromotionFits, SettledFits, DeleteBody,
      Callable, Locked, Begin, RowIn, Works, FailsIf, Breaks, Transitional
<1>2. /\ VolumeFits(b)'
      /\ ("resolve" \notin FaultKinds => Covered(b))'
      /\ Resettable(b)'
      /\ Kept(b)'
  BY SetRowEffect, Values
  DEF Delete, Fits, VolumeFits, Covered, Resettable, Kept, CallFits, Live,
      DeleteBody, Callable, Locked, Begin, RowIn, Works, FailsIf, Breaks,
      Volumes
<1>3. CleanFits(b)' /\ InitClean(b)'
  BY SetRowEffect, Values
  DEF Delete, Fits, CleanFits, InitClean, CallFits, DeleteBody, Callable,
      Locked, Begin, RowIn, Works, FailsIf, Breaks, Volumes
<1>4. QED
  BY <1>1, <1>2, <1>3 DEF Fits

\* Wake up to SetState(running).
LEMMA WakeKeeps ==
    ASSUME TypeOK, NEW b \in Branches, Wake(b), Fits(b)
    PROVE  Fits(b)'
<1>1. CallFits(b)' /\ PromotionFits(b)' /\ SettledFits(b)'
  BY SetRowEffect, Values
  DEF Wake, Fits, CallFits, PromotionFits, SettledFits, Callable, daemon,
      budget, Begin, RowIn, Locked, Transitional
<1>2. /\ VolumeFits(b)'
      /\ ("resolve" \notin FaultKinds => Covered(b))'
      /\ Resettable(b)'
      /\ Kept(b)'
  BY SetRowEffect, Values
  DEF Wake, Fits, VolumeFits, Covered, Resettable, Kept, CallFits, Live,
      Callable, daemon, budget, Begin, RowIn, Locked, Volumes
<1>3. CleanFits(b)' /\ InitClean(b)'
  BY SetRowEffect, Values
  DEF Wake, Fits, CleanFits, InitClean, CallFits, Callable, daemon, budget,
      Begin, RowIn, Locked, Volumes
<1>4. QED
  BY <1>1, <1>2, <1>3 DEF Fits

\* Sleep stops the engine.
LEMMA SleepKeeps ==
    ASSUME TypeOK, NEW b \in Branches, Sleep(b), Fits(b)
    PROVE  Fits(b)'
<1>1. CallFits(b)' /\ PromotionFits(b)' /\ SettledFits(b)'
  BY EngineEffect, Values
  DEF Sleep, Fits, CallFits, PromotionFits, SettledFits, Callable, daemon,
      budget, Begin, Locked, Transitional
<1>2. /\ VolumeFits(b)'
      /\ ("resolve" \notin FaultKinds => Covered(b))'
      /\ Resettable(b)'
      /\ Kept(b)'
  BY EngineEffect, Values
  DEF Sleep, Fits, VolumeFits, Covered, Resettable, Kept, CallFits, Live,
      Callable, daemon, budget, Begin, Locked, Volumes
<1>3. CleanFits(b)' /\ InitClean(b)'
  BY EngineEffect, Values
  DEF Sleep, Fits, CleanFits, InitClean, CallFits, Callable, daemon, budget,
      Begin, Locked, Volumes
<1>4. QED
  BY <1>1, <1>2, <1>3 DEF Fits

\* PromoteBranch stops the engine.
LEMMA PromoteKeeps ==
    ASSUME TypeOK, NEW b \in Branches, Promote(b), Fits(b)
    PROVE  Fits(b)'
<1>1. CallFits(b)' /\ PromotionFits(b)' /\ SettledFits(b)'
  BY EngineEffect, Values
  DEF Promote, Fits, CallFits, PromotionFits, SettledFits, Callable, daemon,
      budget, Begin, Locked, Transitional
<1>2. /\ VolumeFits(b)'
      /\ ("resolve" \notin FaultKinds => Covered(b))'
      /\ Resettable(b)'
      /\ Kept(b)'
  BY EngineEffect, Values
  DEF Promote, Fits, VolumeFits, Covered, Resettable, Kept, CallFits, Live,
      Callable, daemon, budget, Begin, Locked, Volumes
<1>3. CleanFits(b)' /\ InitClean(b)'
  BY EngineEffect, Values
  DEF Promote, Fits, CleanFits, InitClean, CallFits, Callable, daemon, budget,
      Begin, Locked, Volumes
<1>4. QED
  BY <1>1, <1>2, <1>3 DEF Fits

\* Retry reads the row outside the lock.
LEMMA RetryReadsKeeps ==
    ASSUME TypeOK, NEW b \in Branches, RetryReads(b), Fits(b)
    PROVE  Fits(b)'
<1>1. CallFits(b)' /\ PromotionFits(b)' /\ SettledFits(b)'
  BY Values
  DEF RetryReads, Fits, CallFits, PromotionFits, SettledFits, durable, daemon,
      budget, Locked, Transitional
<1>2. /\ VolumeFits(b)'
      /\ ("resolve" \notin FaultKinds => Covered(b))'
      /\ Resettable(b)'
      /\ Kept(b)'
  BY Values
  DEF RetryReads, Fits, VolumeFits, Covered, Resettable, Kept, CallFits, Live,
      durable, daemon, budget, Volumes
<1>3. CleanFits(b)' /\ InitClean(b)'
  BY Values
  DEF RetryReads, Fits, CleanFits, InitClean, CallFits, durable, daemon,
      budget, Volumes
<1>4. QED
  BY <1>1, <1>2, <1>3 DEF Fits

\* retryCreate up to SetState(resetting).
LEMMA RetryCreateKeeps ==
    ASSUME TypeOK, NEW b \in Branches, RetryCreate(b), Fits(b)
    PROVE  Fits(b)'
<1>1. CallFits(b)' /\ PromotionFits(b)' /\ SettledFits(b)'
  BY SetRowEffect, Values
  DEF RetryCreate, Fits, CallFits, PromotionFits, SettledFits, Kept,
      RecreateFrom, Callable, daemon, budget, Locked, Begin, RowIn,
      Transitional
<1>2. /\ VolumeFits(b)'
      /\ ("resolve" \notin FaultKinds => Covered(b))'
      /\ Resettable(b)'
      /\ Kept(b)'
  BY SetRowEffect, Values
  DEF RetryCreate, Fits, VolumeFits, Covered, Resettable, Kept, CallFits,
      Live, RecreateFrom, Callable, daemon, budget, Locked, Begin, RowIn,
      Volumes
<1>3. CleanFits(b)' /\ InitClean(b)'
  BY SetRowEffect, Values
  DEF RetryCreate, Fits, CleanFits, InitClean, CallFits, RecreateFrom,
      Callable, daemon, budget, Locked, Begin, RowIn, Volumes
<1>4. QED
  BY <1>1, <1>2, <1>3 DEF Fits

\* Retry that finds nothing left to do.
LEMMA RetryGivesUpKeeps ==
    ASSUME TypeOK, NEW b \in Branches, RetryGivesUp(b), Fits(b)
    PROVE  Fits(b)'
<1>1. CallFits(b)' /\ PromotionFits(b)' /\ SettledFits(b)'
  BY Values
  DEF RetryGivesUp, Fits, CallFits, PromotionFits, SettledFits, Callable,
      durable, daemon, budget, Locked, Transitional
<1>2. /\ VolumeFits(b)'
      /\ ("resolve" \notin FaultKinds => Covered(b))'
      /\ Resettable(b)'
      /\ Kept(b)'
  BY Values
  DEF RetryGivesUp, Fits, VolumeFits, Covered, Resettable, Kept, CallFits,
      Live, Callable, durable, daemon, budget, Locked, Volumes
<1>3. CleanFits(b)' /\ InitClean(b)'
  BY Values
  DEF RetryGivesUp, Fits, CleanFits, InitClean, CallFits, Callable, durable,
      daemon, budget, Locked, Volumes
<1>4. QED
  BY <1>1, <1>2, <1>3 DEF Fits

\* A baseline of the branch is deleted.
LEMMA RetireBaselineKeeps ==
    ASSUME TypeOK, NEW b \in Branches, RetireBaseline(b), Fits(b)
    PROVE  Fits(b)'
<1>1. CallFits(b)' /\ PromotionFits(b)' /\ SettledFits(b)'
  BY Values
  DEF RetireBaseline, Fits, CallFits, PromotionFits, SettledFits, daemon,
      budget, Locked, Transitional
<1>2. /\ VolumeFits(b)'
      /\ ("resolve" \notin FaultKinds => Covered(b))'
      /\ Resettable(b)'
      /\ Kept(b)'
  BY Values
  DEF RetireBaseline, Fits, VolumeFits, Covered, Resettable, Kept, CallFits,
      Live, daemon, budget, Volumes
<1>3. CleanFits(b)' /\ InitClean(b)'
  BY Values
  DEF RetireBaseline, Fits, CleanFits, InitClean, CallFits, daemon, budget,
      Volumes
<1>4. QED
  BY <1>1, <1>2, <1>3 DEF Fits

\* The engine's process dies.
LEMMA EngineDiesKeeps ==
    ASSUME TypeOK, NEW b \in Branches, EngineDies(b), Fits(b)
    PROVE  Fits(b)'
<1>1. deaths' # 0
  BY Values DEF EngineDies
<1>2. CallFits(b)' /\ PromotionFits(b)' /\ SettledFits(b)'
  BY Values
  DEF EngineDies, Fits, CallFits, PromotionFits, SettledFits, daemon,
      EngineKill, Locked, Transitional
<1>3. /\ VolumeFits(b)'
      /\ ("resolve" \notin FaultKinds => Covered(b))'
      /\ Resettable(b)'
      /\ Kept(b)'
  BY Values
  DEF EngineDies, Fits, VolumeFits, Covered, Resettable, Kept, CallFits, Live,
      daemon, EngineKill, Volumes
<1>4. CleanFits(b)' /\ InitClean(b)'
  BY <1>1 DEF CleanFits, InitClean
<1>5. QED
  BY <1>2, <1>3, <1>4 DEF Fits

\* Reconcile resumes a deletion.
LEMMA ReconcileDeleteKeeps ==
    ASSUME TypeOK, NEW b \in Branches, ReconcileDelete(b), Fits(b)
    PROVE  Fits(b)'
<1>1. CallFits(b)' /\ PromotionFits(b)' /\ SettledFits(b)'
  BY SetRowEffect, Values
  DEF ReconcileDelete, Fits, CallFits, PromotionFits, SettledFits, DeleteBody,
      Visiting, Locked, Begin, RowIn, Works, FailsIf, Breaks, Transitional
<1>2. /\ VolumeFits(b)'
      /\ ("resolve" \notin FaultKinds => Covered(b))'
      /\ Resettable(b)'
      /\ Kept(b)'
  BY SetRowEffect, Values
  DEF ReconcileDelete, Fits, VolumeFits, Covered, Resettable, Kept, CallFits,
      Live, DeleteBody, Visiting, Locked, Begin, RowIn, Works, FailsIf,
      Breaks, Volumes
<1>3. CleanFits(b)' /\ InitClean(b)'
  BY SetRowEffect, Values
  DEF ReconcileDelete, Fits, CleanFits, InitClean, CallFits, DeleteBody,
      Visiting, Locked, Begin, RowIn, Works, FailsIf, Breaks, Volumes
<1>4. QED
  BY <1>1, <1>2, <1>3 DEF Fits

\* Reconcile reports an interrupted call.
LEMMA ReconcileInterruptedKeeps ==
    ASSUME TypeOK, NEW b \in Branches, ReconcileInterrupted(b), Fits(b)
    PROVE  Fits(b)'
<1>1. CallFits(b)' /\ PromotionFits(b)' /\ SettledFits(b)'
  BY SetRowEffect, Values
  DEF ReconcileInterrupted, Fits, CallFits, PromotionFits, SettledFits,
      Visiting, ErrorRow, Works, FailsIf, Breaks, Locked, Transitional
<1>2. /\ VolumeFits(b)'
      /\ ("resolve" \notin FaultKinds => Covered(b))'
      /\ Resettable(b)'
      /\ Kept(b)'
  BY SetRowEffect, Values
  DEF ReconcileInterrupted, Fits, VolumeFits, Covered, Resettable, Kept,
      CallFits, Live, Visiting, ErrorRow, Works, FailsIf, Breaks, Locked,
      Volumes
<1>3. CleanFits(b)' /\ InitClean(b)'
  BY SetRowEffect, Values
  DEF ReconcileInterrupted, Fits, CleanFits, InitClean, CallFits, Visiting,
      ErrorRow, Works, FailsIf, Breaks, Locked, Volumes
<1>4. QED
  BY <1>1, <1>2, <1>3 DEF Fits

\* Reconcile looks at a settled row.
LEMMA ReconcileSettledKeeps ==
    ASSUME TypeOK, NEW b \in Branches, ReconcileSettled(b), Fits(b)
    PROVE  Fits(b)'
<1>1. CallFits(b)' /\ PromotionFits(b)' /\ SettledFits(b)'
  BY SetRowEffect, Values
  DEF ReconcileSettled, Fits, CallFits, PromotionFits, SettledFits, Visiting,
      RowIn, ErrorRow, Works, FailsIf, Breaks, Locked, Transitional
<1>2. /\ VolumeFits(b)'
      /\ ("resolve" \notin FaultKinds => Covered(b))'
      /\ Resettable(b)'
      /\ Kept(b)'
  BY SetRowEffect, Values
  DEF ReconcileSettled, Fits, VolumeFits, Covered, Resettable, Kept, CallFits,
      Live, Visiting, RowIn, ErrorRow, Works, FailsIf, Breaks, Locked, Volumes
<1>3. CleanFits(b)' /\ InitClean(b)'
  BY SetRowEffect, Values
  DEF ReconcileSettled, Fits, CleanFits, InitClean, CallFits, Visiting, RowIn,
      ErrorRow, Works, FailsIf, Breaks, Locked, Volumes
<1>4. QED
  BY <1>1, <1>2, <1>3 DEF Fits

-----------------------------------------------------------------------------
(***************************************************************************)
(* The other branches                                                      *)
(***************************************************************************)

\* A step of branch b writes nothing that belongs to another branch.
LEMMA StepIsLocal ==
    ASSUME NEW b \in Branches, NEW c \in Branches, c # b, TypeOK,
           \/ Call(b) \/ Proceed(b) \/ RetireBaseline(b)
           \/ EngineDies(b) \/ ReconcileBranch(b)
    PROVE  /\ row'[c] = row[c] /\ reg'[c] = reg[c] /\ vol'[c] = vol[c]
           /\ stash'[c] = stash[c] /\ eng'[c] = eng[c] /\ task'[c] = task[c]
           /\ mode' = mode
           /\ todo' \in {todo, todo \ {b}}
           /\ deaths' \in {deaths, deaths + 1}
<1> USE Values DEF TypeOK
<1>1. CASE Clone(b)
  BY <1>1 DEF Clone, CloneFailed, daemon, Goto, FailOp, SetRow, Release
<1>2. CASE RestoreStash(b)
  BY <1>2 DEF RestoreStash, daemon, FailOp, SetRow, Release
<1>3. CASE Quota(b)
  BY <1>3 DEF Quota, daemon, Goto, FailOp, SetRow, Release
<1>4. CASE BootForHook(b)
  BY <1>4 DEF BootForHook, Boot, BootFails, daemon, Goto, EngineUp, FailOp,
    SetRow, Release
<1>5. CASE Hook(b)
  BY <1>5 DEF Hook, daemon, Goto, FailOp, SetRow, Release
<1>6. CASE StopForInit(b)
  BY <1>6 DEF StopForInit, daemon, Goto, FailOp, EngineStop, SetRow, Release
<1>7. CASE SnapshotInit(b)
  BY <1>7 DEF SnapshotInit, daemon, Goto, FailOp, SetRow, Release
<1>8. CASE BootForUse(b)
  BY <1>8 DEF BootForUse, Boot, BootFails, daemon, Goto, EngineUp, FailOp,
    SetRow, Release
<1>9. CASE MarkRunning(b)
  BY <1>9 DEF MarkRunning, daemon, budget, SetRow, Release
<1>10. CASE KillOld(b)
  BY <1>10 DEF KillOld, daemon, Goto, EngineKill, KillSurvived
<1>11. CASE DropStale(b)
  BY <1>11 DEF DropStale, daemon, Goto
<1>12. CASE StashOld(b)
  BY <1>12 DEF StashOld, daemon, Goto, FailOp, MoveToStash, SetRow, Release
<1>13. CASE DropOld(b)
  BY <1>13 DEF DropOld, daemon, Goto
<1>14. CASE Rollback(b)
  BY <1>14 DEF Rollback, daemon, Goto, FailOp, EngineKill, KillSurvived, SetRow,
    Release
<1>15. CASE Destroy(b)
  BY <1>15 DEF Destroy, DestroyFailed, daemon, Goto, EngineStop, EngineKill,
    SetRow, Release
<1>16. CASE DropRow(b)
  BY <1>16 DEF DropRow, daemon, budget, SetRow, Release
<1>17. CASE WakeSkips(b)
  BY <1>17 DEF WakeSkips, durable, daemon, budget, Goto
<1>18. CASE WakeBoots(b)
  BY <1>18 DEF WakeBoots, Boot, BootFails, daemon, Goto, EngineUp, FailOp,
    SetRow, Release
<1>19. CASE MarkSleeping(b)
  BY <1>19 DEF MarkSleeping, daemon, budget, SetRow, Release
<1>20. CASE PromoteSnapshot(b)
  BY <1>20 DEF PromoteSnapshot, daemon, Goto
<1>21. CASE RegisterBaseline(b)
  BY <1>21 DEF RegisterBaseline, daemon, budget, Goto
<1>22. CASE RestartBranch(b)
  BY <1>22 DEF RestartBranch, daemon, Release, EngineUp
<1>23. CASE Create(b)
  BY <1>23 DEF Create, Callable, daemon, budget, Begin, SetRow
<1>24. CASE Reset(b)
  BY <1>24 DEF Reset, Callable, daemon, budget, Begin, SetRow
<1>25. CASE Recreate(b)
  BY <1>25 DEF Recreate, RecreateFrom, Callable, daemon, budget, Begin,
    SetRow
<1>26. CASE Delete(b)
  BY <1>26 DEF Delete, DeleteBody, Callable, Begin, SetRow
<1>27. CASE Wake(b)
  BY <1>27 DEF Wake, Callable, daemon, budget, Begin, SetRow
<1>28. CASE Sleep(b)
  BY <1>28 DEF Sleep, Callable, daemon, budget, Begin, EngineStop
<1>29. CASE Promote(b)
  BY <1>29 DEF Promote, Callable, daemon, budget, Begin, EngineStop
<1>30. CASE RetryReads(b)
  BY <1>30 DEF RetryReads, durable, daemon, budget
<1>31. CASE RetryCreate(b)
  BY <1>31 DEF RetryCreate, RecreateFrom, Callable, daemon, budget, Begin,
    SetRow
<1>32. CASE RetryGivesUp(b)
  BY <1>32 DEF RetryGivesUp, Callable, durable, daemon, budget
<1>33. CASE RetireBaseline(b)
  BY <1>33 DEF RetireBaseline, daemon, budget
<1>34. CASE EngineDies(b)
  BY <1>34 DEF EngineDies, daemon, EngineKill
<1>35. CASE ReconcileDelete(b)
  BY <1>35 DEF ReconcileDelete, DeleteBody, Visiting, Begin, SetRow
<1>36. CASE ReconcileInterrupted(b)
  BY <1>36 DEF ReconcileInterrupted, Visiting, SetRow
<1>37. CASE ReconcileSettled(b)
  BY <1>37 DEF ReconcileSettled, Visiting, SetRow
<1>38. QED
  BY <1>1, <1>2, <1>3, <1>4, <1>5, <1>6, <1>7, <1>8, <1>9, <1>10, <1>11,
     <1>12, <1>13, <1>14, <1>15, <1>16, <1>17, <1>18, <1>19, <1>20, <1>21,
     <1>22, <1>23, <1>24, <1>25, <1>26, <1>27, <1>28, <1>29, <1>30, <1>31,
     <1>32, <1>33, <1>34, <1>35, <1>36, <1>37
  DEF Call, Proceed, ReconcileBranch

\* So it keeps what Fits says of that branch.
LEMMA OthersKeep ==
    ASSUME NEW b \in Branches, NEW c \in Branches, c # b, TypeOK, Fits(c),
           \/ Call(b) \/ Proceed(b) \/ RetireBaseline(b)
           \/ EngineDies(b) \/ ReconcileBranch(b)
    PROVE  Fits(c)'
<1>1. /\ row'[c] = row[c] /\ reg'[c] = reg[c] /\ vol'[c] = vol[c]
      /\ stash'[c] = stash[c] /\ eng'[c] = eng[c] /\ task'[c] = task[c]
      /\ mode' = mode
      /\ c \in todo' <=> c \in todo
      /\ deaths' = 0 => deaths = 0
  BY StepIsLocal, Values
<1>2. CallFits(c)' /\ VolumeFits(c)' /\ PromotionFits(c)'
  BY <1>1 DEF Fits, CallFits, VolumeFits, PromotionFits
<1>3. SettledFits(c)' /\ CleanFits(c)' /\ InitClean(c)'
  BY <1>1 DEF Fits, SettledFits, CleanFits, InitClean, Locked
<1>4. /\ ("resolve" \notin FaultKinds => Covered(c))'
      /\ Resettable(c)' /\ Kept(c)'
  BY <1>1 DEF Fits, Covered, Resettable, Live, Kept
<1>5. QED
  BY <1>2, <1>3, <1>4 DEF Fits

-----------------------------------------------------------------------------
(***************************************************************************)
(* The specification                                                       *)
(***************************************************************************)

\* Nothing has been called yet.
LEMMA InitFits == Init => LifecycleInv
<1> SUFFICES ASSUME Init, NEW b \in Branches PROVE Fits(b)
  BY InitTyped DEF LifecycleInv
<1>1. /\ row[b].state = "absent" /\ row[b].op = "none" /\ ~reg[b] /\ ~eng[b]
      /\ vol[b] = NoVolume /\ stash[b] = NoVolume /\ task[b] = Idle
  BY DEF Init, RowIn
<1>2. QED
  BY <1>1 DEF Fits, CallFits, VolumeFits, PromotionFits, SettledFits,
     CleanFits, Covered, Resettable, Live, Kept, InitClean, NoVolume, Idle,
     Locked, Transitional

\* sashikid stops: no call survives, and Reconcile has every branch to visit.
LEMMA CrashKeeps ==
    ASSUME TypeOK, NEW b \in Branches, Crash, Fits(b)
    PROVE  Fits(b)'
<1>1. /\ task'[b] = Idle /\ mode' = "recovering" /\ b \in todo'
      /\ UNCHANGED <<row, reg, vol, stash, eng, deaths>>
  BY DEF Crash, durable
<1>2. CallFits(b)' /\ PromotionFits(b)' /\ SettledFits(b)'
  BY <1>1 DEF CallFits, PromotionFits, SettledFits, Idle
<1>3. VolumeFits(b)' /\ CleanFits(b)' /\ InitClean(b)'
  BY <1>1 DEF Fits, VolumeFits, CleanFits, InitClean, Idle
<1>4. /\ ("resolve" \notin FaultKinds => Covered(b))'
      /\ Resettable(b)' /\ Kept(b)'
  BY <1>1 DEF Fits, Covered, Resettable, Live, Kept
<1>5. QED
  BY <1>2, <1>3, <1>4 DEF Fits

\* Reconcile is through: it has visited every branch.
LEMMA ReconcileDoneKeeps ==
    ASSUME TypeOK, NEW b \in Branches, ReconcileDone, Fits(b)
    PROVE  Fits(b)'
<1>1. /\ UNCHANGED <<row, reg, vol, stash, eng, task, deaths>>
      /\ b \notin todo
  BY DEF ReconcileDone, durable, budget
<1>2. CallFits(b)' /\ PromotionFits(b)' /\ SettledFits(b)'
  BY <1>1 DEF Fits, CallFits, PromotionFits, SettledFits, Locked
<1>3. VolumeFits(b)' /\ CleanFits(b)' /\ InitClean(b)'
  BY <1>1 DEF Fits, VolumeFits, CleanFits, InitClean
<1>4. /\ ("resolve" \notin FaultKinds => Covered(b))'
      /\ Resettable(b)' /\ Kept(b)'
  BY <1>1 DEF Fits, Covered, Resettable, Live, Kept
<1>5. QED
  BY <1>2, <1>3, <1>4 DEF Fits

\* A step of branch b keeps what Fits says of b.
LEMMA OwnKeeps ==
    ASSUME NEW b \in Branches, TypeOK, Fits(b),
           \/ Call(b) \/ Proceed(b) \/ RetireBaseline(b)
           \/ EngineDies(b) \/ ReconcileBranch(b)
    PROVE  Fits(b)'
<1>1. CASE Call(b)
  BY <1>1, CreateKeeps, ResetKeeps, RecreateKeeps, DeleteKeeps, WakeKeeps,
     SleepKeeps, PromoteKeeps, RetryReadsKeeps, RetryCreateKeeps,
     RetryGivesUpKeeps
  DEF Call
<1>2. CASE Proceed(b)
  BY <1>2, CloneKeeps, RestoreStashKeeps, QuotaKeeps, BootForHookKeeps,
     HookKeeps, StopForInitKeeps, SnapshotInitKeeps, BootForUseKeeps,
     MarkRunningKeeps, KillOldKeeps, DropStaleKeeps, StashOldKeeps,
     DropOldKeeps, RollbackKeeps, DestroyKeeps, DropRowKeeps,
     WakeSkipsKeeps, WakeBootsKeeps, MarkSleepingKeeps,
     PromoteSnapshotKeeps, RegisterBaselineKeeps, RestartBranchKeeps
  DEF Proceed
<1>3. CASE ReconcileBranch(b)
  BY <1>3, ReconcileDeleteKeeps, ReconcileInterruptedKeeps,
     ReconcileSettledKeeps
  DEF ReconcileBranch
<1>4. QED
  BY <1>1, <1>2, <1>3, RetireBaselineKeeps, EngineDiesKeeps

\* Both together.
LEMMA StepKeeps ==
    ASSUME NEW b \in Branches, TypeOK, \A c \in Branches : Fits(c),
           \/ Call(b) \/ Proceed(b) \/ RetireBaseline(b)
           \/ EngineDies(b) \/ ReconcileBranch(b)
    PROVE  \A c \in Branches : Fits(c)'
<1>1. Fits(b)'
  BY OwnKeeps
<1>2. ASSUME NEW c \in Branches, c # b PROVE Fits(c)'
  BY <1>2, OthersKeep
<1>3. QED
  BY <1>1, <1>2

\* Every step keeps the invariant.
LEMMA NextKeeps == LifecycleInv /\ [Next]_vars => LifecycleInv'
<1> SUFFICES ASSUME LifecycleInv, [Next]_vars, NEW c \in Branches
             PROVE  Fits(c)'
  BY NextTyped DEF LifecycleInv
<1>1. TypeOK /\ Fits(c)
  BY DEF LifecycleInv
<1>2. ASSUME NEW b \in Branches,
             \/ Call(b) \/ Proceed(b) \/ RetireBaseline(b)
             \/ EngineDies(b) \/ ReconcileBranch(b)
      PROVE  Fits(c)'
  BY <1>2, StepKeeps DEF LifecycleInv
<1>3. CASE Crash
  BY <1>1, <1>3, CrashKeeps
<1>4. CASE ReconcileDone
  BY <1>1, <1>4, ReconcileDoneKeeps
<1>5. CASE UNCHANGED vars
  BY <1>1, <1>5 DEF vars, durable, daemon, budget, Fits, CallFits, VolumeFits,
     PromotionFits, SettledFits, CleanFits, Covered, Resettable, Live, Kept,
     InitClean, Locked
<1>6. QED
  BY <1>2, <1>3, <1>4, <1>5 DEF Next

\* LifecycleInv holds of every reachable state: every call of manager.go finds
\* at each step the row, the dataset and the engine the code takes for granted.
THEOREM LifecycleInvariant == Spec => []LifecycleInv
BY InitFits, NextKeeps, PTL DEF Spec

\* A branch that is let through to or that Wake would start has its dataset
\* and an @init, whatever failed or was cut off before.
THEOREM Resettability == Spec => []LiveRowHasInit
<1>1. LifecycleInv => LiveRowHasInit
  BY DEF LifecycleInv, Fits, LiveRowHasInit
<1>2. QED
  BY <1>1, LifecycleInvariant, PTL

\* No error path of a call, and no crash followed by Reconcile, leaves a row in
\* creating, resetting or deleting that nobody works on.
THEOREM NothingStranded == Spec => []NoStrandedTransition
<1>1. LifecycleInv => NoStrandedTransition
  BY DEF LifecycleInv, Fits, SettledFits, NoStrandedTransition
<1>2. QED
  BY <1>1, LifecycleInvariant, PTL

\* refuseIfBackingBaseline under the branch lock protects every snapshot that
\* is registered as a baseline.
THEOREM PromotedSnapshots == Spec => []PromotedSnapshotKept
<1>1. LifecycleInv => PromotedSnapshotKept
  BY DEF LifecycleInv, Fits, PromotedSnapshotKept
<1>2. QED
  BY <1>1, LifecycleInvariant, PTL

\* @init is taken of a datadir that was shut down cleanly, unless an engine
\* dies on its own.
THEOREM CleanInit == Spec => []InitFromCleanShutdown
<1>1. LifecycleInv => InitFromCleanShutdown
  BY DEF LifecycleInv, Fits, InitFromCleanShutdown
<1>2. QED
  BY <1>1, LifecycleInvariant, PTL

\* Delete and create never leave a dataset or an engine without a row, as long
\* as resolveVolume only fails for a dataset that is not there.
THEOREM VolumesCovered ==
    ASSUME "resolve" \notin FaultKinds
    PROVE  Spec => []RowCoversVolume
<1>1. LifecycleInv => RowCoversVolume
  BY DEF LifecycleInv, Fits, RowCoversVolume
<1>2. QED
  BY <1>1, LifecycleInvariant, PTL

-----------------------------------------------------------------------------
(***************************************************************************)
(* The old volume of a recreate                                            *)
(***************************************************************************)

\* Only four steps write the stash of a branch.
LEMMA StashWriters ==
    ASSUME TypeOK, NEW b \in Branches,
           \/ Call(b) \/ Proceed(b) \/ RetireBaseline(b)
           \/ EngineDies(b) \/ ReconcileBranch(b)
    PROVE  \/ DropStale(b) \/ StashOld(b) \/ RestoreStash(b) \/ DropOld(b)
           \/ stash' = stash
<1>1. CASE Call(b)
  BY <1>1 DEF Call, Create, Reset, Recreate, Delete, DeleteBody, Wake,
     Sleep, Promote, RetryReads, durable, RetryCreate, RetryGivesUp
<1>2. CASE Proceed(b)
  BY <1>2 DEF Proceed, Clone, Quota, BootForHook, Boot, Hook, StopForInit,
     SnapshotInit, BootForUse, MarkRunning, KillOld, Rollback, Destroy,
     DropRow, WakeSkips, durable, WakeBoots, MarkSleeping, PromoteSnapshot,
     RegisterBaseline, RestartBranch
<1>3. CASE ReconcileBranch(b)
  BY <1>3 DEF ReconcileBranch, ReconcileDelete, DeleteBody,
     ReconcileInterrupted, ReconcileSettled
<1>4. QED
  BY <1>1, <1>2, <1>3 DEF RetireBaseline, EngineDies

\* Each of them gives the old data up only for a provisioned replacement.
LEMMA StepKeepsOldData ==
    ASSUME TypeOK, NEW b \in Branches, Fits(b),
           \/ DropStale(b) \/ StashOld(b) \/ RestoreStash(b) \/ DropOld(b)
    PROVE  OldDataKept(b)
<1>1. CASE DropStale(b)
  BY <1>1, Values DEF DropStale, FailsIf, OldDataKept
<1>2. CASE StashOld(b)
  <2>1. vol[b].exists
    BY <1>2 DEF StashOld, At, Fits, VolumeFits
  <2>2. QED
    BY <1>2, <2>1, MoveEffect DEF StashOld, OldDataKept
<1>3. CASE RestoreStash(b)
  BY <1>3, Values DEF RestoreStash, OldDataKept, Volumes
<1>4. CASE DropOld(b)
  <2>1. vol[b].exists /\ vol[b].init # "none"
    BY <1>4 DEF DropOld, At, Fits, VolumeFits
  <2>2. QED
    BY <1>4, <2>1 DEF DropOld, OldDataKept
<1>5. QED
  BY <1>1, <1>2, <1>3, <1>4

\* recreateFrom destroys the volume it moved aside only once the new one has
\* its @init, puts it back, or was called on a row in error.
THEOREM OldDataSafe == Spec => OldDataOutlivesReplacement
<1>1. LifecycleInv /\ [Next]_vars => [\A b \in Branches : OldDataKept(b)]_vars
  <2> SUFFICES ASSUME LifecycleInv, Next, NEW c \in Branches
               PROVE  OldDataKept(c)
    OBVIOUS
  <2>1. CASE stash' = stash
    BY <2>1 DEF OldDataKept
  <2>2. ASSUME NEW b \in Branches,
               \/ Call(b) \/ Proceed(b) \/ RetireBaseline(b)
               \/ EngineDies(b) \/ ReconcileBranch(b)
        PROVE  OldDataKept(c)
    <3>1. \/ DropStale(b) \/ StashOld(b) \/ RestoreStash(b) \/ DropOld(b)
          \/ stash' = stash
      BY <2>2, StashWriters DEF LifecycleInv
    <3>2. CASE c # b
      BY <2>2, <3>2, StepIsLocal DEF LifecycleInv, OldDataKept
    <3>3. CASE c = b
      BY <2>1, <3>1, <3>3, StepKeepsOldData DEF LifecycleInv
    <3>4. QED
      BY <3>2, <3>3
  <2>3. CASE Crash \/ ReconcileDone
    BY <2>1, <2>3 DEF Crash, ReconcileDone, durable
  <2>4. QED
    BY <2>2, <2>3 DEF Next
<1>2. QED
  BY <1>1, LifecycleInvariant, PTL DEF Spec, OldDataOutlivesReplacement

-----------------------------------------------------------------------------
(***************************************************************************)
(* Admission                                                               *)
(***************************************************************************)

\* The steps of a call that is under way set its row only to what it counted
\* as before, or to a state that is not counted.
LEMMA ProceedCounts ==
    ASSUME TypeOK, NEW b \in Branches, Fits(b), Proceed(b), b \in Counted'
    PROVE  b \in Counted
<1> SUFFICES row'[b] = row[b] \/ row[b].state \in {"creating", "resetting", "running"}
  BY DEF Counted
<1> USE FailOpEffect, SetRowEffect
<1>1. row'[b].state \in {"running", "creating", "resetting"}
  BY DEF Counted
<1>2. CASE MarkRunning(b)
  BY <1>2 DEF MarkRunning, At, Fits, CallFits, TypeOK, Tasks, Paths
<1>3. CASE Clone(b) \/ RestoreStash(b) \/ Quota(b)
  BY <1>1, <1>3 DEF Clone, CloneFailed, RestoreStash, Quota
<1>4. CASE BootForHook(b) \/ BootForUse(b) \/ WakeBoots(b)
  BY <1>1, <1>4 DEF BootForHook, BootForUse, WakeBoots, Boot, BootFails
<1>5. CASE Hook(b) \/ StopForInit(b) \/ SnapshotInit(b)
  BY <1>1, <1>5 DEF Hook, StopForInit, SnapshotInit
<1>6. CASE KillOld(b) \/ DropStale(b) \/ StashOld(b) \/ DropOld(b)
  BY <1>1, <1>6 DEF KillOld, DropStale, StashOld, DropOld
<1>7. CASE Rollback(b)
  BY <1>1, <1>7 DEF Rollback
<1>8. CASE Destroy(b)
  BY <1>1, <1>8 DEF Destroy, DestroyFailed, ErrorRow
<1>9. CASE DropRow(b) \/ MarkSleeping(b)
  BY <1>1, <1>9 DEF DropRow, MarkSleeping, RowIn
<1>10. CASE \/ WakeSkips(b) \/ PromoteSnapshot(b) \/ RegisterBaseline(b)
            \/ RestartBranch(b)
  BY <1>10 DEF WakeSkips, durable, PromoteSnapshot, RegisterBaseline,
     RestartBranch
<1>11. QED
  BY <1>2, <1>3, <1>4, <1>5, <1>6, <1>7, <1>8, <1>9, <1>10 DEF Proceed

\* A call makes a branch count only when admitMemory let it, unless it is reset.
LEMMA CallAdmits ==
    ASSUME TypeOK, NEW b \in Branches, Call(b), b \in Counted', b \notin Counted
    PROVE  AdmitMemory \/ (task'[b].path = "reset" /\ task[b] # task'[b])
<1>1. /\ row'[b].state \in {"running", "creating", "resetting"}
      /\ row[b].state \notin {"running", "creating", "resetting"}
  BY DEF Counted
<1>2. row'[b] # row[b]
  BY <1>1
<1>3. CASE Reset(b)
  <2>1. task'[b].path = "reset" /\ task'[b].pc = "rollback"
    BY <1>3 DEF Reset, Begin, TypeOK
  <2>2. task[b].pc = "idle"
    BY <1>3 DEF Reset, Callable, Locked
  <2>3. QED
    BY <2>1, <2>2
<1>4. CASE Create(b) \/ Recreate(b) \/ RetryCreate(b)
  BY <1>4 DEF Create, Recreate, RetryCreate, RecreateFrom
<1>5. CASE Wake(b)
  BY <1>1, <1>5 DEF Wake
<1>6. CASE Delete(b)
  BY <1>1, <1>6, SetRowEffect DEF Delete, DeleteBody, RowIn
<1>7. CASE Sleep(b) \/ Promote(b) \/ RetryReads(b) \/ RetryGivesUp(b)
  BY <1>2, <1>7 DEF Sleep, Promote, RetryReads, RetryGivesUp, durable
<1>8. QED
  BY <1>3, <1>4, <1>5, <1>6, <1>7 DEF Call

\* Neither Reconcile nor anything that happens to an engine makes one count.
LEMMA OthersCount ==
    ASSUME TypeOK, NEW b \in Branches,
           RetireBaseline(b) \/ EngineDies(b) \/ ReconcileBranch(b),
           b \in Counted'
    PROVE  b \in Counted
<1>1. row'[b].state \in {"running", "creating", "resetting"}
  BY DEF Counted
<1>2. CASE ReconcileDelete(b)
  BY <1>1, <1>2, SetRowEffect DEF ReconcileDelete, DeleteBody, RowIn
<1>3. CASE ReconcileInterrupted(b)
  BY <1>1, <1>3, SetRowEffect DEF ReconcileInterrupted, ErrorRow
<1>4. CASE ReconcileSettled(b)
  <2>1. row'[b] = row[b]
    BY <1>1, <1>4, SetRowEffect DEF ReconcileSettled, ErrorRow, RowIn
  <2>2. QED
    BY <2>1 DEF Counted
<1>5. CASE RetireBaseline(b) \/ EngineDies(b)
  BY <1>5 DEF RetireBaseline, EngineDies, Counted
<1>6. QED
  BY <1>2, <1>3, <1>4, <1>5 DEF ReconcileBranch

\* The counted branches are finitely many, so each new one adds one.
LEMMA CountedFinite ==
    ASSUME NEW S \in SUBSET Branches, NEW T \in SUBSET Branches, NEW b \in Branches
    PROVE  /\ Cardinality(S) \in Nat
           /\ T \subseteq S => Cardinality(T) <= Cardinality(S)
           /\ T \subseteq S \cup {b} => Cardinality(T) <= Cardinality(S) + 1
<1>1. IsFiniteSet(S) /\ IsFiniteSet(S \cup {b})
  BY LimitsAssumption, FS_Subset
<1>2. Cardinality(S) \in Nat /\ Cardinality(S \cup {b}) \in Nat
  BY <1>1, FS_CardinalityType
<1>3. Cardinality(S \cup {b}) <= Cardinality(S) + 1
  BY <1>1, <1>2, FS_AddElement
<1>4. T \subseteq S => Cardinality(T) <= Cardinality(S)
  BY <1>1, FS_Subset
<1>5. /\ T \subseteq S \cup {b} => Cardinality(T) <= Cardinality(S \cup {b})
      /\ T \subseteq S \cup {b} => Cardinality(T) \in Nat
  BY <1>1, FS_Subset, FS_CardinalityType
<1>6. QED
  BY <1>2, <1>3, <1>4, <1>5

\* A step of one branch raises the count to max_running at most, unless it is
\* the call of a reset.
LEMMA StepAdmits ==
    ASSUME LifecycleInv, NEW b \in Branches,
           \/ Call(b) \/ Proceed(b) \/ RetireBaseline(b)
           \/ EngineDies(b) \/ ReconcileBranch(b),
           MaxRunning # 0, Cardinality(Counted') > Cardinality(Counted),
           task'[b].path = "reset" => task[b] = task'[b]
    PROVE  Cardinality(Counted') <= MaxRunning
<1>1. TypeOK /\ Fits(b)
  BY DEF LifecycleInv
<1>2. \A c \in Branches : c # b => row'[c] = row[c]
  BY <1>1, StepIsLocal
<1>3. Counted \in SUBSET Branches /\ Counted' \in SUBSET Branches
  BY DEF Counted
<1>4. Counted' \subseteq Counted \cup {b}
  BY <1>2 DEF Counted
<1>5. ~(Counted' \subseteq Counted)
  <2>1. Cardinality(Counted) \in Nat /\ Cardinality(Counted') \in Nat
    BY <1>3, CountedFinite
  <2>2. Counted' \subseteq Counted => Cardinality(Counted') <= Cardinality(Counted)
    BY <1>3, CountedFinite
  <2>3. QED
    BY <2>1, <2>2
<1>6. b \in Counted' /\ b \notin Counted
  BY <1>4, <1>5
<1>7. Call(b)
  BY <1>1, <1>6, ProceedCounts, OthersCount
<1>8. AdmitMemory
  BY <1>1, <1>6, <1>7, CallAdmits
<1>9. Cardinality(Counted) < MaxRunning
  BY <1>8 DEF AdmitMemory
<1>10. /\ Cardinality(Counted') <= Cardinality(Counted) + 1
       /\ Cardinality(Counted) \in Nat /\ Cardinality(Counted') \in Nat
  BY <1>3, <1>4, CountedFinite
<1>11. QED
  BY <1>9, <1>10, LimitsAssumption

\* However many creates, wakes and recreates are under way at once, admission
\* lets none of them raise the number of counted branches above max_running.
THEOREM AdmissionHolds == Spec => AdmissionRespected
<1> DEFINE Respects ==
        /\ MaxRunning # 0
        /\ Cardinality(Counted') > Cardinality(Counted)
        /\ \A b \in Branches : task'[b].path = "reset" => task[b] = task'[b]
        => Cardinality(Counted') <= MaxRunning
<1>1. LifecycleInv /\ [Next]_vars => [Respects]_vars
  <2> SUFFICES ASSUME LifecycleInv, Next,
                      MaxRunning # 0,
                      Cardinality(Counted') > Cardinality(Counted),
                      \A b \in Branches :
                          task'[b].path = "reset" => task[b] = task'[b]
               PROVE  Cardinality(Counted') <= MaxRunning
    OBVIOUS
  <2>1. ASSUME NEW b \in Branches,
               \/ Call(b) \/ Proceed(b) \/ RetireBaseline(b)
               \/ EngineDies(b) \/ ReconcileBranch(b)
        PROVE  Cardinality(Counted') <= MaxRunning
    BY <2>1, StepAdmits
  <2>2. CASE Crash \/ ReconcileDone
    <3>1. Counted' = Counted
      BY <2>2 DEF Crash, ReconcileDone, durable, Counted
    <3>2. Counted \in SUBSET Branches
      BY DEF Counted
    <3>3. CASE Branches = {}
      BY <3>1, <3>2, <3>3, FS_EmptySet
    <3>4. CASE Branches # {}
      BY <3>1, <3>2, <3>4, CountedFinite
    <3>5. QED
      BY <3>3, <3>4
  <2>3. QED
    BY <2>1, <2>2 DEF Next
<1>2. QED
  BY <1>1, LifecycleInvariant, PTL DEF Spec, AdmissionRespected

-----------------------------------------------------------------------------
(***************************************************************************)
(* A recreate whose clone fails                                            *)
(***************************************************************************)

\* Until it has moved the old volume aside, a recreate has it under the branch's
\* name; it puts it back only after a command has failed or when a volume is
\* there; so the row that reports clone_failed has one, unless two commands did.
RestoreFits(b) ==
    LET t == task[b]  v == vol[b] IN
    /\ t.name = "recreate" /\ (\/ t.pc = "kill"
                               \/ t.pc \in {"stale", "clone"} /\ ~t.hasOld)
          => v.exists
    /\ t.pc = "stash" => t.hasOld
    /\ t.pc = "restore" => faults > 0 \/ v.exists
    /\ faults <= 1 /\ row[b] = ErrorRow("recreate", "clone") => v.exists
RestoreInv == \A b \in Branches : RestoreFits(b)

\* The row reports clone_failed only when nobody holds the branch.
LEMMA FailedIsFree ==
    ASSUME TypeOK, NEW b \in Branches, Fits(b), row[b].state = "error"
    PROVE  task[b].pc = "idle"
BY Values DEF Fits, CallFits, Tasks, Paths

\* failOp writes the operation and the stage it is given.
LEMMA FailOpRow ==
    ASSUME TypeOK, NEW b \in Branches, NEW stage, FailOp(b, stage)
    PROVE  /\ row'[b] = ErrorRow(task[b].name, stage)
           /\ row'[b].stage = stage
           /\ task'[b].pc = "idle"
BY SetRowEffect, FailOpEffect DEF FailOp, ErrorRow

\* The number of failures only grows.
LEMMA FaultsGrow ==
    ASSUME TypeOK, NEW b \in Branches,
           \/ Call(b) \/ Proceed(b) \/ RetireBaseline(b)
           \/ EngineDies(b) \/ ReconcileBranch(b)
    PROVE  faults' \in {faults, faults + 1}
<1> USE DEF Works, Breaks, FailsIf, KillSurvived, budget
<1>1. CASE Call(b)
  BY <1>1 DEF Call, Create, Reset, Recreate, Delete, DeleteBody, Wake,
     Sleep, Promote, RetryReads, RetryCreate, RetryGivesUp
<1>2. CASE Proceed(b)
  <2>1. CASE BootForHook(b) \/ BootForUse(b) \/ WakeBoots(b)
    BY <2>1 DEF BootForHook, BootForUse, WakeBoots, Boot, BootFails
  <2>2. CASE \/ Clone(b) \/ RestoreStash(b) \/ Quota(b) \/ Hook(b)
             \/ StopForInit(b) \/ SnapshotInit(b) \/ MarkRunning(b)
    BY <2>2 DEF Clone, RestoreStash, Quota, Hook, StopForInit, SnapshotInit,
       MarkRunning
  <2>3. CASE \/ KillOld(b) \/ DropStale(b) \/ StashOld(b) \/ DropOld(b)
             \/ Rollback(b) \/ Destroy(b) \/ DropRow(b)
    BY <2>3 DEF KillOld, DropStale, StashOld, DropOld, Rollback, Destroy,
       DropRow
  <2>4. CASE \/ WakeSkips(b) \/ MarkSleeping(b) \/ PromoteSnapshot(b)
             \/ RegisterBaseline(b) \/ RestartBranch(b)
    BY <2>4 DEF WakeSkips, MarkSleeping, PromoteSnapshot, RegisterBaseline,
       RestartBranch
  <2>5. QED
    BY <1>2, <2>1, <2>2, <2>3, <2>4 DEF Proceed
<1>3. CASE ReconcileBranch(b)
  BY <1>3 DEF ReconcileBranch, ReconcileDelete, DeleteBody,
     ReconcileInterrupted, ReconcileSettled
<1>4. QED
  BY <1>1, <1>2, <1>3 DEF RetireBaseline, EngineDies

\* A call that is let in, or that ends a row's transition, does not report it.
LEMMA CallRestores ==
    ASSUME TypeOK, NEW b \in Branches, Fits(b), RestoreFits(b),
           Call(b) \/ ReconcileBranch(b) \/ RetireBaseline(b) \/ EngineDies(b)
    PROVE  RestoreFits(b)'
<1> USE Values, FailedIsFree DEF RestoreFits
<1>1. CASE Recreate(b)
  <2>1. row'[b] = RowIn("resetting") /\ vol' = vol /\ vol[b].exists
    BY <1>1, SetRowEffect DEF Recreate, RecreateFrom
  <2>2. task'[b].pc = "kill"
    BY <1>1 DEF Recreate, RecreateFrom, Begin
  <2>3. QED
    BY <2>1, <2>2 DEF RowIn, ErrorRow
<1>2. CASE RetryCreate(b)
  <2>1. row'[b] = RowIn("resetting")
    BY <1>2, SetRowEffect DEF RetryCreate, RecreateFrom
  <2>2. task'[b].pc = "kill" /\ task'[b].name = "create"
    BY <1>2 DEF RetryCreate, RecreateFrom, Begin
  <2>3. QED
    BY <2>1, <2>2 DEF RowIn, ErrorRow
<1>3. CASE Create(b) \/ Reset(b) \/ Wake(b)
  <2>1. row'[b].state \in {"creating", "resetting", "running"}
    BY <1>3, SetRowEffect DEF Create, Reset, Wake, RowIn
  <2>2. /\ task'[b].pc \in {"clone", "rollback", "wake"}
        /\ task'[b].name # "recreate"
    BY <1>3 DEF Create, Reset, Wake, Begin
  <2>3. QED
    BY <2>1, <2>2 DEF ErrorRow
<1>4. CASE Delete(b) \/ ReconcileDelete(b)
  <2>1. row'[b].state \in {"absent", "deleting"}
    BY <1>4, SetRowEffect DEF Delete, ReconcileDelete, DeleteBody, RowIn
  <2>2. task'[b].pc \in {"idle", "destroy"}
    BY <1>4 DEF Delete, ReconcileDelete, DeleteBody, Begin, Callable, Visiting,
       Locked
  <2>3. QED
    BY <2>1, <2>2 DEF ErrorRow
<1>5. CASE Sleep(b) \/ Promote(b)
  <2>1. row' = row /\ row[b].state # "error"
    BY <1>5 DEF Sleep, Promote
  <2>2. task'[b].pc \in {"sleep", "snap"}
    BY <1>5 DEF Sleep, Promote, Begin
  <2>3. QED
    BY <2>1, <2>2 DEF ErrorRow
<1>6. CASE RetryReads(b) \/ RetryGivesUp(b) \/ RetireBaseline(b) \/ EngineDies(b)
  <2>1. row' = row /\ task' = task /\ faults' = faults
    BY <1>6 DEF RetryReads, RetryGivesUp, RetireBaseline, EngineDies, durable,
       budget
  <2>2. vol'[b].exists = vol[b].exists
    <3>1. CASE RetireBaseline(b)
      BY <3>1 DEF RetireBaseline, TypeOK, Volumes
    <3>2. CASE RetryReads(b) \/ RetryGivesUp(b) \/ EngineDies(b)
      BY <3>2 DEF RetryReads, RetryGivesUp, EngineDies, durable
    <3>3. QED
      BY <1>6, <3>1, <3>2
  <2>3. QED
    BY <2>1, <2>2 DEF ErrorRow
<1>7. CASE ReconcileInterrupted(b) \/ ReconcileSettled(b)
  <2>1. task' = task /\ task[b].pc = "idle" /\ vol' = vol
    BY <1>7 DEF ReconcileInterrupted, ReconcileSettled, Visiting, Locked
  <2>2. \/ row'[b] = row[b] \/ row'[b].state # "error"
        \/ row'[b].stage \in {"interrupted", "dataset_missing"}
    BY <1>7, SetRowEffect
    DEF ReconcileInterrupted, ReconcileSettled, ErrorRow, RowIn
  <2>3. QED
    BY <2>1, <2>2, FaultsGrow DEF ErrorRow, TypeOK
<1>8. QED
  BY <1>1, <1>2, <1>3, <1>4, <1>5, <1>6, <1>7 DEF Call, ReconcileBranch

\* The steps of a recreate up to the clone, and the one that puts the old
\* volume back.
LEMMA RecreateRestores ==
    ASSUME TypeOK, NEW b \in Branches, Fits(b), RestoreFits(b),
           \/ KillOld(b) \/ DropStale(b) \/ StashOld(b) \/ Clone(b)
           \/ RestoreStash(b)
    PROVE  RestoreFits(b)'
<1> USE Values, FailedIsFree DEF RestoreFits
<1>1. CASE KillOld(b)
  <2>1. /\ row' = row /\ vol' = vol /\ task[b].pc = "kill"
        /\ task'[b].pc = "stale" /\ task'[b].name = task[b].name
    <3>1. CASE Goto(b, "stale")
      BY <1>1, <3>1, GotoEffect DEF KillOld, At
    <3>2. CASE task' = [task EXCEPT ![b].pc = "stale", ![b].hasOld = TRUE]
      BY <1>1, <3>2 DEF KillOld, At, TypeOK, Tasks
    <3>3. QED
      BY <1>1, <3>1, <3>2 DEF KillOld
  <2>2. QED
    BY <2>1 DEF ErrorRow
<1>2. CASE DropStale(b)
  <2>1. /\ row' = row /\ vol' = vol /\ task[b].pc = "stale"
        /\ task'[b].name = task[b].name /\ task'[b].hasOld = task[b].hasOld
        /\ task'[b].pc = IF task[b].hasOld THEN "stash" ELSE "clone"
    BY <1>2, GotoEffect DEF DropStale, At
  <2>2. QED
    BY <2>1 DEF ErrorRow
<1>3. CASE StashOld(b)
  <2>1. CASE FailOp(b, "stash")
    <3>1. task'[b].pc = "idle" /\ row'[b].stage = "stash"
      BY <2>1, FailOpRow
    <3>2. QED
      BY <3>1 DEF ErrorRow
  <2>2. CASE Goto(b, "clone") /\ row' = row
    <3>1. task'[b].pc = "clone" /\ task'[b].hasOld
      BY <1>3, <2>2, GotoEffect DEF StashOld, At
    <3>2. row'[b].state # "error"
      BY <1>3, <2>2 DEF StashOld, At
    <3>3. QED
      BY <3>1, <3>2 DEF ErrorRow
  <2>3. QED
    BY <1>3, <2>1, <2>2 DEF StashOld
<1>4. CASE Clone(b)
  <2>1. task[b].pc = "clone" /\ faults' \in {faults, faults + 1}
    BY <1>4, FaultsGrow DEF Clone, At, Proceed
  <2>2. CASE Goto(b, "quota") /\ row' = row
    <3>1. task'[b].pc = "quota" /\ row'[b].state # "error"
      BY <2>1, <2>2, GotoEffect
    <3>2. QED
      BY <3>1 DEF ErrorRow
  <2>3. CASE CloneFailed(b)
    <3>1. vol'[b].exists \/ (faults' = faults + 1 /\ ~vol[b].exists)
      <4>1. CASE FailsIf(vol[b].exists, "clone") /\ vol' = vol
        BY <4>1 DEF FailsIf, Breaks
      <4>2. CASE vol' = [vol EXCEPT ![b] = NewClone]
        <5>1. NewClone.exists
          BY DEF NewClone, NoVolume
        <5>2. vol'[b] = NewClone
          BY <4>2 DEF TypeOK
        <5>3. QED
          BY <5>1, <5>2
      <4>3. QED
        BY <1>4, <4>1, <4>2 DEF Clone
    <3>2. CASE task[b].hasOld
      <4>1. task'[b].pc = "restore" /\ row'[b].state # "error"
        BY <2>1, <2>3, <3>2, GotoEffect DEF CloneFailed
      <4>2. QED
        BY <3>1, <4>1 DEF ErrorRow, TypeOK
    <3>3. CASE ~task[b].hasOld
      <4>1. row'[b] = ErrorRow(task[b].name, "clone") /\ task'[b].pc = "idle"
        BY <2>3, <3>3, FailOpRow DEF CloneFailed
      <4>2. task[b].name = "recreate" => vol'[b].exists
        BY <2>1, <3>1, <3>3
      <4>3. QED
        BY <4>1, <4>2 DEF ErrorRow
    <3>4. QED
      BY <3>2, <3>3
  <2>4. QED
    BY <1>4, <2>2, <2>3 DEF Clone
<1>5. CASE RestoreStash(b)
  <2>1. /\ task[b].pc = "restore" /\ stash[b].exists
        /\ faults' \in {faults, faults + 1}
    BY <1>5, FaultsGrow DEF RestoreStash, At, Proceed, Fits, VolumeFits
  <2>2. task'[b].pc = "idle"
    BY <1>5, FailOpRow DEF RestoreStash
  <2>3. vol'[b].exists \/ faults' > 1
    <3>1. CASE vol' = [vol EXCEPT ![b] = [stash[b] EXCEPT !.clean = @ /\ ~eng'[b]]]
      BY <2>1, <3>1 DEF TypeOK, Volumes
    <3>2. CASE FailsIf(vol[b].exists, "rename") /\ vol' = vol
      BY <2>1, <3>2 DEF FailsIf, Breaks, TypeOK
    <3>3. QED
      BY <1>5, <3>1, <3>2 DEF RestoreStash
  <2>4. QED
    BY <2>1, <2>2, <2>3 DEF TypeOK
<1>6. QED
  BY <1>1, <1>2, <1>3, <1>4, <1>5

\* The other steps of a call end it in another way, or go on.
LEMMA OthersRestore ==
    ASSUME TypeOK, NEW b \in Branches, Fits(b), RestoreFits(b), Proceed(b),
           ~(\/ KillOld(b) \/ DropStale(b) \/ StashOld(b) \/ Clone(b)
             \/ RestoreStash(b))
    PROVE  RestoreFits(b)'
<1> DEFINE Elsewhere == /\ task'[b].pc \notin {"kill", "stale", "stash", "clone",
                                               "restore"}
                        /\ row'[b] # ErrorRow("recreate", "clone")
<1> USE Values, FailedIsFree
<1>1. CASE BootForHook(b) \/ BootForUse(b) \/ WakeBoots(b)
  <2>1. PICK pc \in {"boot1", "boot2", "wake"}, next \in {"hook", "dropOld", "done"} :
            Boot(b, pc, next)
    BY <1>1 DEF BootForHook, BootForUse, WakeBoots
  <2>2. ASSUME Goto(b, next), row' = row PROVE Elsewhere
    <3>1. task'[b].pc = next /\ row[b].state # "error"
      BY <2>1, <2>2, GotoEffect DEF Boot, At
    <3>2. QED
      BY <2>2, <3>1 DEF ErrorRow
  <2>3. ASSUME BootFails(b) PROVE Elsewhere
    <3>1. FailOp(b, "engine-start") \/ FailOp(b, "engine-ready")
      BY <2>3 DEF BootFails
    <3>2. task'[b].pc = "idle" /\ row'[b].stage # "clone"
      BY <3>1, FailOpRow
    <3>3. QED
      BY <3>2 DEF ErrorRow
  <2>4. Elsewhere
    BY <2>1, <2>2, <2>3 DEF Boot
  <2>5. QED
    BY <2>4 DEF RestoreFits
<1>2. CASE Quota(b) \/ Hook(b) \/ StopForInit(b) \/ SnapshotInit(b) \/ Rollback(b)
  <2>1. ASSUME NEW pc \in {"boot1", "init", "stop", "boot2"}, Goto(b, pc), row' = row
        PROVE  Elsewhere
    <3>1. task[b].pc # "idle" /\ task'[b].pc = pc
      BY <1>2, <2>1, GotoEffect
      DEF Quota, Hook, StopForInit, SnapshotInit, Rollback, At
    <3>2. row'[b].state # "error"
      BY <2>1, <3>1
    <3>3. QED
      BY <3>1, <3>2 DEF ErrorRow
  <2>2. ASSUME NEW stage \in {"quota", "hook", "engine-stop", "snapshot", "rollback"},
               FailOp(b, stage)
        PROVE  Elsewhere
    <3>1. task'[b].pc = "idle" /\ row'[b].stage # "clone"
      BY <2>2, FailOpRow
    <3>2. QED
      BY <3>1 DEF ErrorRow
  <2>3. \/ \E pc \in {"boot1", "init", "stop", "boot2"} : Goto(b, pc) /\ row' = row
        \/ \E stage \in {"quota", "hook", "engine-stop", "snapshot", "rollback"} :
                FailOp(b, stage)
    BY <1>2 DEF Quota, Hook, StopForInit, SnapshotInit, Rollback
  <2>4. QED
    BY <2>1, <2>2, <2>3 DEF RestoreFits
<1>3. CASE DropOld(b) \/ WakeSkips(b) \/ PromoteSnapshot(b) \/ RegisterBaseline(b)
  <2>1. /\ row' = row /\ task[b].pc # "idle"
        /\ \E pc \in {"done", "register", "restart"} : Goto(b, pc)
    BY <1>3 DEF DropOld, WakeSkips, PromoteSnapshot, RegisterBaseline, durable, At
  <2>2. Elsewhere
    BY <2>1, GotoEffect DEF ErrorRow
  <2>3. QED
    BY <2>2 DEF RestoreFits
<1>4. CASE Destroy(b)
  <2>1. ASSUME Goto(b, "dropRow"), row' = row PROVE Elsewhere
    <3>1. task'[b].pc = "dropRow" /\ row[b].state # "error"
      BY <1>4, <2>1, GotoEffect DEF Destroy, At
    <3>2. QED
      BY <2>1, <3>1 DEF ErrorRow
  <2>2. ASSUME DestroyFailed(b) PROVE Elsewhere
    <3>1. task'[b].pc = "idle" /\ row'[b].stage # "clone"
      BY <2>2, ReleaseEffect, SetRowEffect DEF DestroyFailed, ErrorRow
    <3>2. QED
      BY <3>1 DEF ErrorRow
  <2>3. Elsewhere
    BY <1>4, <2>1, <2>2 DEF Destroy
  <2>4. QED
    BY <2>3 DEF RestoreFits
<1>5. CASE MarkRunning(b) \/ DropRow(b) \/ MarkSleeping(b)
  <2>1. row'[b].state \in {"running", "absent", "sleeping"}
    BY <1>5, SetRowEffect DEF MarkRunning, DropRow, MarkSleeping, RowIn
  <2>2. task'[b].pc = "idle"
    BY <1>5, ReleaseEffect DEF MarkRunning, DropRow, MarkSleeping
  <2>3. QED
    BY <2>1, <2>2 DEF RestoreFits, ErrorRow
<1>6. CASE RestartBranch(b)
  <2>1. row' = row /\ task[b].pc # "idle" /\ task'[b].pc = "idle"
    BY <1>6, ReleaseEffect DEF RestartBranch, At
  <2>2. QED
    BY <2>1 DEF RestoreFits, ErrorRow
<1>7. QED
  BY <1>1, <1>2, <1>3, <1>4, <1>5, <1>6 DEF Proceed

\* Every step keeps RestoreInv.
LEMMA RestoreKept == LifecycleInv /\ RestoreInv /\ [Next]_vars => RestoreInv'
<1> SUFFICES ASSUME LifecycleInv, \A b \in Branches : RestoreFits(b), [Next]_vars,
                    NEW c \in Branches
             PROVE  RestoreFits(c)'
  BY DEF RestoreInv
<1>1. TypeOK /\ \A b \in Branches : Fits(b)
  BY DEF LifecycleInv
<1>2. ASSUME NEW b \in Branches,
             \/ Call(b) \/ Proceed(b) \/ RetireBaseline(b)
             \/ EngineDies(b) \/ ReconcileBranch(b)
      PROVE  RestoreFits(c)'
  <2>1. CASE c = b
    BY <1>1, <1>2, <2>1, CallRestores, RecreateRestores, OthersRestore
  <2>2. CASE c # b
    <3>1. faults' \in {faults, faults + 1}
      BY <1>1, <1>2, FaultsGrow
    <3>2. row'[c] = row[c] /\ vol'[c] = vol[c] /\ task'[c] = task[c]
      BY <1>1, <1>2, <2>2, StepIsLocal
    <3>3. QED
      BY <1>1, <3>1, <3>2 DEF RestoreFits, TypeOK
  <2>3. QED
    BY <2>1, <2>2
<1>3. CASE Crash
  <2>1. UNCHANGED <<row, vol, faults>> /\ task'[c].pc = "idle"
    BY <1>3 DEF Crash, durable, Idle
  <2>2. QED
    BY <2>1 DEF RestoreFits
<1>4. CASE ReconcileDone \/ UNCHANGED vars
  <2>1. UNCHANGED <<row, vol, task, faults>>
    BY <1>4 DEF ReconcileDone, vars, durable, budget
  <2>2. QED
    BY <2>1 DEF RestoreFits
<1>5. QED
  BY <1>2, <1>3, <1>4 DEF Next

\* When no more than one command has failed, a row that says that the clone of
\* a recreate failed has a volume: the old one is put back under its name.
THEOREM RestoredAfterFailedClone == Spec => []CloneFailureRestores
<1>1. Init => RestoreInv
  BY DEF Init, RestoreInv, RestoreFits, RowIn, ErrorRow, Idle
<1>2. RestoreInv => CloneFailureRestores
  BY DEF RestoreInv, RestoreFits, CloneFailureRestores
<1>3. QED
  BY <1>1, <1>2, RestoreKept, LifecycleInvariant, PTL DEF Spec
=============================================================================
