----------------------- MODULE BranchRefinement_proofs -----------------------
(***************************************************************************)
(* BranchLifecycle implements the safety part of BranchContract, for every *)
(* set of branches, limit, fault and crash, provided that reading a        *)
(* mountpoint does not fail of a dataset that is there.                    *)
(*                                                                         *)
(* What makes a step one of the contract is what LifecycleInv says the     *)
(* call finds.  The steps fall into a few shapes, each a lemma about the   *)
(* row, the two datasets and the lock; then one lemma per action says      *)
(* which shape it has.                                                     *)
(***************************************************************************)
EXTENDS BranchRefinement, BranchLifecycle_proofs

States == {"here", "aside", "none"}

\* A move of one branch, as the contract sees it.
MovesOne(b, from, to, found, left) ==
    /\ PhaseOf(b) \in from /\ PhaseOf(b)' = to
    /\ DataOf(b) \in found /\ DataOf(b)' \in left
    /\ reg'[b] = reg[b]

KeptOne(b) == IF DataOf(b) = "none" THEN States ELSE States \ {"none"}

\* The contract, of one branch.
OneStep(b) ==
    \/ PhaseOf(b)' = PhaseOf(b) /\ DataOf(b)' = DataOf(b) /\ reg'[b] = reg[b]
    \/ ~reg[b] /\ MovesOne(b, {"absent"}, "settling", States, States \ {"here"})
    \/ ~reg[b] /\ MovesOne(b, {"ready"}, "replacing", States, {DataOf(b)})
    \/ ~reg[b] /\ MovesOne(b, {"failed"}, "settling", States, {DataOf(b)})
    \/ ~reg[b] /\ MovesOne(b, {"ready", "failed"}, "deleting", States, {DataOf(b)})
    \/ ~reg[b] /\ MovesOne(b, {"failed"}, "absent", States \ {"here"}, {"none"})
    \/ MovesOne(b, {"failed"}, "ready", {"here"}, {"here"})
    \/ MovesOne(b, {"replacing"}, "replacing", States, KeptOne(b))
    \/ MovesOne(b, {"settling"}, "settling", States, States)
    \/ MovesOne(b, {"deleting"}, "deleting", States, States \ {"here"})
    \/ MovesOne(b, {"replacing", "settling"}, "ready", {"here"}, {"here"})
    \/ MovesOne(b, Contract!Phases \ {"absent"}, "failed", States, KeptOne(b))
    \/ MovesOne(b, {"deleting"}, "absent", States \ {"here"}, {"none"})
    \/ /\ PhaseOf(b) = "ready" /\ PhaseOf(b)' = "ready"
       /\ DataOf(b) = "here" /\ DataOf(b)' = "here" /\ reg'[b] = TRUE
    \/ PhaseOf(b)' = PhaseOf(b) /\ DataOf(b)' = DataOf(b) /\ reg'[b] = FALSE

-----------------------------------------------------------------------------
(***************************************************************************)
(* The mapping                                                             *)
(***************************************************************************)

\* A call that replaces data of a branch that was not in error.
Replacing(b) == Locked(b) /\ ~task[b].wasError

\* The states of a row, for the client.
LEMMA PhaseIs ==
    ASSUME TypeOK, NEW b \in Branches
    PROVE  LET s == row[b].state IN
           /\ s \in RowStates
           /\ s = "absent" => PhaseOf(b) = "absent"
           /\ s \in {"running", "sleeping"} => PhaseOf(b) = "ready"
           /\ s = "error" => PhaseOf(b) = "failed"
           /\ s = "creating" => PhaseOf(b) = "settling"
           /\ s = "deleting" => PhaseOf(b) = "deleting"
           /\ s = "resetting" /\ Replacing(b) => PhaseOf(b) = "replacing"
           /\ s = "resetting" /\ ~Replacing(b) => PhaseOf(b) = "settling"
<1>1. row[b].state \in RowStates
  BY DEF TypeOK, Rows
<1>2. QED
  BY <1>1 DEF PhaseOf, Replacing, RowStates, Transitional

\* The same of the next state.
LEMMA PhaseWillBe ==
    ASSUME TypeOK', NEW b \in Branches
    PROVE  LET s == row'[b].state IN
           /\ s \in RowStates
           /\ s = "absent" => PhaseOf(b)' = "absent"
           /\ s \in {"running", "sleeping"} => PhaseOf(b)' = "ready"
           /\ s = "error" => PhaseOf(b)' = "failed"
           /\ s = "creating" => PhaseOf(b)' = "settling"
           /\ s = "deleting" => PhaseOf(b)' = "deleting"
           /\ s = "resetting" /\ Replacing(b)' => PhaseOf(b)' = "replacing"
           /\ s = "resetting" /\ ~Replacing(b)' => PhaseOf(b)' = "settling"
<1>1. row'[b].state \in RowStates
  BY DEF TypeOK, Rows
<1>2. QED
  BY <1>1 DEF PhaseOf, Replacing, RowStates, Transitional

\* The datasets, for the client.
LEMMA DataIs ==
    ASSUME NEW b \in Branches
    PROVE  /\ DataOf(b) \in States
           /\ row[b].state = "absent" => DataOf(b) = "none"
           /\ row[b].state # "absent" =>
                /\ DataOf(b) = "here" <=> Whole(vol[b])
                /\ DataOf(b) = "none" <=> ~Whole(vol[b]) /\ ~Whole(stash[b])
BY DEF DataOf, States

\* The same of the next state.
LEMMA DataWillBe ==
    ASSUME NEW b \in Branches
    PROVE  /\ DataOf(b)' \in States
           /\ row'[b].state = "absent" => DataOf(b)' = "none"
           /\ row'[b].state # "absent" =>
                /\ DataOf(b)' = "here" <=> Whole(vol'[b])
                /\ DataOf(b)' = "none" <=> ~Whole(vol'[b]) /\ ~Whole(stash'[b])
BY DEF DataOf, States

-----------------------------------------------------------------------------
(***************************************************************************)
(* The shapes a step can have                                              *)
(***************************************************************************)

SameData(b)  == /\ Whole(vol'[b]) <=> Whole(vol[b])
                /\ Whole(stash'[b]) <=> Whole(stash[b])
KeepsData(b) == Whole(vol[b]) \/ Whole(stash[b]) =>
                    Whole(vol'[b]) \/ Whole(stash'[b])
SameCall(b)  == /\ row'[b].state = row[b].state
                /\ row[b].state = "resetting" => (Replacing(b)' <=> Replacing(b))

\* Equal datasets are equal data.
LEMMA SameDataSame ==
    ASSUME NEW b \in Branches, SameData(b),
           row[b].state # "absent", row'[b].state # "absent"
    PROVE  DataOf(b)' = DataOf(b)
BY DEF SameData, DataOf

\* A step that goes on with the call and leaves the data alone.
LEMMA GoesOn ==
    ASSUME TypeOK, TypeOK', NEW b \in Branches,
           SameCall(b), SameData(b), reg'[b] = reg[b]
    PROVE  OneStep(b)
<1>1. PhaseOf(b)' = PhaseOf(b)
  BY PhaseIs, PhaseWillBe DEF SameCall, RowStates, Transitional
<1>2. DataOf(b)' = DataOf(b)
  BY SameDataSame, DataIs, DataWillBe DEF SameCall
<1>3. QED
  BY <1>1, <1>2 DEF OneStep

\* A step between running and sleeping.
LEMMA StaysReady ==
    ASSUME TypeOK, TypeOK', NEW b \in Branches,
           row[b].state \in {"running", "sleeping"},
           row'[b].state \in {"running", "sleeping"},
           SameData(b), reg'[b] = reg[b]
    PROVE  OneStep(b)
<1>1. PhaseOf(b) = "ready" /\ PhaseOf(b)' = "ready"
  BY PhaseIs, PhaseWillBe
<1>2. DataOf(b)' = DataOf(b)
  BY SameDataSame
<1>3. QED
  BY <1>1, <1>2 DEF OneStep

\* A call that ends with an error keeps the data somewhere.
LEMMA EndsInError ==
    ASSUME TypeOK, TypeOK', NEW b \in Branches,
           row[b].state # "absent", row'[b].state = "error",
           KeepsData(b), reg'[b] = reg[b]
    PROVE  OneStep(b)
<1>1. PhaseOf(b) \in Contract!Phases \ {"absent"}
  BY PhaseIs DEF RowStates, Transitional, Contract!Phases
<1>2. PhaseOf(b)' = "failed"
  BY PhaseWillBe
<1>3. DataOf(b) \in States /\ DataOf(b)' \in KeptOne(b)
  BY DataIs, DataWillBe DEF KeepsData, KeptOne
<1>4. MovesOne(b, Contract!Phases \ {"absent"}, "failed", States, KeptOne(b))
  BY <1>1, <1>2, <1>3 DEF MovesOne
<1>5. QED
  BY <1>4 DEF OneStep

\* A step of a create or recreate on the datasets.
LEMMA WorksOnData ==
    ASSUME TypeOK, TypeOK', NEW b \in Branches,
           SameCall(b), reg'[b] = reg[b],
           \/ row[b].state = "creating"
           \/ row[b].state = "resetting" /\ (KeepsData(b) \/ task[b].wasError)
    PROVE  OneStep(b)
<1>1. row[b].state # "absent" /\ row'[b].state # "absent"
  BY DEF SameCall
<1>2. DataOf(b) \in States /\ DataOf(b)' \in States
  BY DataIs, DataWillBe
<1>3. CASE row[b].state = "resetting" /\ Replacing(b)
  <2>1. PhaseOf(b) = "replacing" /\ PhaseOf(b)' = "replacing"
    BY <1>3, PhaseIs, PhaseWillBe DEF SameCall
  <2>2. KeepsData(b)
    BY <1>3 DEF Replacing
  <2>3. DataOf(b)' \in KeptOne(b)
    BY <1>1, <1>2, <2>2, DataIs, DataWillBe DEF KeepsData, KeptOne
  <2>4. MovesOne(b, {"replacing"}, "replacing", States, KeptOne(b))
    BY <1>2, <2>1, <2>3 DEF MovesOne
  <2>5. QED
    BY <2>4 DEF OneStep
<1>4. CASE ~(row[b].state = "resetting" /\ Replacing(b))
  <2>1. PhaseOf(b) = "settling" /\ PhaseOf(b)' = "settling"
    BY <1>4, PhaseIs, PhaseWillBe DEF SameCall
  <2>2. MovesOne(b, {"settling"}, "settling", States, States)
    BY <1>2, <2>1 DEF MovesOne
  <2>3. QED
    BY <2>2 DEF OneStep
<1>5. QED
  BY <1>3, <1>4

\* A call that goes on to its next step.
LEMMA GotoSame ==
    ASSUME TypeOK, NEW b \in Branches, NEW pc, Goto(b, pc), pc # "idle",
           Locked(b), row'[b].state = row[b].state
    PROVE  SameCall(b)
BY GotoEffect DEF SameCall, Replacing, Locked

\* An engine that is started, stopped or killed changes no dataset.
LEMMA EngineSame ==
    ASSUME TypeOK, NEW b \in Branches, EngineUp(b) \/ EngineStop(b),
           stash'[b] = stash[b]
    PROVE  SameData(b)
BY EngineEffect DEF SameData, Whole

\* failOp, when the data are still there.
LEMMA FailOpStep ==
    ASSUME TypeOK, TypeOK', NEW b \in Branches, NEW stage, FailOp(b, stage),
           row[b].state # "absent", KeepsData(b), reg'[b] = reg[b]
    PROVE  OneStep(b)
BY EndsInError, FailOpEffect

\* Which rows the calls that go on belong to.
LEMMA HeldRow ==
    ASSUME TypeOK, NEW b \in Branches, CallFits(b), Locked(b)
    PROVE  row[b].state # "absent"
BY DEF CallFits, TypeOK, Tasks, Paths, Locked

\* The first two starts and the last, when they are a call's step.
LEMMA BootStep ==
    ASSUME TypeOK, TypeOK', NEW b \in Branches, Fits(b),
           NEW pc, NEW next, Boot(b, pc, next), pc # "idle", next # "idle"
    PROVE  OneStep(b)
<1>1. Locked(b) /\ row[b].state # "absent" /\ reg'[b] = reg[b] /\ stash'[b] = stash[b]
  BY HeldRow DEF Boot, At, Locked, Fits
<1>2. CASE EngineUp(b) /\ Goto(b, next) /\ UNCHANGED row
  BY <1>1, <1>2, GotoSame, EngineSame, GoesOn
<1>3. CASE FailOp(b, "engine-start") /\ UNCHANGED <<eng, vol>>
  BY <1>1, <1>3, FailOpStep DEF KeepsData
<1>4. CASE FailOp(b, "engine-ready") /\ EngineUp(b)
  <2>1. KeepsData(b)
    BY <1>1, <1>4, EngineSame DEF KeepsData, SameData
  <2>2. QED
    BY <1>1, <1>4, <2>1, FailOpStep
<1>5. QED
  BY <1>2, <1>3, <1>4 DEF Boot, BootFails

-----------------------------------------------------------------------------
(***************************************************************************)
(* Actions                                                                 *)
(***************************************************************************)

\* st.Clone of the origin: under the branch's name there was nothing.
LEMMA CloneMoves ==
    ASSUME TypeOK, TypeOK', NEW b \in Branches, Fits(b), Clone(b)
    PROVE  OneStep(b)
<1>1. Locked(b) /\ row[b].state # "absent" /\ reg'[b] = reg[b] /\ stash'[b] = stash[b]
  BY HeldRow DEF Clone, At, Locked, Fits
<1>2. vol'[b] = vol[b] \/ (~vol[b].exists /\ vol'[b] = NewClone)
  BY Values DEF Clone
<1>3. SameData(b)
  BY <1>1, <1>2 DEF SameData, Whole, NewClone, NoVolume
<1>4. CASE \E pc \in {"quota", "restore"} : Goto(b, pc) /\ UNCHANGED row
  BY <1>1, <1>3, <1>4, GotoSame, GoesOn
<1>5. CASE FailOp(b, "clone")
  BY <1>1, <1>3, <1>5, FailOpStep DEF KeepsData, SameData
<1>6. QED
  BY <1>4, <1>5 DEF Clone, CloneFailed

\* recreateFrom's way back: what was set aside is here again.
LEMMA RestoreStashMoves ==
    ASSUME TypeOK, TypeOK', NEW b \in Branches, Fits(b), RestoreStash(b)
    PROVE  OneStep(b)
<1>1. row[b].state # "absent" /\ reg'[b] = reg[b]
  BY HeldRow DEF RestoreStash, At, Locked, Fits
<1>2. \/ /\ ~vol[b].exists
         /\ vol'[b].exists = stash[b].exists /\ vol'[b].init = stash[b].init
      \/ vol'[b] = vol[b] /\ stash'[b] = stash[b]
  BY Values DEF RestoreStash, Volumes
<1>3. KeepsData(b)
  BY <1>2 DEF KeepsData, Whole
<1>4. QED
  BY <1>1, <1>3, FailOpStep DEF RestoreStash

\* applyQuota.
LEMMA QuotaMoves ==
    ASSUME TypeOK, TypeOK', NEW b \in Branches, Fits(b), Quota(b)
    PROVE  OneStep(b)
<1>1. Locked(b) /\ row[b].state # "absent" /\ reg'[b] = reg[b] /\ SameData(b)
  BY HeldRow DEF Quota, At, Locked, Fits, SameData
<1>2. CASE \E pc \in {"boot1", "init"} : Goto(b, pc) /\ UNCHANGED row
  BY <1>1, <1>2, GotoSame, GoesOn
<1>3. CASE FailOp(b, "quota")
  BY <1>1, <1>3, FailOpStep DEF KeepsData, SameData
<1>4. QED
  BY <1>2, <1>3 DEF Quota

\* The start before the hook.
LEMMA BootForHookMoves ==
    ASSUME TypeOK, TypeOK', NEW b \in Branches, Fits(b), BootForHook(b)
    PROVE  OneStep(b)
BY BootStep DEF BootForHook

\* The hook.
LEMMA HookMoves ==
    ASSUME TypeOK, TypeOK', NEW b \in Branches, Fits(b), Hook(b)
    PROVE  OneStep(b)
<1>1. Locked(b) /\ row[b].state # "absent" /\ reg'[b] = reg[b] /\ SameData(b)
  BY HeldRow DEF Hook, At, Locked, Fits, SameData
<1>2. CASE Goto(b, "stop") /\ UNCHANGED row
  BY <1>1, <1>2, GotoSame, GoesOn
<1>3. CASE FailOp(b, "hook")
  BY <1>1, <1>3, FailOpStep DEF KeepsData, SameData
<1>4. QED
  BY <1>2, <1>3 DEF Hook

\* The stop before @init.
LEMMA StopForInitMoves ==
    ASSUME TypeOK, TypeOK', NEW b \in Branches, Fits(b), StopForInit(b)
    PROVE  OneStep(b)
<1>1. Locked(b) /\ row[b].state # "absent" /\ reg'[b] = reg[b] /\ stash'[b] = stash[b]
  BY HeldRow DEF StopForInit, At, Locked, Fits
<1>2. CASE EngineStop(b) /\ Goto(b, "init") /\ UNCHANGED row
  BY <1>1, <1>2, GotoSame, EngineSame, GoesOn
<1>3. CASE FailOp(b, "engine-stop") /\ UNCHANGED vol
  BY <1>1, <1>3, FailOpStep DEF KeepsData
<1>4. QED
  BY <1>2, <1>3 DEF StopForInit

\* @init makes the volume whole.
LEMMA SnapshotInitMoves ==
    ASSUME TypeOK, TypeOK', NEW b \in Branches, Fits(b), SnapshotInit(b)
    PROVE  OneStep(b)
<1>1. Locked(b) /\ row[b].state # "absent" /\ reg'[b] = reg[b] /\ stash'[b] = stash[b]
  BY HeldRow DEF SnapshotInit, At, Locked, Fits
<1>2. row[b].state \in {"creating", "resetting"}
  BY Values DEF SnapshotInit, At, Fits, CallFits, Tasks, Paths
<1>3. CASE /\ vol[b].exists /\ vol' = [vol EXCEPT ![b].init = Taken(vol[b])]
           /\ Goto(b, "boot2") /\ UNCHANGED row
  <2>1. Whole(vol'[b])
    BY <1>3, Values DEF Whole, Taken, Volumes
  <2>2. KeepsData(b)
    BY <2>1 DEF KeepsData
  <2>3. QED
    BY <1>1, <1>2, <1>3, <2>2, GotoSame, WorksOnData
<1>4. CASE FailOp(b, "snapshot") /\ UNCHANGED vol
  BY <1>1, <1>4, FailOpStep DEF KeepsData
<1>5. QED
  BY <1>3, <1>4 DEF SnapshotInit

\* The last start.
LEMMA BootForUseMoves ==
    ASSUME TypeOK, TypeOK', NEW b \in Branches, Fits(b), BootForUse(b)
    PROVE  OneStep(b)
BY BootStep DEF BootForUse

\* SetState(running): the data are in place.
LEMMA MarkRunningMoves ==
    ASSUME TypeOK, TypeOK', NEW b \in Branches, Fits(b), MarkRunning(b)
    PROVE  OneStep(b)
<1>1. /\ row'[b].state = "running" /\ SameData(b) /\ reg'[b] = reg[b]
      /\ Whole(vol[b]) /\ Whole(vol'[b])
  BY SetRowEffect
  DEF MarkRunning, RowIn, SameData, Whole, At, Fits, VolumeFits
<1>2. row[b].state \in {"creating", "resetting", "running"}
  BY Values DEF MarkRunning, At, Fits, CallFits, Tasks, Paths
<1>3. CASE row[b].state = "running"
  BY <1>1, <1>3, StaysReady
<1>4. CASE row[b].state \in {"creating", "resetting"}
  <2>1. PhaseOf(b) \in {"replacing", "settling"} /\ PhaseOf(b)' = "ready"
    BY <1>1, <1>4, PhaseIs, PhaseWillBe
  <2>2. DataOf(b) = "here" /\ DataOf(b)' = "here"
    BY <1>1, <1>4, DataIs, DataWillBe
  <2>3. MovesOne(b, {"replacing", "settling"}, "ready", {"here"}, {"here"})
    BY <1>1, <2>1, <2>2 DEF MovesOne
  <2>4. QED
    BY <2>3 DEF OneStep
<1>5. QED
  BY <1>2, <1>3, <1>4

\* recreateFrom kills the engine of the old volume.
LEMMA KillOldMoves ==
    ASSUME TypeOK, TypeOK', NEW b \in Branches, Fits(b), KillOld(b)
    PROVE  OneStep(b)
<1>1. reg'[b] = reg[b] /\ SameData(b) /\ row'[b] = row[b] /\ Locked(b)
  BY DEF KillOld, SameData, At, Locked
<1>2. task'[b].pc = "stale" /\ task'[b].wasError = task[b].wasError
  <2>1. CASE Goto(b, "stale")
    BY <2>1, GotoEffect
  <2>2. CASE task' = [task EXCEPT ![b].pc = "stale", ![b].hasOld = TRUE]
    BY <2>2, Values DEF Tasks
  <2>3. QED
    BY <2>1, <2>2 DEF KillOld
<1>3. SameCall(b)
  BY <1>1, <1>2 DEF SameCall, Replacing, Locked
<1>4. QED
  BY <1>1, <1>3, GoesOn

\* Only a call that set out from an error drops what was set aside before.
LEMMA DropStaleMoves ==
    ASSUME TypeOK, TypeOK', NEW b \in Branches, Fits(b), DropStale(b)
    PROVE  OneStep(b)
<1>1. /\ reg'[b] = reg[b] /\ row'[b] = row[b] /\ Locked(b)
      /\ UNCHANGED vol /\ (UNCHANGED stash \/ task[b].wasError)
  BY DEF DropStale, At, Locked
<1>2. row[b].state = "resetting"
  BY Values DEF DropStale, At, Fits, CallFits, Tasks, Paths
<1>3. SameCall(b)
  BY <1>1, GotoSame DEF DropStale
<1>4. KeepsData(b) \/ task[b].wasError
  BY <1>1 DEF KeepsData
<1>5. QED
  BY <1>1, <1>2, <1>3, <1>4, WorksOnData

\* The rename sets the data aside.
LEMMA StashOldMoves ==
    ASSUME TypeOK, TypeOK', NEW b \in Branches, Fits(b), StashOld(b)
    PROVE  OneStep(b)
<1>1. Locked(b) /\ row[b].state = "resetting" /\ reg'[b] = reg[b]
  BY Holder DEF StashOld, At, Locked, Fits
<1>2. KeepsData(b)
  <2>1. CASE ~stash[b].exists /\ MoveToStash(b)
    BY <2>1, MoveEffect DEF KeepsData, Whole
  <2>2. CASE UNCHANGED <<vol, stash>>
    BY <2>2 DEF KeepsData
  <2>3. QED
    BY <2>1, <2>2 DEF StashOld
<1>3. CASE Goto(b, "clone") /\ UNCHANGED row
  BY <1>1, <1>2, <1>3, GotoSame, WorksOnData
<1>4. CASE FailOp(b, "stash")
  BY <1>1, <1>2, <1>4, FailOpStep
<1>5. QED
  BY <1>3, <1>4 DEF StashOld

\* The old data go when the new are in place.
LEMMA DropOldMoves ==
    ASSUME TypeOK, TypeOK', NEW b \in Branches, Fits(b), DropOld(b)
    PROVE  OneStep(b)
<1>1. /\ reg'[b] = reg[b] /\ row'[b] = row[b] /\ Locked(b)
      /\ Whole(vol[b]) /\ vol'[b] = vol[b]
  BY DEF DropOld, At, Locked, Whole, Fits, VolumeFits
<1>2. row[b].state = "resetting"
  BY Values DEF DropOld, At, Fits, CallFits, Tasks, Paths
<1>3. SameCall(b)
  BY <1>1, GotoSame DEF DropOld
<1>4. QED
  BY <1>1, <1>2, <1>3, WorksOnData DEF KeepsData

\* The rollback leaves @init.
LEMMA RollbackMoves ==
    ASSUME TypeOK, TypeOK', NEW b \in Branches, Fits(b), Rollback(b)
    PROVE  OneStep(b)
<1>1. Locked(b) /\ row[b].state # "absent" /\ reg'[b] = reg[b] /\ stash'[b] = stash[b]
  BY HeldRow DEF Rollback, At, Locked, Fits
<1>2. vol'[b].exists = vol[b].exists /\ vol'[b].init = vol[b].init
  <2>1. CASE UNCHANGED vol
    BY <2>1
  <2>2. CASE vol' = [vol EXCEPT ![b].clean = vol[b].init = "clean" /\ ~eng'[b],
                                ![b].base = "none"]
    BY <2>2, Values DEF Volumes
  <2>3. QED
    BY <2>1, <2>2 DEF Rollback
<1>3. SameData(b)
  BY <1>1, <1>2 DEF SameData, Whole
<1>4. CASE Goto(b, "boot2") /\ UNCHANGED row
  BY <1>1, <1>3, <1>4, GotoSame, GoesOn
<1>5. CASE FailOp(b, "rollback")
  BY <1>1, <1>3, <1>5, FailOpStep DEF KeepsData, SameData
<1>6. QED
  BY <1>4, <1>5 DEF Rollback

\* zfs destroy, or an error that leaves the dataset.
LEMMA DestroyMoves ==
    ASSUME TypeOK, TypeOK', NEW b \in Branches, Fits(b), Destroy(b)
    PROVE  OneStep(b)
<1>1. row[b].state = "deleting" /\ reg'[b] = reg[b] /\ stash'[b] = stash[b]
  BY Holder DEF Destroy, At, Fits
<1>2. CASE vol' = [vol EXCEPT ![b] = NoVolume] /\ UNCHANGED row
  <2>1. ~Whole(vol'[b])
    BY <1>2, Values DEF Whole, NoVolume
  <2>2. PhaseOf(b) = "deleting" /\ PhaseOf(b)' = "deleting"
    BY <1>1, <1>2, PhaseIs, PhaseWillBe
  <2>3. DataOf(b) \in States /\ DataOf(b)' \in States \ {"here"}
    BY <1>1, <1>2, <2>1, DataIs, DataWillBe
  <2>4. MovesOne(b, {"deleting"}, "deleting", States, States \ {"here"})
    BY <1>1, <2>2, <2>3 DEF MovesOne
  <2>5. QED
    BY <2>4 DEF OneStep
<1>3. CASE (EngineStop(b) \/ UNCHANGED vol) /\ DestroyFailed(b)
  <2>1. row'[b].state = "error"
    BY <1>3, SetRowEffect DEF DestroyFailed, ErrorRow
  <2>2. KeepsData(b)
    BY <1>1, <1>3, EngineSame DEF KeepsData, SameData
  <2>3. QED
    BY <1>1, <2>1, <2>2, EndsInError
<1>4. QED
  BY <1>2, <1>3 DEF Destroy

\* Forgetting a name whose dataset is gone.
LEMMA NameDropped ==
    ASSUME TypeOK, TypeOK', NEW b \in Branches, ~reg[b], reg'[b] = reg[b],
           row[b].state \in {"deleting", "error"}, ~Whole(vol[b]),
           row'[b].state = "absent"
    PROVE  OneStep(b)
<1>1. /\ PhaseOf(b) \in {"deleting", "failed"} /\ PhaseOf(b)' = "absent"
  BY PhaseIs, PhaseWillBe
<1>2. DataOf(b) \in States \ {"here"} /\ DataOf(b)' = "none"
  BY DataIs, DataWillBe
<1>3. CASE PhaseOf(b) = "deleting"
  <2>1. MovesOne(b, {"deleting"}, "absent", States \ {"here"}, {"none"})
    BY <1>1, <1>2, <1>3 DEF MovesOne
  <2>2. QED
    BY <2>1 DEF OneStep
<1>4. CASE PhaseOf(b) = "failed"
  <2>1. MovesOne(b, {"failed"}, "absent", States \ {"here"}, {"none"})
    BY <1>1, <1>2, <1>4 DEF MovesOne
  <2>2. QED
    BY <2>1 DEF OneStep
<1>5. QED
  BY <1>1, <1>3, <1>4

\* Delete removes the row.
LEMMA DropRowMoves ==
    ASSUME TypeOK, TypeOK', NEW b \in Branches, Fits(b), DropRow(b)
    PROVE  OneStep(b)
<1>1. task[b].path = "delete" /\ row[b].state = "deleting"
  BY Values DEF DropRow, At, Fits, CallFits, Tasks, Paths
<1>2. ~reg[b] /\ reg'[b] = reg[b] /\ ~Whole(vol[b])
  BY <1>1, Values DEF DropRow, At, Fits, PromotionFits, VolumeFits, Whole
<1>3. row'[b].state = "absent"
  BY SetRowEffect DEF DropRow, RowIn
<1>4. QED
  BY <1>1, <1>2, <1>3, NameDropped

\* Wake finds the engine running.
LEMMA WakeSkipsMoves ==
    ASSUME TypeOK, TypeOK', NEW b \in Branches, Fits(b), WakeSkips(b)
    PROVE  OneStep(b)
BY GotoSame, GoesOn DEF WakeSkips, At, Locked, durable, SameData

\* Wake starts the engine.
LEMMA WakeBootsMoves ==
    ASSUME TypeOK, TypeOK', NEW b \in Branches, Fits(b), WakeBoots(b)
    PROVE  OneStep(b)
BY BootStep DEF WakeBoots

\* Sleep writes the row.
LEMMA MarkSleepingMoves ==
    ASSUME TypeOK, TypeOK', NEW b \in Branches, Fits(b), MarkSleeping(b)
    PROVE  OneStep(b)
<1>1. row[b].state = "running"
  BY Values DEF MarkSleeping, At, Fits, CallFits, Tasks, Paths
<1>2. row'[b].state = "sleeping" /\ SameData(b) /\ reg'[b] = reg[b]
  BY SetRowEffect DEF MarkSleeping, RowIn, SameData
<1>3. QED
  BY <1>1, <1>2, StaysReady

\* The snapshot of promote is none of the client's.
LEMMA PromoteSnapshotMoves ==
    ASSUME TypeOK, TypeOK', NEW b \in Branches, Fits(b), PromoteSnapshot(b)
    PROVE  OneStep(b)
<1>1. Locked(b) /\ row' = row /\ reg'[b] = reg[b]
  BY DEF PromoteSnapshot, At, Locked
<1>2. SameData(b)
  BY Values DEF PromoteSnapshot, SameData, Whole, Volumes
<1>3. SameCall(b)
  BY <1>1, GotoSame DEF PromoteSnapshot
<1>4. QED
  BY <1>1, <1>2, <1>3, GoesOn

\* RegisterBaseline: the branch is ready and has its data.
LEMMA RegisterBaselineMoves ==
    ASSUME TypeOK, TypeOK', NEW b \in Branches, Fits(b), RegisterBaseline(b)
    PROVE  OneStep(b)
<1>1. row[b].state \in {"running", "sleeping"} /\ row' = row
  BY Holder DEF RegisterBaseline, At, Fits
<1>2. Whole(vol[b]) /\ vol' = vol
  BY <1>1 DEF RegisterBaseline, Fits, Resettable, Live, Whole
<1>3. reg'[b] = TRUE
  BY Values DEF RegisterBaseline
<1>4. PhaseOf(b) = "ready" /\ PhaseOf(b)' = "ready"
  BY <1>1, PhaseIs, PhaseWillBe
<1>5. DataOf(b) = "here" /\ DataOf(b)' = "here"
  BY <1>1, <1>2, DataIs, DataWillBe
<1>6. QED
  BY <1>3, <1>4, <1>5 DEF OneStep

\* Promote ends: whatever became of the engine.
LEMMA RestartBranchMoves ==
    ASSUME TypeOK, TypeOK', NEW b \in Branches, Fits(b), RestartBranch(b)
    PROVE  OneStep(b)
<1>1. row[b].state \in {"running", "sleeping"} /\ row' = row
  BY Holder DEF RestartBranch, At, Fits
<1>2. SameData(b) /\ reg'[b] = reg[b]
  BY EngineSame DEF RestartBranch, SameData
<1>3. QED
  BY <1>1, <1>2, StaysReady

\* The first step of a call: the lock is taken, and the error it set out from.
LEMMA BeginEffect ==
    ASSUME TypeOK, NEW b \in Branches, NEW pc, NEW path, NEW name,
           Begin(b, pc, path, name)
    PROVE  task'[b].pc = pc /\ task'[b].wasError = (row[b].state = "error")
BY DEF Begin, TypeOK

\* CreateWithMetaFrom: under a name without a row there is no dataset.
LEMMA CreateMoves ==
    ASSUME TypeOK, TypeOK', NEW b \in Branches, Fits(b), Create(b),
           "resolve" \notin FaultKinds
    PROVE  OneStep(b)
<1>1. /\ row[b].state = "absent" /\ row'[b].state = "creating"
      /\ vol' = vol /\ reg'[b] = reg[b]
  BY SetRowEffect DEF Create, RowIn
<1>2. ~vol[b].exists /\ ~reg[b]
  BY <1>1, Values DEF Fits, Covered, Kept
<1>3. PhaseOf(b) = "absent" /\ PhaseOf(b)' = "settling"
  BY <1>1, PhaseIs, PhaseWillBe
<1>4. DataOf(b) \in States /\ DataOf(b)' \in States \ {"here"}
  BY <1>1, <1>2, DataIs, DataWillBe DEF Whole
<1>5. MovesOne(b, {"absent"}, "settling", States, States \ {"here"})
  BY <1>1, <1>3, <1>4 DEF MovesOne
<1>6. QED
  BY <1>2, <1>5 DEF OneStep

\* Reset, recreate and the retry of a create: a branch that is ready is being
\* replaced, one in error is being settled.
LEMMA ResettingStarts ==
    ASSUME TypeOK, TypeOK', NEW b \in Branches, Fits(b), Callable(b),
           row[b].state # "absent", ~reg[b], reg'[b] = reg[b],
           NEW pc, NEW path, NEW name, pc # "idle",
           SetRow(b, RowIn("resetting")), Begin(b, pc, path, name),
           UNCHANGED <<vol, stash>>
    PROVE  OneStep(b)
<1>1. row[b].state \in {"running", "sleeping", "error"}
  BY PhaseIs DEF Callable, Fits, SettledFits, RowStates
<1>2. row'[b].state = "resetting"
  BY SetRowEffect DEF RowIn
<1>3. Replacing(b)' <=> row[b].state # "error"
  BY BeginEffect DEF Replacing, Locked
<1>4. DataOf(b) \in States /\ DataOf(b)' = DataOf(b)
  BY <1>1, <1>2, DataIs, SameDataSame DEF SameData
<1>5. CASE row[b].state = "error"
  <2>1. PhaseOf(b) = "failed" /\ PhaseOf(b)' = "settling"
    BY <1>2, <1>3, <1>5, PhaseIs, PhaseWillBe
  <2>2. MovesOne(b, {"failed"}, "settling", States, {DataOf(b)})
    BY <1>4, <2>1 DEF MovesOne
  <2>3. QED
    BY <2>2 DEF OneStep
<1>6. CASE row[b].state # "error"
  <2>1. PhaseOf(b) = "ready" /\ PhaseOf(b)' = "replacing"
    BY <1>1, <1>2, <1>3, <1>6, PhaseIs, PhaseWillBe
  <2>2. MovesOne(b, {"ready"}, "replacing", States, {DataOf(b)})
    BY <1>4, <2>1 DEF MovesOne
  <2>3. QED
    BY <2>2 DEF OneStep
<1>7. QED
  BY <1>5, <1>6

\* Reset up to SetState(resetting).
LEMMA ResetMoves ==
    ASSUME TypeOK, TypeOK', NEW b \in Branches, Fits(b), Reset(b)
    PROVE  OneStep(b)
BY ResettingStarts, Values DEF Reset

\* Recreate up to SetState(resetting).
LEMMA RecreateMoves ==
    ASSUME TypeOK, TypeOK', NEW b \in Branches, Fits(b), Recreate(b)
    PROVE  OneStep(b)
BY ResettingStarts, Values DEF Recreate, RecreateFrom

\* retryCreate: a branch without a dataset backs nothing.
LEMMA RetryCreateMoves ==
    ASSUME TypeOK, TypeOK', NEW b \in Branches, Fits(b), RetryCreate(b)
    PROVE  OneStep(b)
<1>1. ~reg[b] /\ row[b].state # "absent"
  BY Values DEF RetryCreate, Fits, Kept
<1>2. QED
  BY <1>1, ResettingStarts DEF RetryCreate, RecreateFrom

\* Delete, or its resumption: of the row alone, or of the dataset first.
LEMMA DeleteBodyMoves ==
    ASSUME TypeOK, TypeOK', NEW b \in Branches, Fits(b), DeleteBody(b),
           row[b].state \notin {"creating", "resetting"},
           "resolve" \notin FaultKinds
    PROVE  OneStep(b)
<1>1. /\ row[b].state \in {"running", "sleeping", "error", "deleting"}
      /\ reg'[b] = reg[b] /\ UNCHANGED <<vol, stash>>
  BY PhaseIs DEF DeleteBody, RowStates, Transitional
<1>2. CASE ~vol[b].exists /\ SetRow(b, RowIn("absent"))
  <2>1. ~reg[b] /\ ~Whole(vol[b])
    BY <1>2, Values DEF Fits, Kept, Whole
  <2>2. row[b].state \in {"error", "deleting"}
    BY <1>1, <1>2 DEF Fits, Resettable, Live
  <2>3. row'[b].state = "absent"
    BY <1>2, SetRowEffect DEF RowIn
  <2>4. QED
    BY <1>1, <2>1, <2>2, <2>3, NameDropped
<1>3. CASE ~reg[b] /\ SetRow(b, RowIn("deleting"))
  <2>1. row'[b].state = "deleting"
    BY <1>3, SetRowEffect DEF RowIn
  <2>2. PhaseOf(b) \in {"ready", "failed", "deleting"} /\ PhaseOf(b)' = "deleting"
    BY <1>1, <2>1, PhaseIs, PhaseWillBe
  <2>3. DataOf(b) \in States /\ DataOf(b)' = DataOf(b)
    BY <1>1, <2>1, DataIs, SameDataSame DEF SameData
  <2>4. CASE PhaseOf(b) = "deleting"
    BY <1>1, <2>2, <2>3, <2>4 DEF OneStep
  <2>5. CASE PhaseOf(b) # "deleting"
    <3>1. MovesOne(b, {"ready", "failed"}, "deleting", States, {DataOf(b)})
      BY <1>1, <2>2, <2>3, <2>5 DEF MovesOne
    <3>2. QED
      BY <1>3, <3>1 DEF OneStep
  <2>6. QED
    BY <2>4, <2>5
<1>4. QED
  BY <1>2, <1>3 DEF DeleteBody, FailsIf, Breaks

\* Delete up to SetState(deleting), or the row alone.
LEMMA DeleteMoves ==
    ASSUME TypeOK, TypeOK', NEW b \in Branches, Fits(b), Delete(b),
           "resolve" \notin FaultKinds
    PROVE  OneStep(b)
<1>1. row[b].state \notin {"creating", "resetting"}
  BY DEF Delete, Callable, Fits, SettledFits, Transitional
<1>2. QED
  BY <1>1, DeleteBodyMoves DEF Delete

\* Wake up to SetState(running).
LEMMA WakeMoves ==
    ASSUME TypeOK, TypeOK', NEW b \in Branches, Fits(b), Wake(b)
    PROVE  OneStep(b)
<1>1. row'[b].state = "running" /\ reg'[b] = reg[b] /\ UNCHANGED <<vol, stash>>
  BY SetRowEffect DEF Wake, RowIn
<1>2. SameData(b)
  BY <1>1 DEF SameData
<1>3. CASE row[b].state \in {"running", "sleeping"}
  BY <1>1, <1>2, <1>3, StaysReady
<1>4. CASE row[b].state = "error" /\ row[b].op = "wake"
  <2>1. Whole(vol[b]) /\ Whole(vol'[b])
    BY <1>1, <1>4 DEF Fits, Resettable, Live, Whole
  <2>2. PhaseOf(b) = "failed" /\ PhaseOf(b)' = "ready"
    BY <1>1, <1>4, PhaseIs, PhaseWillBe
  <2>3. DataOf(b) = "here" /\ DataOf(b)' = "here"
    BY <1>1, <1>4, <2>1, DataIs, DataWillBe
  <2>4. MovesOne(b, {"failed"}, "ready", {"here"}, {"here"})
    BY <1>1, <2>2, <2>3 DEF MovesOne
  <2>5. QED
    BY <2>4 DEF OneStep
<1>5. QED
  BY <1>3, <1>4 DEF Wake

\* Sleep stops the engine.
LEMMA SleepMoves ==
    ASSUME TypeOK, TypeOK', NEW b \in Branches, Fits(b), Sleep(b)
    PROVE  OneStep(b)
BY EngineSame, StaysReady DEF Sleep

\* PromoteBranch stops the engine.
LEMMA PromoteMoves ==
    ASSUME TypeOK, TypeOK', NEW b \in Branches, Fits(b), Promote(b)
    PROVE  OneStep(b)
BY EngineSame, StaysReady DEF Promote

\* Retry that only reads.
LEMMA RetryLooksMoves ==
    ASSUME TypeOK, TypeOK', NEW b \in Branches, RetryReads(b) \/ RetryGivesUp(b)
    PROVE  OneStep(b)
BY GoesOn
DEF RetryReads, RetryGivesUp, durable, SameCall, SameData, Replacing, Locked

\* A baseline of the branch is deleted.
LEMMA RetireBaselineMoves ==
    ASSUME TypeOK, TypeOK', NEW b \in Branches, RetireBaseline(b)
    PROVE  OneStep(b)
<1>1. row' = row /\ task' = task /\ reg'[b] = FALSE
  BY Values DEF RetireBaseline
<1>2. SameData(b)
  BY Values DEF RetireBaseline, SameData, Whole, Volumes
<1>3. PhaseOf(b)' = PhaseOf(b)
  BY <1>1 DEF PhaseOf, Locked
<1>4. DataOf(b)' = DataOf(b)
  BY <1>1, <1>2, SameDataSame, DataIs, DataWillBe
<1>5. QED
  BY <1>1, <1>3, <1>4 DEF OneStep

\* An engine dies.
LEMMA EngineDiesMoves ==
    ASSUME TypeOK, TypeOK', NEW b \in Branches, EngineDies(b)
    PROVE  OneStep(b)
BY GoesOn DEF EngineDies, SameCall, SameData, Replacing, Locked

\* Reconcile resumes a deletion.
LEMMA ReconcileDeleteMoves ==
    ASSUME TypeOK, TypeOK', NEW b \in Branches, Fits(b), ReconcileDelete(b),
           "resolve" \notin FaultKinds
    PROVE  OneStep(b)
BY DeleteBodyMoves DEF ReconcileDelete

\* Reconcile reports an interrupted call.
LEMMA ReconcileInterruptedMoves ==
    ASSUME TypeOK, TypeOK', NEW b \in Branches, ReconcileInterrupted(b)
    PROVE  OneStep(b)
BY SetRowEffect, EndsInError DEF ReconcileInterrupted, ErrorRow, KeepsData

\* Reconcile looks at a settled row.
LEMMA ReconcileSettledMoves ==
    ASSUME TypeOK, TypeOK', NEW b \in Branches, ReconcileSettled(b)
    PROVE  OneStep(b)
<1>1. /\ SameData(b) /\ KeepsData(b) /\ reg'[b] = reg[b]
      /\ task' = task
  BY DEF ReconcileSettled, SameData, KeepsData
<1>2. CASE UNCHANGED row
  BY <1>1, <1>2, GoesOn DEF SameCall, Replacing, Locked
<1>3. CASE row[b].state # "absent" /\ SetRow(b, ErrorRow("reconcile", "dataset_missing"))
  BY <1>1, <1>3, SetRowEffect, EndsInError DEF ErrorRow
<1>4. CASE row[b].state = "running" /\ SetRow(b, RowIn("sleeping"))
  BY <1>1, <1>4, SetRowEffect, StaysReady DEF RowIn
<1>5. QED
  BY <1>2, <1>3, <1>4 DEF ReconcileSettled

\* Every step of a branch is one of the contract's, for that branch.
LEMMA OwnStep ==
    ASSUME TypeOK, TypeOK', NEW b \in Branches, Fits(b),
           \/ Call(b) \/ Proceed(b) \/ RetireBaseline(b)
           \/ EngineDies(b) \/ ReconcileBranch(b),
           "resolve" \notin FaultKinds
    PROVE  OneStep(b)
<1>1. CASE Call(b)
  BY <1>1, CreateMoves, ResetMoves, RecreateMoves, DeleteMoves, WakeMoves,
     SleepMoves, PromoteMoves, RetryLooksMoves, RetryCreateMoves
  DEF Call
<1>2. CASE Proceed(b)
  BY <1>2, CloneMoves, RestoreStashMoves, QuotaMoves, BootForHookMoves,
     HookMoves, StopForInitMoves, SnapshotInitMoves, BootForUseMoves,
     MarkRunningMoves, KillOldMoves, DropStaleMoves, StashOldMoves,
     DropOldMoves, RollbackMoves, DestroyMoves, DropRowMoves,
     WakeSkipsMoves, WakeBootsMoves, MarkSleepingMoves,
     PromoteSnapshotMoves, RegisterBaselineMoves, RestartBranchMoves
  DEF Proceed
<1>3. CASE ReconcileBranch(b)
  BY <1>3, ReconcileDeleteMoves, ReconcileInterruptedMoves,
     ReconcileSettledMoves
  DEF ReconcileBranch
<1>4. QED
  BY <1>1, <1>2, <1>3, RetireBaselineMoves, EngineDiesMoves

-----------------------------------------------------------------------------
(***************************************************************************)
(* All branches                                                            *)
(***************************************************************************)

\* A step that leaves the others alone.
OthersSame(b) ==
    \A c \in Branches \ {b} :
        PhaseOf(c)' = PhaseOf(c) /\ DataOf(c)' = DataOf(c) /\ reg'[c] = reg[c]

\* What a step of another branch cannot reach.
LEMMA OthersUntouched ==
    ASSUME TypeOK, NEW b \in Branches,
           \/ Call(b) \/ Proceed(b) \/ RetireBaseline(b)
           \/ EngineDies(b) \/ ReconcileBranch(b)
    PROVE  OthersSame(b)
<1> SUFFICES ASSUME NEW c \in Branches, c # b
             PROVE  /\ PhaseOf(c)' = PhaseOf(c) /\ DataOf(c)' = DataOf(c)
                    /\ reg'[c] = reg[c]
  BY DEF OthersSame
<1>1. /\ row'[c] = row[c] /\ reg'[c] = reg[c] /\ vol'[c] = vol[c]
      /\ stash'[c] = stash[c] /\ task'[c] = task[c]
  BY StepIsLocal
<1>2. PhaseOf(c)' = PhaseOf(c)
  BY <1>1 DEF PhaseOf, Locked
<1>3. DataOf(c)' = DataOf(c)
  BY <1>1 DEF DataOf
<1>4. QED
  BY <1>1, <1>2, <1>3

\* A move of one branch is a move of the contract.
LEMMA MovesLifted ==
    ASSUME TypeOK, TypeOK', NEW b \in Branches, OthersSame(b),
           NEW from, NEW to, NEW found, NEW left,
           MovesOne(b, from, to, found, left)
    PROVE  Contract!Moves(b, from, to, found, left)
<1>1. reg' = reg
  BY DEF TypeOK, OthersSame, MovesOne
<1>2. [c \in Branches |-> PhaseOf(c)]'
         = [[c \in Branches |-> PhaseOf(c)] EXCEPT ![b] = to]
  BY DEF OthersSame, MovesOne
<1>3. [c \in Branches |-> DataOf(c)]'
         = [[c \in Branches |-> DataOf(c)] EXCEPT ![b] = DataOf(b)']
  BY DEF OthersSame
<1>4. QED
  BY <1>1, <1>2, <1>3 DEF MovesOne, Contract!Moves

\* A step of one branch is a step of the contract, or none.
LEMMA StepLifted ==
    ASSUME TypeOK, TypeOK', NEW b \in Branches, OthersSame(b), OneStep(b)
    PROVE  [Contract!Next]_Contract!vars
<1>1. States = Contract!Data
  BY DEF States, Contract!Data
<1>2. KeptOne(b) = Contract!Kept(b)
  BY <1>1 DEF KeptOne, Contract!Kept
<1>3. SUFFICES Contract!Step(b) \/ UNCHANGED Contract!vars
  BY DEF Contract!Next
<1>4. CASE PhaseOf(b)' = PhaseOf(b) /\ DataOf(b)' = DataOf(b) /\ reg'[b] = reg[b]
  <2>1. reg' = reg
    BY <1>4 DEF TypeOK, OthersSame
  <2>2. QED
    BY <1>4, <2>1 DEF OthersSame, Contract!vars
<1>5. CASE ~reg[b] /\ MovesOne(b, {"absent"}, "settling", States, States \ {"here"})
  BY <1>1, <1>5, MovesLifted DEF Contract!Step, Contract!Create
<1>6. CASE ~reg[b] /\ MovesOne(b, {"ready"}, "replacing", States, {DataOf(b)})
  BY <1>1, <1>6, MovesLifted DEF Contract!Step, Contract!Replace
<1>7. CASE ~reg[b] /\ MovesOne(b, {"failed"}, "settling", States, {DataOf(b)})
  BY <1>1, <1>7, MovesLifted DEF Contract!Step, Contract!Repair
<1>8. CASE ~reg[b] /\ MovesOne(b, {"ready", "failed"}, "deleting", States, {DataOf(b)})
  BY <1>1, <1>8, MovesLifted DEF Contract!Step, Contract!Delete
<1>9. CASE ~reg[b] /\ MovesOne(b, {"failed"}, "absent", States \ {"here"}, {"none"})
  BY <1>1, <1>9, MovesLifted DEF Contract!Step, Contract!Forget
<1>10. CASE MovesOne(b, {"failed"}, "ready", {"here"}, {"here"})
  BY <1>10, MovesLifted DEF Contract!Step, Contract!Wake
<1>11. CASE MovesOne(b, {"replacing"}, "replacing", States, KeptOne(b))
  BY <1>1, <1>2, <1>11, MovesLifted DEF Contract!Step, Contract!Exchange
<1>12. CASE MovesOne(b, {"settling"}, "settling", States, States)
  BY <1>1, <1>12, MovesLifted DEF Contract!Step, Contract!Work
<1>13. CASE MovesOne(b, {"deleting"}, "deleting", States, States \ {"here"})
  BY <1>1, <1>13, MovesLifted DEF Contract!Step, Contract!Destroy
<1>14. CASE MovesOne(b, {"replacing", "settling"}, "ready", {"here"}, {"here"})
  BY <1>14, MovesLifted DEF Contract!Step, Contract!Succeed
<1>15. CASE MovesOne(b, Contract!Phases \ {"absent"}, "failed", States, KeptOne(b))
  BY <1>1, <1>2, <1>15, MovesLifted DEF Contract!Step, Contract!Fail
<1>16. CASE MovesOne(b, {"deleting"}, "absent", States \ {"here"}, {"none"})
  BY <1>1, <1>16, MovesLifted DEF Contract!Step, Contract!Gone
<1>17. CASE /\ PhaseOf(b) = "ready" /\ PhaseOf(b)' = "ready"
            /\ DataOf(b) = "here" /\ DataOf(b)' = "here" /\ reg'[b] = TRUE
  <2>1. reg' = [reg EXCEPT ![b] = TRUE]
    BY <1>17 DEF TypeOK, OthersSame
  <2>2. QED
    BY <1>17, <2>1 DEF OthersSame, Contract!Step, Contract!Pin
<1>18. CASE PhaseOf(b)' = PhaseOf(b) /\ DataOf(b)' = DataOf(b) /\ reg'[b] = FALSE
  <2>1. reg' = [reg EXCEPT ![b] = FALSE]
    BY <1>18 DEF TypeOK, OthersSame
  <2>2. QED
    BY <1>18, <2>1 DEF OthersSame, Contract!Step, Contract!Unpin
<1>19. QED
  BY <1>4, <1>5, <1>6, <1>7, <1>8, <1>9, <1>10, <1>11, <1>12, <1>13, <1>14,
     <1>15, <1>16, <1>17, <1>18 DEF OneStep

\* A stop takes every call's word for what it set out from.
LEMMA CrashInterrupts ==
    ASSUME TypeOK, TypeOK', Crash
    PROVE  Contract!Interrupt
<1>1. /\ row' = row /\ reg' = reg /\ vol' = vol /\ stash' = stash
      /\ \A b \in Branches : ~Locked(b)'
  BY DEF Crash, durable, Locked, Idle
<1>2. ASSUME NEW b \in Branches
      PROVE  /\ PhaseOf(b)' = IF PhaseOf(b) = "replacing" THEN "settling"
                                                           ELSE PhaseOf(b)
             /\ DataOf(b)' = DataOf(b)
  <2>1. DataOf(b)' = DataOf(b)
    BY <1>1 DEF DataOf
  <2>2. ~Replacing(b)' /\ row'[b] = row[b]
    BY <1>1 DEF Replacing, Locked
  <2>3. QED
    BY <2>1, <2>2, PhaseIs, PhaseWillBe DEF RowStates, Transitional
<1>3. QED
  BY <1>1, <1>2 DEF Contract!Interrupt

\* Nothing has been called yet.
LEMMA InitLifted == Init => Contract!Init
<1> SUFFICES ASSUME Init PROVE Contract!Init
  OBVIOUS
<1>1. reg = [b \in Branches |-> FALSE]
  BY DEF Init
<1>2. \A b \in Branches : PhaseOf(b) = "absent" /\ DataOf(b) = "none"
  BY DEF Init, PhaseOf, DataOf, RowIn
<1>3. QED
  BY <1>1, <1>2 DEF Contract!Init

\* Every step of the program is a step of the contract, or none.
LEMMA NextLifted ==
    ASSUME "resolve" \notin FaultKinds
    PROVE  LifecycleInv /\ LifecycleInv' /\ [Next]_vars
               => [Contract!Next]_Contract!vars
<1> SUFFICES ASSUME LifecycleInv, LifecycleInv', [Next]_vars
             PROVE  [Contract!Next]_Contract!vars
  OBVIOUS
<1>1. TypeOK /\ TypeOK' /\ \A b \in Branches : Fits(b)
  BY DEF LifecycleInv
<1>2. ASSUME NEW b \in Branches,
             \/ Call(b) \/ Proceed(b) \/ RetireBaseline(b)
             \/ EngineDies(b) \/ ReconcileBranch(b)
      PROVE  [Contract!Next]_Contract!vars
  BY <1>1, <1>2, OwnStep, OthersUntouched, StepLifted
<1>3. CASE Crash
  BY <1>1, <1>3, CrashInterrupts DEF Contract!Next
<1>4. CASE ReconcileDone \/ UNCHANGED vars
  <2>1. UNCHANGED <<row, reg, vol, stash, task>>
    BY <1>4 DEF ReconcileDone, durable, vars
  <2>2. \A b \in Branches : PhaseOf(b)' = PhaseOf(b) /\ DataOf(b)' = DataOf(b)
    BY <2>1 DEF PhaseOf, DataOf, Locked
  <2>3. QED
    BY <2>1, <2>2 DEF Contract!vars
<1>5. QED
  BY <1>2, <1>3, <1>4 DEF Next

\* What manager.go does to a branch is for a client a step of the contract or
\* no step at all, whatever fails and wherever sashikid stops: data are lost
\* only to a deletion or to the repair of a branch in error, and a branch that
\* backs a baseline is left alone.
THEOREM ContractKept ==
    ASSUME "resolve" \notin FaultKinds
    PROVE  Spec => Contract!Safety
<1>1. LifecycleInv /\ LifecycleInv' /\ [Next]_vars => [Contract!Next]_Contract!vars
  BY NextLifted
<1>2. QED
  BY <1>1, InitLifted, LifecycleInvariant, PTL DEF Spec, Contract!Safety
=============================================================================
