-------------------------- MODULE BranchLifecycle --------------------------
(***************************************************************************)
(* The branch lifecycle of workspace.Manager on a backend with fixed       *)
(* volume names and a fast rollback (ebs-zfs): create, reset, recreate,    *)
(* delete, wake, sleep, promote and retry, each as the steps between which *)
(* sashikid can stop, and Reconcile, which runs at the next start.         *)
(*                                                                         *)
(* What survives a stop of sashikid: the rows of state.db (row, reg), the  *)
(* volumes (vol, stash) and the database engines, which are units of       *)
(* their own (eng).  What does not: the calls in progress (task), which    *)
(* hold the branch lock, and the decisions taken outside it (retrying).    *)
(*                                                                         *)
(* A branch lock is held from the first step of a call to its last, so     *)
(* there is one task per branch; task[b].pc = "idle" means unlocked.       *)
(***************************************************************************)
EXTENDS Naturals, FiniteSets

CONSTANTS
    Branches,      \* branch names
    MaxBranches,   \* cfg.MaxBranches, 0 = no limit
    MaxRunning,    \* cfg.MaxRunning, 0 = no limit
    FaultKinds,    \* the external commands that may fail in this instance
    MaxFaults,     \* bound: how many commands fail in a behaviour
    MaxDeaths,     \* bound: how many engines die on their own
    MaxCrashes     \* bound: how often sashikid stops

\* Every external command a call depends on.  "cloneThenGet" and
\* "renameThenGet" are the second half of zfs.Clone and zfs.Rename: the
\* dataset was changed and reading its mountpoint failed.  "resolve" is the
\* same read in ResolveVolume, failing although the dataset is there; where
\* the call then returns without having changed anything there is no step.
AllFaults ==
    {"clone", "cloneThenGet", "quota", "engineStart", "engineReady", "hook",
     "engineStop", "engineKill", "snapshot", "rename", "renameThenGet",
     "rollback", "destroy", "resolve"}

ASSUME LimitsAssumption ==
    /\ MaxBranches \in Nat
    /\ MaxRunning \in Nat
    /\ MaxFaults \in Nat
    /\ MaxDeaths \in Nat
    /\ MaxCrashes \in Nat
    /\ FaultKinds \subseteq AllFaults
    /\ IsFiniteSet(Branches)

VARIABLES
    row,       \* the row of state.db: state, failed_operation, failed stage
    reg,       \* is a snapshot on the branch's dataset a registered baseline?
    vol,       \* the dataset branch_parent/<name>
    stash,     \* the dataset branch_parent/<name>-recreating
    eng,       \* the engine instance of the branch
    task,      \* the call that holds the branch lock
    retrying,  \* a Retry has read a failed create and waits for the lock
    mode,      \* "serving", or "recovering" while Reconcile runs
    todo,      \* branches Reconcile has not looked at
    faults, deaths, crashes

durable == <<row, reg, vol, stash, eng>>
daemon  == <<mode, todo>>
budget  == <<faults, deaths, crashes>>
vars    == <<durable, task, retrying, daemon, budget>>

-----------------------------------------------------------------------------
(***************************************************************************)
(* Data                                                                    *)
(***************************************************************************)

Transitional == {"creating", "resetting", "deleting"}
RowStates    == {"absent", "running", "sleeping", "error"} \cup Transitional
Operations   == {"none", "create", "reset", "recreate", "wake", "reconcile"}
Stages       == {"none", "clone", "quota", "engine-start", "engine-ready",
                 "hook", "engine-stop", "snapshot", "rollback", "stash",
                 "interrupted", "dataset_missing"}
Rows         == [state : RowStates, op : Operations, stage : Stages]

\* SetState clears the failure columns, SetError fills them.
RowIn(s)            == [state |-> s, op |-> "none", stage |-> "none"]
ErrorRow(op, stage) == [state |-> "error", op |-> op, stage |-> stage]

\* classify, and the recoverable argument of Reconcile's two SetError calls.
Recoverable(r) ==
    r.state = "error" /\ r.stage \notin {"none", "snapshot", "dataset_missing"}

\* A dataset: was its datadir closed by a clean shutdown, what is its @init
\* snapshot worth, and what is the snapshot promote took on it worth.
Snapshots == {"none", "clean", "dirty"}
Volumes   == [exists : BOOLEAN, clean : BOOLEAN,
              init : Snapshots, base : Snapshots]
NoVolume  == [exists |-> FALSE, clean |-> TRUE, init |-> "none", base |-> "none"]
NewClone  == [NoVolume EXCEPT !.exists = TRUE]
Taken(v)  == IF v.clean THEN "clean" ELSE "dirty"

Pcs   == {"idle", "clone", "restore", "quota", "boot1", "hook", "stop", "init",
          "boot2", "dropOld", "done", "kill", "stale", "stash", "rollback",
          "destroy", "dropRow", "wake", "sleep", "snap", "register", "restart"}
Paths == {"none", "create", "recreate", "reset", "delete", "wake", "sleep",
          "promote"}
Tasks == [pc : Pcs, path : Paths, name : Operations,
          hasOld : BOOLEAN, wasError : BOOLEAN]
Idle  == [pc |-> "idle", path |-> "none", name |-> "none",
          hasOld |-> FALSE, wasError |-> FALSE]

-----------------------------------------------------------------------------
(***************************************************************************)
(* Steps of a call                                                         *)
(***************************************************************************)

Locked(b) == task[b].pc # "idle"
At(b, pc) == task[b].pc = pc
Present   == {b \in Branches : row[b].state # "absent"}
Counted   == {b \in Branches :
                row[b].state \in {"running", "creating", "resetting"}}

\* Variant: creating and resetting branches are not counted.
AdmitRunningOnly ==
    MaxRunning = 0 \/ Cardinality({b \in Branches : row[b].state = "running"}) < MaxRunning

\* admitMemory; the memory and storage checks only ever refuse.
AdmitMemory == MaxRunning = 0 \/ Cardinality(Counted) < MaxRunning

Works        == UNCHANGED faults
Breaks(kind) == kind \in FaultKinds /\ faults < MaxFaults /\ faults' = faults + 1
\* A command that cannot succeed when cond holds, and may fail when it does not.
FailsIf(cond, kind) == IF cond THEN Works ELSE Breaks(kind)

SetRow(b, r) == row' = [row EXCEPT ![b] = r]
Goto(b, pc)  == task' = [task EXCEPT ![b].pc = pc]
Release(b)   == task' = [task EXCEPT ![b] = Idle]
Begin(b, pc, path, name) ==
    task' = [task EXCEPT ![b] =
        [pc |-> pc, path |-> path, name |-> name, hasOld |-> FALSE,
         wasError |-> row[b].state = "error"]]

\* Variant: the stage is taken from the program counter.
FailOpRecordsPc(b, stage) == SetRow(b, ErrorRow(task[b].name, task[b].pc)) /\ Release(b)
\* Variant: the error is returned and not recorded.
FailOpForgets(b, stage) == Release(b) /\ UNCHANGED row

\* failOp: record the failed operation and stage, return, unlock.
FailOp(b, stage) == SetRow(b, ErrorRow(task[b].name, stage)) /\ Release(b)

\* eng.Start and WaitReady.
EngineUp(b)   == /\ eng' = [eng EXCEPT ![b] = TRUE]
                 /\ vol' = [vol EXCEPT ![b].clean = FALSE]
\* eng.Stop: the shutdown is clean only if there was an engine to shut down.
EngineStop(b) == /\ eng' = [eng EXCEPT ![b] = FALSE]
                 /\ vol' = [vol EXCEPT ![b].clean = eng[b] \/ vol[b].clean]
EngineKill(b) == eng' = [eng EXCEPT ![b] = FALSE]
\* eng.Kill where its result is ignored: the engine may survive it.
KillSurvived(b) == eng[b] /\ Breaks("engineKill") /\ UNCHANGED eng

BootFails(b) ==
    \/ /\ FailsIf(~vol[b].exists, "engineStart")
       /\ FailOp(b, "engine-start")
       /\ UNCHANGED <<eng, vol>>
    \/ /\ vol[b].exists
       /\ Breaks("engineReady")
       /\ FailOp(b, "engine-ready")
       /\ EngineUp(b)

Boot(b, pc, next) ==
    /\ At(b, pc)
    /\ \/ /\ vol[b].exists
          /\ Works
          /\ EngineUp(b)
          /\ Goto(b, next)
          /\ UNCHANGED row
       \/ BootFails(b)
    /\ UNCHANGED <<reg, stash, retrying, daemon, deaths, crashes>>

\* A caller can take the branch lock.
Callable(b) == mode = "serving" /\ ~Locked(b)

-----------------------------------------------------------------------------
(***************************************************************************)
(* Create, and the provisioning steps recreateFrom shares with it          *)
(***************************************************************************)

Create(b) ==
    /\ Callable(b)
    /\ row[b].state = "absent"
    /\ MaxBranches = 0 \/ Cardinality(Present) < MaxBranches
    /\ AdmitMemory
    /\ SetRow(b, RowIn("creating"))
    /\ Begin(b, "clone", "create", "create")
    /\ UNCHANGED <<reg, vol, stash, eng, retrying, daemon, budget>>

\* Variant: the volume moved aside stays where it is.
CloneFailedAlone(b) == FailOp(b, "clone")

CloneFailed(b) ==
    IF task[b].hasOld
      THEN Goto(b, "restore") /\ UNCHANGED row
      ELSE FailOp(b, "clone")

Clone(b) ==
    /\ At(b, "clone")
    /\ \/ /\ ~vol[b].exists
          /\ Works
          /\ vol' = [vol EXCEPT ![b] = NewClone]
          /\ Goto(b, "quota")
          /\ UNCHANGED row
       \/ /\ FailsIf(vol[b].exists, "clone")
          /\ CloneFailed(b)
          /\ UNCHANGED vol
       \/ /\ ~vol[b].exists
          /\ Breaks("cloneThenGet")
          /\ vol' = [vol EXCEPT ![b] = NewClone]
          /\ CloneFailed(b)
    /\ UNCHANGED <<reg, stash, eng, retrying, daemon, deaths, crashes>>

\* Variant: a create without a hook starts the engine and takes no @init.
QuotaSkipsInit(b) ==
    /\ At(b, "quota")
    /\ \E next \in {"boot1", "boot2"} : Goto(b, next)
    /\ UNCHANGED <<durable, retrying, daemon, budget>>
\* Variant: recreate drops the old volume once the new one has its quota.
QuotaDropsOld(b) ==
    /\ At(b, "quota")
    /\ Goto(b, IF task[b].path = "create" THEN "init" ELSE "dropOld")
    /\ UNCHANGED <<durable, retrying, daemon, budget>>

\* applyQuota; create goes straight to @init when there is no on-create hook.
Quota(b) ==
    /\ At(b, "quota")
    /\ \/ /\ Works
          /\ \E next \in IF task[b].path = "create" THEN {"boot1", "init"}
                                                    ELSE {"boot1"} :
                Goto(b, next)
          /\ UNCHANGED row
       \/ /\ FailsIf(~vol[b].exists, "quota")
          /\ FailOp(b, "quota")
    /\ UNCHANGED <<reg, vol, stash, eng, retrying, daemon, deaths, crashes>>

BootForHook(b) == Boot(b, "boot1", "hook")

\* Variant: the snapshot is taken under the running engine.
HookThenSnapshot(b) ==
    /\ At(b, "hook")
    /\ Goto(b, "init")
    /\ UNCHANGED <<durable, retrying, daemon, budget>>

Hook(b) ==
    /\ At(b, "hook")
    /\ \/ /\ Works
          /\ Goto(b, "stop")
          /\ UNCHANGED row
       \/ /\ Breaks("hook")
          /\ FailOp(b, "hook")
    /\ UNCHANGED <<reg, vol, stash, eng, retrying, daemon, deaths, crashes>>

StopForInit(b) ==
    /\ At(b, "stop")
    /\ \/ /\ Works
          /\ EngineStop(b)
          /\ Goto(b, "init")
          /\ UNCHANGED row
       \/ /\ Breaks("engineStop")
          /\ FailOp(b, "engine-stop")
          /\ UNCHANGED <<eng, vol>>
    /\ UNCHANGED <<reg, stash, retrying, daemon, deaths, crashes>>

SnapshotInit(b) ==
    /\ At(b, "init")
    /\ \/ /\ vol[b].exists
          /\ vol[b].init = "none"
          /\ Works
          /\ vol' = [vol EXCEPT ![b].init = Taken(vol[b])]
          /\ Goto(b, "boot2")
          /\ UNCHANGED row
       \/ /\ FailsIf(~vol[b].exists \/ vol[b].init # "none", "snapshot")
          /\ FailOp(b, "snapshot")
          /\ UNCHANGED vol
    /\ UNCHANGED <<reg, stash, eng, retrying, daemon, deaths, crashes>>

\* The last start of create, reset and recreate.
BootForUse(b) ==
    Boot(b, "boot2", IF task[b].path = "recreate" THEN "dropOld" ELSE "done")

MarkRunning(b) ==
    /\ At(b, "done")
    /\ SetRow(b, RowIn("running"))
    /\ Release(b)
    /\ UNCHANGED <<reg, vol, stash, eng, retrying, daemon, budget>>

-----------------------------------------------------------------------------
(***************************************************************************)
(* Recreate and recreateFrom                                               *)
(***************************************************************************)

\* admission and the move to resetting, one critical section of admitMu.
RecreateFrom(b, name) ==
    /\ AdmitMemory
    /\ SetRow(b, RowIn("resetting"))
    /\ Begin(b, "kill", "recreate", name)

Recreate(b) ==
    /\ Callable(b)
    /\ row[b].state # "absent"
    /\ vol[b].exists
    /\ ~reg[b]
    /\ RecreateFrom(b, "recreate")
    /\ UNCHANGED <<reg, vol, stash, eng, retrying, daemon, budget>>

\* resolveVolume is asked once more: no answer, no old volume.
KillOld(b) ==
    /\ At(b, "kill")
    /\ \/ /\ vol[b].exists
          /\ (Works /\ EngineKill(b)) \/ KillSurvived(b)
          /\ task' = [task EXCEPT ![b].pc = "stale", ![b].hasOld = TRUE]
       \/ /\ FailsIf(~vol[b].exists, "resolve")
          /\ Goto(b, "stale")
          /\ UNCHANGED eng
    /\ UNCHANGED <<row, reg, vol, stash, retrying, daemon, deaths, crashes>>

\* Only a call that found the row in error removes what an earlier one left
\* under the stash name; the result of the removal is ignored.
DropStale(b) ==
    /\ At(b, "stale")
    /\ \/ /\ task[b].wasError
          /\ Works
          /\ stash' = [stash EXCEPT ![b] = NoVolume]
       \/ /\ FailsIf(~task[b].wasError, "destroy")
          /\ UNCHANGED stash
    /\ Goto(b, IF task[b].hasOld THEN "stash" ELSE "clone")
    /\ UNCHANGED <<row, reg, vol, eng, retrying, daemon, deaths, crashes>>

MoveToStash(b) ==
    /\ stash' = [stash EXCEPT ![b] = vol[b]]
    /\ vol' = [vol EXCEPT ![b] = NoVolume]

\* zfs rename refuses a target that is there and a dataset that is busy.
StashOld(b) ==
    /\ At(b, "stash")
    /\ \/ /\ ~stash[b].exists /\ ~eng[b]
          /\ Works
          /\ MoveToStash(b)
          /\ Goto(b, "clone")
          /\ UNCHANGED row
       \/ /\ FailsIf(stash[b].exists \/ eng[b], "rename")
          /\ FailOp(b, "stash")
          /\ UNCHANGED <<vol, stash>>
       \/ /\ ~stash[b].exists /\ ~eng[b]
          /\ Breaks("renameThenGet")
          /\ MoveToStash(b)
          /\ FailOp(b, "stash")
    /\ UNCHANGED <<reg, eng, retrying, daemon, deaths, crashes>>

\* The clone failed: rename the old volume back and start its engine, both
\* with their results ignored.
RestoreStash(b) ==
    /\ At(b, "restore")
    /\ \/ /\ ~vol[b].exists
          /\ \/ Works /\ eng' = [eng EXCEPT ![b] = TRUE]
             \/ Breaks("engineStart") /\ UNCHANGED eng
          /\ vol' = [vol EXCEPT ![b] = [stash[b] EXCEPT !.clean = @ /\ ~eng'[b]]]
          /\ stash' = [stash EXCEPT ![b] = NoVolume]
       \/ /\ FailsIf(vol[b].exists, "rename")
          /\ UNCHANGED <<vol, stash, eng>>
    /\ FailOp(b, "clone")
    /\ UNCHANGED <<reg, retrying, daemon, deaths, crashes>>

\* UpdateOrigin, then DeleteAsync of the old volume, its result ignored.
DropOld(b) ==
    /\ At(b, "dropOld")
    /\ \/ /\ task[b].hasOld
          /\ Works
          /\ stash' = [stash EXCEPT ![b] = NoVolume]
       \/ /\ FailsIf(~task[b].hasOld, "destroy")
          /\ UNCHANGED stash
    /\ Goto(b, "done")
    /\ UNCHANGED <<row, reg, vol, eng, retrying, daemon, deaths, crashes>>

-----------------------------------------------------------------------------
(***************************************************************************)
(* Reset                                                                   *)
(***************************************************************************)

\* Variant: no refuseIfBackingBaseline.
ResetUnguarded(b) ==
    /\ Callable(b)
    /\ row[b].state # "absent"
    /\ vol[b].exists
    /\ SetRow(b, RowIn("resetting"))
    /\ Begin(b, "rollback", "reset", "reset")
    /\ UNCHANGED <<reg, vol, stash, eng, retrying, daemon, budget>>

Reset(b) ==
    /\ Callable(b)
    /\ row[b].state # "absent"
    /\ vol[b].exists
    /\ ~reg[b]
    /\ SetRow(b, RowIn("resetting"))
    /\ Begin(b, "rollback", "reset", "reset")
    /\ UNCHANGED <<reg, vol, stash, eng, retrying, daemon, budget>>

\* Kill, then zfs rollback -r: back to @init, later snapshots are destroyed.
\* zfs does it under an engine that survived, too, which goes on writing.
Rollback(b) ==
    /\ At(b, "rollback")
    /\ \/ /\ vol[b].init # "none"
          /\ (Works /\ EngineKill(b)) \/ KillSurvived(b)
          /\ vol' = [vol EXCEPT ![b].clean = vol[b].init = "clean" /\ ~eng'[b],
                                ![b].base = "none"]
          /\ Goto(b, "boot2")
          /\ UNCHANGED row
       \/ /\ (FailsIf(vol[b].init = "none", "rollback") /\ EngineKill(b)) \/ KillSurvived(b)
          /\ FailOp(b, "rollback")
          /\ UNCHANGED vol
    /\ UNCHANGED <<reg, stash, retrying, daemon, deaths, crashes>>

-----------------------------------------------------------------------------
(***************************************************************************)
(* Delete                                                                  *)
(***************************************************************************)

\* An error of resolveVolume, whatever its cause, drops the row alone.
DeleteBody(b) ==
    /\ row[b].state # "absent"
    /\ \/ /\ FailsIf(~vol[b].exists, "resolve")
          /\ SetRow(b, RowIn("absent"))
          /\ UNCHANGED task
       \/ /\ vol[b].exists
          /\ ~reg[b]
          /\ Works
          /\ SetRow(b, RowIn("deleting"))
          /\ Begin(b, "destroy", "delete", "none")
    /\ UNCHANGED <<reg, vol, stash, eng, retrying, mode, deaths, crashes>>

Delete(b) == Callable(b) /\ DeleteBody(b) /\ UNCHANGED todo

\* Variant: the result of the destruction is ignored.
DestroyFailureIgnored(b) == Goto(b, "dropRow") /\ UNCHANGED row

DestroyFailed(b) == SetRow(b, ErrorRow("none", "none")) /\ Release(b)

\* Stop, its result ignored, and zfs destroy -r, which refuses a busy dataset.
Destroy(b) ==
    /\ At(b, "destroy")
    /\ \/ /\ Works
          /\ EngineKill(b)
          /\ vol' = [vol EXCEPT ![b] = NoVolume]
          /\ Goto(b, "dropRow")
          /\ UNCHANGED row
       \/ /\ Breaks("destroy")
          /\ EngineStop(b)
          /\ DestroyFailed(b)
       \/ /\ eng[b]
          /\ Breaks("engineStop")
          /\ DestroyFailed(b)
          /\ UNCHANGED <<eng, vol>>
    /\ UNCHANGED <<reg, stash, retrying, daemon, deaths, crashes>>

DropRow(b) ==
    /\ At(b, "dropRow")
    /\ SetRow(b, RowIn("absent"))
    /\ Release(b)
    /\ UNCHANGED <<reg, vol, stash, eng, retrying, daemon, budget>>

-----------------------------------------------------------------------------
(***************************************************************************)
(* Wake and Sleep                                                          *)
(***************************************************************************)

\* The row becomes running before the engine is started.
Wake(b) ==
    /\ Callable(b)
    /\ \/ row[b].state = "running"
       \/ row[b].state = "sleeping" /\ AdmitMemory
       \/ row[b].state = "error" /\ row[b].op = "wake" /\ AdmitMemory
    /\ vol[b].exists
    /\ SetRow(b, RowIn("running"))
    /\ Begin(b, "wake", "wake", "wake")
    /\ UNCHANGED <<reg, vol, stash, eng, retrying, daemon, budget>>

\* IsRunning: an engine that is up is left alone.
WakeSkips(b) ==
    /\ At(b, "wake")
    /\ eng[b]
    /\ Goto(b, "done")
    /\ UNCHANGED <<durable, retrying, daemon, budget>>

WakeBoots(b) == ~eng[b] /\ Boot(b, "wake", "done")

Sleep(b) ==
    /\ Callable(b)
    /\ row[b].state = "running"
    /\ vol[b].exists
    /\ EngineStop(b)
    /\ Begin(b, "sleep", "sleep", "none")
    /\ UNCHANGED <<row, reg, stash, retrying, daemon, budget>>

MarkSleeping(b) ==
    /\ At(b, "sleep")
    /\ SetRow(b, RowIn("sleeping"))
    /\ Release(b)
    /\ UNCHANGED <<reg, vol, stash, eng, retrying, daemon, budget>>

-----------------------------------------------------------------------------
(***************************************************************************)
(* Promote: the steps that touch the branch                                *)
(***************************************************************************)

\* Bound: a branch backs at most one registered baseline at a time.
Promote(b) ==
    /\ Callable(b)
    /\ row[b].state \in {"running", "sleeping"}
    /\ vol[b].exists
    /\ ~reg[b]
    /\ EngineStop(b)
    /\ Begin(b, "snap", "promote", "none")
    /\ UNCHANGED <<row, reg, stash, retrying, daemon, budget>>

PromoteSnapshot(b) ==
    /\ At(b, "snap")
    /\ \/ /\ Works
          /\ vol' = [vol EXCEPT ![b].base = Taken(vol[b])]
          /\ Goto(b, "register")
       \/ /\ Breaks("snapshot")
          /\ Goto(b, "restart")
          /\ UNCHANGED vol
    /\ UNCHANGED <<row, reg, stash, eng, retrying, daemon, deaths, crashes>>

RegisterBaseline(b) ==
    /\ At(b, "register")
    /\ reg' = [reg EXCEPT ![b] = TRUE]
    /\ Goto(b, "restart")
    /\ UNCHANGED <<row, vol, stash, eng, retrying, daemon, budget>>

\* restartBranch: whatever the row says, and with the result ignored.
RestartBranch(b) ==
    /\ At(b, "restart")
    /\ \/ Works /\ EngineUp(b)
       \/ Breaks("engineStart") /\ UNCHANGED <<eng, vol>>
    /\ Release(b)
    /\ UNCHANGED <<row, reg, stash, retrying, daemon, deaths, crashes>>

\* DeleteBaseline or GCBaselines, under baselineMu and not the branch lock, in
\* one step; their own conditions and steps are the subject of BaselineLifecycle.
RetireBaseline(b) ==
    /\ mode = "serving"
    /\ reg[b]
    /\ reg' = [reg EXCEPT ![b] = FALSE]
    /\ vol' = [vol EXCEPT ![b].base = "none"]
    /\ UNCHANGED <<row, stash, eng, task, retrying, daemon, budget>>

-----------------------------------------------------------------------------
(***************************************************************************)
(* Retry.  reset, recreate and wake are called as above; a failed create   *)
(* is dispatched on a row read outside the lock, and read again under it.  *)
(***************************************************************************)

RetryReads(b) ==
    /\ mode = "serving"
    /\ ~retrying[b]
    /\ Recoverable(row[b])
    /\ row[b].op = "create"
    /\ retrying' = [retrying EXCEPT ![b] = TRUE]
    /\ UNCHANGED <<durable, task, daemon, budget>>

RetryCreate(b) ==
    /\ Callable(b)
    /\ retrying[b]
    /\ row[b].state = "error"
    /\ ~(vol[b].exists /\ reg[b])
    /\ RecreateFrom(b, "create")
    /\ retrying' = [retrying EXCEPT ![b] = FALSE]
    /\ UNCHANGED <<reg, vol, stash, eng, daemon, budget>>

RetryGivesUp(b) ==
    /\ Callable(b)
    /\ retrying[b]
    /\ retrying' = [retrying EXCEPT ![b] = FALSE]
    /\ UNCHANGED <<durable, task, daemon, budget>>

-----------------------------------------------------------------------------
(***************************************************************************)
(* Engines that die, sashikid that stops, Reconcile                        *)
(***************************************************************************)

\* The engine's unit has Restart=no.
EngineDies(b) ==
    /\ eng[b]
    /\ deaths < MaxDeaths
    /\ deaths' = deaths + 1
    /\ EngineKill(b)
    /\ UNCHANGED <<row, reg, vol, stash, task, retrying, daemon, faults, crashes>>

Crash ==
    /\ crashes < MaxCrashes
    /\ crashes' = crashes + 1
    /\ task' = [b \in Branches |-> Idle]
    /\ retrying' = [b \in Branches |-> FALSE]
    /\ mode' = "recovering"
    /\ todo' = Branches
    /\ UNCHANGED <<durable, faults, deaths>>

\* Reconcile visits one branch at a time, before anything else is started.
Visiting(b) ==
    /\ mode = "recovering"
    /\ b \in todo
    /\ \A c \in Branches : ~Locked(c)
    /\ todo' = todo \ {b}

\* A deletion that was interrupted is resumed.
ReconcileDelete(b) ==
    /\ Visiting(b)
    /\ row[b].state = "deleting"
    /\ DeleteBody(b)

\* A create, reset or recreate that was interrupted becomes a recoverable error.
ReconcileInterrupted(b) ==
    /\ Visiting(b)
    /\ \/ /\ row[b].state = "creating"
          /\ Works
          /\ SetRow(b, ErrorRow("create", "interrupted"))
       \/ /\ row[b].state = "resetting" /\ stash[b].exists
          /\ Works
          /\ SetRow(b, ErrorRow("recreate", "interrupted"))
       \/ /\ row[b].state = "resetting"
          /\ FailsIf(~stash[b].exists, "resolve")
          /\ SetRow(b, ErrorRow("reset", "interrupted"))
    /\ UNCHANGED <<reg, vol, stash, eng, task, retrying, mode, deaths, crashes>>

\* Every other row: the dataset must be there, and a running row needs its engine.
ReconcileSettled(b) ==
    /\ Visiting(b)
    /\ row[b].state \notin Transitional
    /\ \/ /\ \/ row[b].state = "absent"
             \/ vol[b].exists /\ (row[b].state = "running" => eng[b])
          /\ Works
          /\ UNCHANGED row
       \/ /\ row[b].state # "absent"
          /\ FailsIf(~vol[b].exists, "resolve")
          /\ SetRow(b, ErrorRow("reconcile", "dataset_missing"))
       \/ /\ row[b].state = "running" /\ vol[b].exists /\ ~eng[b]
          /\ Works
          /\ SetRow(b, RowIn("sleeping"))
    /\ UNCHANGED <<reg, vol, stash, eng, task, retrying, mode, deaths, crashes>>

ReconcileDone ==
    /\ mode = "recovering"
    /\ todo = {}
    /\ \A b \in Branches : ~Locked(b)
    /\ mode' = "serving"
    /\ UNCHANGED <<durable, task, retrying, todo, budget>>

-----------------------------------------------------------------------------
Init ==
    /\ row = [b \in Branches |-> RowIn("absent")]
    /\ reg = [b \in Branches |-> FALSE]
    /\ vol = [b \in Branches |-> NoVolume]
    /\ stash = [b \in Branches |-> NoVolume]
    /\ eng = [b \in Branches |-> FALSE]
    /\ task = [b \in Branches |-> Idle]
    /\ retrying = [b \in Branches |-> FALSE]
    /\ mode = "serving"
    /\ todo = {}
    /\ faults = 0 /\ deaths = 0 /\ crashes = 0

\* The next step of the call that holds the lock of b.
Proceed(b) ==
    \/ Clone(b) \/ RestoreStash(b) \/ Quota(b) \/ BootForHook(b) \/ Hook(b)
    \/ StopForInit(b) \/ SnapshotInit(b) \/ BootForUse(b) \/ MarkRunning(b)
    \/ KillOld(b) \/ DropStale(b) \/ StashOld(b) \/ DropOld(b)
    \/ Rollback(b) \/ Destroy(b) \/ DropRow(b)
    \/ WakeSkips(b) \/ WakeBoots(b) \/ MarkSleeping(b)
    \/ PromoteSnapshot(b) \/ RegisterBaseline(b) \/ RestartBranch(b)

Call(b) ==
    \/ Create(b) \/ Reset(b) \/ Recreate(b) \/ Delete(b) \/ Wake(b) \/ Sleep(b)
    \/ Promote(b) \/ RetryReads(b) \/ RetryCreate(b) \/ RetryGivesUp(b)

ReconcileBranch(b) ==
    ReconcileDelete(b) \/ ReconcileInterrupted(b) \/ ReconcileSettled(b)

Next ==
    \/ \E b \in Branches : Call(b) \/ Proceed(b) \/ RetireBaseline(b)
                           \/ EngineDies(b) \/ ReconcileBranch(b)
    \/ Crash
    \/ ReconcileDone

Spec == Init /\ [][Next]_vars

\* A call runs on a goroutine of its own and every external command it waits
\* for has a timeout or returns, so it takes its next step; Reconcile is a
\* loop on the main goroutine.  Nobody has to make a call.
FairSpec ==
    /\ Spec
    /\ \A b \in Branches : WF_vars(Proceed(b)) /\ WF_vars(ReconcileBranch(b))
    /\ WF_vars(ReconcileDone)

-----------------------------------------------------------------------------
(***************************************************************************)
(* Properties                                                              *)
(***************************************************************************)

\* Type correctness of the rows, datasets, engines and calls of manager.go.
TypeOK ==
    /\ row \in [Branches -> Rows]
    /\ reg \in [Branches -> BOOLEAN]
    /\ vol \in [Branches -> Volumes]
    /\ stash \in [Branches -> Volumes]
    /\ eng \in [Branches -> BOOLEAN]
    /\ task \in [Branches -> Tasks]
    /\ retrying \in [Branches -> BOOLEAN]
    /\ mode \in {"serving", "recovering"}
    /\ todo \in SUBSET Branches
    /\ faults \in 0..MaxFaults
    /\ deaths \in 0..MaxDeaths
    /\ crashes \in 0..MaxCrashes

\* Delete removes the row last and create inserts it first (manager.go), so a
\* dataset under a branch's own name, or an engine, always has a row: a crash
\* at any point leaves nothing that list and delete cannot see.
Covered(b)      == vol[b].exists \/ eng[b] => row[b].state # "absent"
RowCoversVolume == \A b \in Branches : Covered(b)

\* A branch that clients are let through to, or that Wake would start, has its
\* dataset and an @init to reset to, whichever calls failed or were cut off by
\* a crash before: every path to running goes through SnapshotInit or Rollback.
Live(b) == \/ row[b].state \in {"running", "sleeping"}
           \/ row[b].state = "error" /\ row[b].op = "wake"
Resettable(b)  == Live(b) => vol[b].exists /\ vol[b].init # "none"
LiveRowHasInit == \A b \in Branches : Resettable(b)

\* creating, resetting and deleting mean that a call is under way: no error
\* path returns, and no crash followed by Reconcile leaves, such a row behind.
NoStrandedTransition ==
    mode = "serving" =>
        \A b \in Branches : row[b].state \in Transitional => Locked(b)

\* refuseIfBackingBaseline and the branch lock: no reset, recreate, retry or
\* delete, resumed or not, destroys a snapshot registered as a baseline.
Kept(b) == reg[b] => vol[b].exists /\ vol[b].base # "none"
PromotedSnapshotKept == \A b \in Branches : Kept(b)

\* "@init is only ever taken of a datadir that was shut down cleanly": holds
\* as long as no engine dies on its own between its start and eng.Stop.
InitClean(b) == deaths = 0 => vol[b].init # "dirty" /\ stash[b].init # "dirty"
InitFromCleanShutdown == \A b \in Branches : InitClean(b)

\* When cloning is all that fails, recreate puts the old volume back under the
\* branch's name: the row that reports clone_failed still has its data.
CloneFailureRestores ==
    faults <= 1 =>
        \A b \in Branches :
            row[b] = ErrorRow("recreate", "clone") => vol[b].exists

\* recreateFrom destroys the volume it moved aside only once the new one is
\* provisioned up to its @init, or when the row was already in error.
OldDataKept(b) ==
    stash[b].exists /\ ~stash'[b].exists =>
        \/ vol'[b].exists /\ vol'[b].init # "none"
        \/ vol'[b].exists /\ vol'[b].init = stash[b].init /\ ~vol[b].exists
        \/ task[b].wasError
OldDataOutlivesReplacement == [][\A b \in Branches : OldDataKept(b)]_vars

\* admitMu: whoever else is being created, woken or recreated at that moment, no
\* call but reset (which asks nobody) raises the number of counted branches
\* above max_running.
AdmissionRespected ==
    [][/\ MaxRunning # 0
       /\ Cardinality(Counted') > Cardinality(Counted)
       /\ \A b \in Branches : task'[b].path = "reset" => task[b] = task'[b]
       => Cardinality(Counted') <= MaxRunning]_vars

\* Every transitional row is settled in the end, by its call or, after a
\* crash, by Reconcile.
TransitionsEnd ==
    \A b \in Branches :
        row[b].state \in Transitional ~> row[b].state \notin Transitional

-----------------------------------------------------------------------------
(***************************************************************************)
(* The inductive invariant: what each call relies on at each of its steps  *)
(***************************************************************************)

\* The row and the program counter that belong to each kind of call.
CallFits(b) ==
    LET t == task[b]  s == row[b].state IN
    /\ t.path = "none"     => t.pc = "idle"
    /\ t.path = "create"   => /\ t.pc \in {"clone", "quota", "boot1", "hook",
                                           "stop", "init", "boot2", "done"}
                              /\ s = "creating" /\ ~t.hasOld
    /\ t.path = "recreate" => /\ t.pc \in {"kill", "stale", "stash", "clone",
                                           "restore", "quota", "boot1", "hook",
                                           "stop", "init", "boot2", "dropOld",
                                           "done"}
                              /\ s = "resetting"
    /\ t.path = "reset"    => t.pc \in {"rollback", "boot2", "done"} /\ s = "resetting"
    /\ t.path = "delete"   => t.pc \in {"destroy", "dropRow"} /\ s = "deleting"
    /\ t.path = "wake"     => t.pc \in {"wake", "done"} /\ s = "running"
    /\ t.path = "sleep"    => t.pc = "sleep" /\ s = "running"
    /\ t.path = "promote"  => /\ t.pc \in {"snap", "register", "restart"}
                              /\ s \in {"running", "sleeping"}
    /\ t.name = "wake" => t.path = "wake"

\* The dataset and the engine a step finds.
VolumeFits(b) ==
    LET t == task[b]  v == vol[b] IN
    /\ t.pc \in {"boot2", "dropOld", "done"} => v.exists /\ v.init # "none"
    /\ t.pc = "dropRow" => ~v.exists
    /\ t.pc = "stash" => v.exists
    /\ t.pc = "clone" /\ t.hasOld => stash[b].exists
    /\ t.pc = "restore" => stash[b].exists
    /\ v.init # "none" => v.exists
    /\ t.pc = "kill" => ~t.hasOld
    /\ t.pc = "stale" /\ t.hasOld => v.exists
    /\ eng[b] => v.exists

\* A branch that backs a registered baseline is not being replaced.
PromotionFits(b) ==
    LET t == task[b] IN
    /\ reg[b] => /\ t.path \notin {"recreate", "reset", "delete"}
                 /\ t.path = "create" => t.pc = "clone"
    /\ t.pc \in {"snap", "register"} => ~reg[b]
    /\ t.pc = "register" => vol[b].base # "none"

\* A branch nobody holds, and that Reconcile has visited, is settled.
SettledFits(b) ==
    ~Locked(b) /\ (mode = "serving" \/ b \notin todo)
        => row[b].state \notin Transitional

\* Up to @init the datadir is clean unless the engine is running.
CleanFits(b) ==
    deaths = 0 =>
        /\ task[b].pc \in {"quota", "init"} => vol[b].clean
        /\ task[b].pc \in {"hook", "stop"} => eng[b]

\* Everything the steps rely on, branch by branch.
Fits(b) ==
    /\ CallFits(b) /\ VolumeFits(b) /\ PromotionFits(b) /\ SettledFits(b)
    /\ CleanFits(b)
    /\ "resolve" \notin FaultKinds => Covered(b)
    /\ Resettable(b) /\ Kept(b) /\ InitClean(b)

\* What the calls of manager.go keep between their steps, together: the
\* parts of Fits hold of every branch at once, whoever else is working.
LifecycleInv == TypeOK /\ \A b \in Branches : Fits(b)

-----------------------------------------------------------------------------
(***************************************************************************)
(* What the documentation says of the program and the program does not do  *)
(***************************************************************************)

\* SPEC 11-1, `sleeping`: there is a volume and the engine is stopped.
\* PromoteBranch accepts a sleeping branch and starts its engine at the end.
SleepingMeansStopped ==
    \A b \in Branches :
        mode = "serving" /\ row[b].state = "sleeping" /\ ~Locked(b) => ~eng[b]

\* "MaxRunning: the limit of engines that run at the same time" (Config).
\* Reset starts the engine of a sleeping branch without asking admitMemory.
RunningLimit == MaxRunning # 0 => Cardinality(Counted) <= MaxRunning

\* Reconcile: an interrupted recreate is left recoverable so that retry can
\* run it again.  Retry calls Recreate, which needs the dataset under the
\* branch's own name; between the rename and the clone there is none.
InterruptedRecreateCanBeRetried ==
    \A b \in Branches :
        Recoverable(row[b]) /\ row[b].op = "recreate" => vol[b].exists

=============================================================================
