---------------------------- MODULE VolumeStore ----------------------------
(***************************************************************************)
(* The volumes of the branches on the storage backends (storage.Storage),  *)
(* the calls of workspace.Manager that make, replace and destroy them, and *)
(* gc --orphans, which lists first and destroys later, under no lock.      *)
(*                                                                         *)
(*   ebs-zfs        one dataset per name; every command is atomic          *)
(*   fsx-zfs        a clone is a new generation; AWS makes and deletes it  *)
(*                  in its own time, and the newest available one counts   *)
(*   reflink, apfs  directories, copied and removed file by file           *)
(*                                                                         *)
(* BranchLifecycle has the calls on ebs-zfs in full; here the steps that   *)
(* touch no volume are one.                                                *)
(***************************************************************************)
EXTENDS Naturals, FiniteSets

CONSTANTS
    Branches,
    Backends,     \* the backends of this instance
    MaxVolumes,   \* bound: how many volumes are ever made
    MaxFaults,    \* bound: how often a command fails
    MaxStops      \* bound: how often sashikid stops

ASSUME StoreAssumption ==
    /\ Backends \subseteq {"ebs-zfs", "fsx-zfs", "reflink", "apfs"}
    /\ MaxVolumes \in Nat /\ MaxFaults \in Nat /\ MaxStops \in Nat

VARIABLES
    backend,   \* the backend of this behaviour
    row,       \* state.db: state and failed_operation
    vols,      \* the volumes ever made, in the order of their creation
    task,      \* the call that holds the branch lock
    engine,    \* the volume on which the engine of the branch's unit runs
    gc,        \* the pass of gc --orphans
    home,      \* history: the volume on which the branch became running
    taken,     \* history: the volumes gc has destroyed
    left,      \* the branches whose engine outlived a Stop or Kill
    faults, stops

vars == <<backend, row, vols, task, engine, gc, home, taken, left, faults, stops>>

-----------------------------------------------------------------------------
Ids    == 1..MaxVolumes
NoId   == 0
Names  == Branches \X BOOLEAN   \* <<b, TRUE>>: <b>-recreating
Own(b)   == <<b, FALSE>>
Stash(b) == <<b, TRUE>>

\* data and init: the files of the datadir and of its @init copy; mixed: put
\* back while an engine wrote to them.
Lives   == {"unused", "creating", "available", "failed", "deleting", "gone"}
Volumes == [life : Lives, name : Names \cup {<<>>},
            data : {"none", "partial", "whole", "mixed"}, init : {"none", "partial", "whole"}]
Unused  == [life |-> "unused", name |-> <<>>, data |-> "none", init |-> "none"]

Ops    == {"none", "create", "reset", "recreate"}
Rows   == [state : {"absent", "creating", "running", "sleeping", "resetting",
                    "deleting", "error"}, op : Ops]
RowIn(s) == [state |-> s, op |-> "none"]

Pcs    == {"idle", "clone", "wait", "mount", "copy", "restore", "provision",
           "init", "copyInit", "boot", "dropOld", "done", "kill", "stale",
           "stash", "halt", "rollback", "copyBack", "destroy", "poll"}
\* old: what resolveVolume said at "kill"; new: the volume being made or reset.
Tasks  == [pc : Pcs, op : Ops, hasOld : BOOLEAN, wasError : BOOLEAN,
           old : Ids \cup {NoId}, new : Ids \cup {NoId}]
Idle   == [pc |-> "idle", op |-> "none", hasOld |-> FALSE, wasError |-> FALSE,
           old |-> NoId, new |-> NoId]

Files     == backend \in {"reflink", "apfs"}
FixedName == backend # "fsx-zfs"     \* ~ClonesAreDistinct
FastRollback == backend # "fsx-zfs"

Works    == UNCHANGED faults
Breaks   == faults < MaxFaults /\ faults' = faults + 1
FailsIf(cond) == IF cond THEN Works ELSE Breaks

Free(b)      == task[b].pc = "idle"
At(b, pc)    == task[b].pc = pc
Goto(b, pc)  == task' = [task EXCEPT ![b].pc = pc]
Release(b)   == task' = [task EXCEPT ![b] = Idle]
SetRow(b, r) == row' = [row EXCEPT ![b] = r]
Leaves(b)    == home' = [home EXCEPT ![b] = NoId]
SetEngine(b, e) == /\ engine' = [engine EXCEPT ![b] = e]
                   /\ left' = IF e = engine[b] THEN left ELSE left \ {b}
\* Variant: failed_operation gets the stage.
FailOpStage(b) == SetRow(b, [state |-> "error", op |-> task[b].pc]) /\ Release(b)
FailOp(b)    == SetRow(b, [state |-> "error", op |-> task[b].op]) /\ Release(b)

-----------------------------------------------------------------------------
(***************************************************************************)
(* ResolveVolume: what a name stands for.  {} is an error.                 *)
(***************************************************************************)

Named(n) == {v \in Ids : vols[v].life = "available" /\ vols[v].name = n}

\* Variant: any generation that is available.
FsxResolveAny(n) == {v \in Named(n) : \A u \in Named(n) : v <= u}

ZfsResolve(n) == Named(n)
\* The newest generation that is available.
FsxResolve(n) == {v \in Named(n) : \A u \in Named(n) : u <= v}
\* A path, whether there is such a directory or not.
FilesResolve(n) == IF Named(n) = {} THEN {NoId} ELSE Named(n)
ApfsResolve(n)  == FilesResolve(n)

ResolveVolume(n) ==
    CASE backend = "ebs-zfs" -> ZfsResolve(n)
      [] backend = "fsx-zfs" -> FsxResolve(n)
      [] backend = "reflink" -> FilesResolve(n)
      [] backend = "apfs"    -> ApfsResolve(n)

NextId     == CHOOSE v \in Ids : /\ vols[v].life = "unused"
                                 /\ \A u \in Ids : vols[u].life = "unused" => v <= u
CanMake    == \E v \in Ids : vols[v].life = "unused"
Made(b, life, data) ==
    vols' = [vols EXCEPT ![NextId] =
        [life |-> life, name |-> Own(b), data |-> data, init |-> "none"]]

-----------------------------------------------------------------------------
(***************************************************************************)
(* DeleteAsync: ok says whether it returned without an error               *)
(***************************************************************************)

Gone(v) == [vols EXCEPT ![v] = [Unused EXCEPT !.life = "gone"]]

\* A dataset an engine has open is busy: zfs does not unmount it.
Busy(v) == backend = "ebs-zfs" /\ \E b \in Branches : engine[b] = v

ZfsDestroy(v, ok) ==
    /\ backend = "ebs-zfs"
    /\ \/ ok /\ ~Busy(v) /\ Works /\ vols' = Gone(v)
       \/ ~ok /\ FailsIf(Busy(v)) /\ UNCHANGED vols

\* The volume is unmounted in any case; AWS deletes it later.
FsxDelete(v, ok) ==
    /\ backend = "fsx-zfs"
    /\ \/ ok /\ Works /\ vols' = [vols EXCEPT ![v].life = "deleting"]
       \/ ~ok /\ Breaks /\ UNCHANGED vols

\* RemoveAll: nothing is done when nothing is there; some files may be left.
RemoveAll(v, ok) ==
    \/ ok /\ Works /\ vols' = IF v = NoId THEN vols ELSE Gone(v)
    \/ ~ok /\ v # NoId /\ Breaks /\ vols' = [vols EXCEPT ![v].data = "partial"]
ReflinkDelete(v, ok) == backend = "reflink" /\ RemoveAll(v, ok)
ApfsDelete(v, ok)    == backend = "apfs" /\ RemoveAll(v, ok)

DeleteAsync(v, ok) ==
    \/ ZfsDestroy(v, ok) \/ FsxDelete(v, ok)
    \/ ReflinkDelete(v, ok) \/ ApfsDelete(v, ok)

\* AWS gets on with a volume.
FsxProceeds(v) ==
    /\ \/ /\ vols[v].life = "creating"
          /\ \/ Works /\ vols' = [vols EXCEPT ![v].life = "available"]
             \/ Breaks /\ vols' = [vols EXCEPT ![v].life = "failed"]
       \/ /\ vols[v].life = "deleting"
          /\ \/ Works /\ vols' = Gone(v)
             \/ Breaks /\ vols' = [vols EXCEPT ![v].life = "failed"]
    /\ UNCHANGED <<backend, row, task, engine, gc, home, taken, left, stops>>

-----------------------------------------------------------------------------
(***************************************************************************)
(* Clone                                                                   *)
(***************************************************************************)

\* Create: the row is there before the volume.
Create(b) ==
    /\ Free(b) /\ row[b].state = "absent" /\ CanMake
    /\ SetRow(b, RowIn("creating"))
    /\ task' = [task EXCEPT ![b] = [Idle EXCEPT !.pc = "clone", !.op = "create"]]
    /\ UNCHANGED <<backend, vols, engine, gc, home, taken, left, faults, stops>>

\* recreateFrom puts back what it moved aside.
CloneFailed(b) ==
    IF task[b].hasOld /\ FixedName THEN Goto(b, "restore") /\ UNCHANGED row
                                   ELSE FailOp(b)
MadeBy(b, pc) == task' = [task EXCEPT ![b].pc = pc, ![b].new = NextId]

\* The mountpoint may be unreadable after the clone was made.
ZfsClone(b) ==
    /\ backend = "ebs-zfs"
    /\ \/ /\ Named(Own(b)) = {}
          /\ Made(b, "available", "whole")
          /\ \/ Works /\ MadeBy(b, "provision") /\ UNCHANGED row
             \/ Breaks /\ CloneFailed(b)
       \/ /\ FailsIf(Named(Own(b)) # {})
          /\ CloneFailed(b)
          /\ UNCHANGED vols

FsxClone(b) ==
    /\ backend = "fsx-zfs"
    /\ \/ /\ Made(b, "creating", "whole")
          /\ \/ Works /\ MadeBy(b, "wait") /\ UNCHANGED row
             \/ Breaks /\ CloneFailed(b)
       \/ /\ Breaks
          /\ CloneFailed(b)
          /\ UNCHANGED vols

\* The directory first; cp -a --reflink=always fills it.
MakeDir(b) ==
    \/ /\ Named(Own(b)) = {}
       /\ Works
       /\ Made(b, "available", "partial")
       /\ MadeBy(b, "copy")
       /\ UNCHANGED row
    \/ /\ FailsIf(Named(Own(b)) # {})
       /\ CloneFailed(b)
       /\ UNCHANGED vols
ReflinkClone(b) == backend = "reflink" /\ MakeDir(b)
ApfsClone(b)    == backend = "apfs" /\ MakeDir(b)

Clone(b) ==
    /\ At(b, "clone") /\ CanMake
    /\ ZfsClone(b) \/ FsxClone(b) \/ ReflinkClone(b) \/ ApfsClone(b)
    /\ UNCHANGED <<backend, engine, gc, home, taken, left, stops>>

\* waitVolumeReady; a request that is cancelled leaves the volume to AWS.
FsxWait(b) ==
    /\ At(b, "wait")
    /\ \/ /\ vols[task[b].new].life = "available"
          /\ Works
          /\ Goto(b, "mount")
          /\ UNCHANGED row
       \/ /\ FailsIf(vols[task[b].new].life \in {"failed", "gone"})
          /\ CloneFailed(b)
    /\ UNCHANGED <<backend, vols, engine, gc, home, taken, left, stops>>

\* A volume that cannot be mounted is deleted, if AWS takes the request.
FsxMount(b) ==
    /\ At(b, "mount")
    /\ \/ /\ Works
          /\ Goto(b, "provision")
          /\ UNCHANGED <<row, vols>>
       \/ /\ Breaks
          /\ \E life \in {"available", "deleting"} :
                vols' = [vols EXCEPT ![task[b].new].life =
                            IF @ = "available" THEN life ELSE @]
          /\ CloneFailed(b)
    /\ UNCHANGED <<backend, engine, gc, home, taken, left, stops>>

CloneTree(b) ==
    /\ At(b, "copy")
    /\ \/ /\ Works
          /\ vols' = [vols EXCEPT ![task[b].new].data = "whole"]
          /\ Goto(b, "provision")
          /\ UNCHANGED row
       \/ /\ Breaks
          /\ vols' = Gone(task[b].new)
          /\ CloneFailed(b)
    /\ UNCHANGED <<backend, engine, gc, home, taken, left, stops>>

-----------------------------------------------------------------------------
(***************************************************************************)
(* Provisioning                                                            *)
(***************************************************************************)

\* Quota, first start, hook and stop; the engine may stay behind.  Where an
\* old one is up, systemd starts none and the stop ends that one; a new process
\* finds its port in use.
Provision(b) ==
    /\ At(b, "provision")
    /\ \/ /\ vols[task[b].new].life = "available"
          /\ Works
          /\ SetEngine(b, NoId)
          /\ Goto(b, "init")
          /\ UNCHANGED row
       \/ /\ FailsIf(vols[task[b].new].life # "available" \/ engine[b] # NoId)
          /\ FailOp(b)
          /\ \E e \in {NoId, task[b].new, engine[b]} :
                /\ e = task[b].new => vols[e].life = "available"
                /\ SetEngine(b, e)
    /\ UNCHANGED <<backend, vols, gc, home, taken, stops>>

InitTo(v, init) == vols' = [vols EXCEPT ![v].init = init]

\* zfs snapshot @init.
ZfsInit(b) ==
    /\ backend = "ebs-zfs"
    /\ InitTo(task[b].new, "whole") /\ Goto(b, "boot")
\* fsx has no @init.
FsxInit(b) == backend = "fsx-zfs" /\ Goto(b, "boot") /\ UNCHANGED vols
\* .init is removed, and then copied.
ReflinkInit(b) ==
    /\ backend = "reflink"
    /\ InitTo(task[b].new, "partial") /\ Goto(b, "copyInit")
ApfsInit(b) ==
    /\ backend = "apfs"
    /\ InitTo(task[b].new, "partial") /\ Goto(b, "copyInit")

SnapshotInit(b) ==
    /\ At(b, "init")
    /\ \/ /\ vols[task[b].new].life = "available"
          /\ Works
          /\ ZfsInit(b) \/ FsxInit(b) \/ ReflinkInit(b) \/ ApfsInit(b)
          /\ UNCHANGED row
       \/ /\ FailsIf(vols[task[b].new].life # "available")
          /\ FailOp(b)
          /\ UNCHANGED vols
    /\ UNCHANGED <<backend, engine, gc, home, taken, left, stops>>

CopyInit(b) ==
    /\ At(b, "copyInit")
    /\ \/ /\ vols[task[b].new].life = "available"
          /\ Works
          /\ InitTo(task[b].new, "whole")
          /\ Goto(b, "boot")
          /\ UNCHANGED row
       \/ /\ FailsIf(vols[task[b].new].life # "available")
          /\ FailOp(b)
          /\ UNCHANGED vols
    /\ UNCHANGED <<backend, engine, gc, home, taken, left, stops>>

Boots(v) == vols[v].life = "available" /\ vols[v].data \in {"whole", "mixed"}

\* The last start; an engine does not start on half a datadir.  One that is up
\* is left alone (systemd), or fails the start (a process: the port is in use).
Boot(b) ==
    /\ At(b, "boot")
    /\ \/ /\ \E e \in {task[b].new, engine[b]} \ {NoId} :
                /\ e # engine[b] => Boots(e)
                /\ SetEngine(b, e)
          /\ Works
          /\ Goto(b, IF task[b].hasOld THEN "dropOld" ELSE "done")
          /\ UNCHANGED row
       \/ /\ FailsIf(vols[task[b].new].data # "whole" \/ engine[b] # NoId
                     \/ ~Boots(task[b].new))
          /\ FailOp(b)
          /\ UNCHANGED <<engine, left>>
    /\ UNCHANGED <<backend, vols, gc, home, taken, stops>>

\* The old volume goes; an error is ignored.
DropOld(b) ==
    /\ At(b, "dropOld")
    /\ \E ok \in BOOLEAN : DeleteAsync(task[b].old, ok)
    /\ Goto(b, "done")
    /\ UNCHANGED <<backend, row, engine, gc, home, taken, left, stops>>

MarkRunning(b) ==
    /\ At(b, "done")
    /\ SetRow(b, RowIn("running"))
    /\ home' = [home EXCEPT ![b] = task[b].new]
    /\ Release(b)
    /\ UNCHANGED <<backend, vols, engine, gc, taken, left, faults, stops>>

-----------------------------------------------------------------------------
(***************************************************************************)
(* Recreate and reset                                                      *)
(***************************************************************************)

RecreateFrom(b, op) ==
    /\ CanMake
    /\ SetRow(b, RowIn("resetting"))
    /\ task' = [task EXCEPT ![b] = [Idle EXCEPT
          !.pc = "kill", !.op = op, !.wasError = row[b].state = "error"]]
    /\ Leaves(b)

Recreate(b) ==
    /\ Free(b) /\ row[b].state # "absent" /\ ResolveVolume(Own(b)) # {}
    /\ RecreateFrom(b, "recreate")
    /\ UNCHANGED <<backend, vols, engine, gc, taken, left, faults, stops>>

\* Without a fast rollback, reset is a recreate from the branch's own origin.
Reset(b) ==
    /\ Free(b) /\ row[b].state # "absent" /\ ResolveVolume(Own(b)) # {}
    /\ \/ ~FastRollback /\ RecreateFrom(b, "reset")
       \/ /\ FastRollback
          /\ SetRow(b, RowIn("resetting"))
          /\ \E v \in ResolveVolume(Own(b)) :
                task' = [task EXCEPT ![b] =
                    [Idle EXCEPT !.pc = "halt", !.op = "reset", !.new = v]]
          /\ Leaves(b)
    /\ UNCHANGED <<backend, vols, engine, gc, taken, left, faults, stops>>

\* retryCreate asks for no volume.
RetryCreate(b) ==
    /\ Free(b) /\ row[b] = [state |-> "error", op |-> "create"]
    /\ RecreateFrom(b, "create")
    /\ UNCHANGED <<backend, vols, engine, gc, taken, left, faults, stops>>

\* Stop and Kill where the caller drops their error.  What once outlived one,
\* or its volume, has no pid file any more, and may outlive the next unnoticed.
Ended(b)    == Works /\ SetEngine(b, NoId)
Outlives(b) == /\ engine[b] # NoId
               /\ FailsIf(b \in left \/ engine[b] \in taken)
               /\ left' = left \cup {b}
               /\ UNCHANGED engine
EndEngine(b) == Ended(b) \/ Outlives(b)

KillOld(b) ==
    /\ At(b, "kill")
    /\ \/ /\ ResolveVolume(Own(b)) = {}
          /\ Goto(b, "stale")
          /\ Works
          /\ UNCHANGED <<engine, left>>
       \/ /\ \E v \in ResolveVolume(Own(b)) :
                task' = [task EXCEPT ![b].pc = "stale", ![b].hasOld = TRUE, ![b].old = v]
          /\ EndEngine(b)
    /\ UNCHANGED <<backend, row, vols, gc, home, taken, stops>>

DropStale(b) ==
    /\ At(b, "stale")
    /\ IF FixedName /\ task[b].wasError /\ ResolveVolume(Stash(b)) # {}
         THEN \E v \in ResolveVolume(Stash(b)), ok \in BOOLEAN : DeleteAsync(v, ok)
         ELSE Works /\ UNCHANGED vols
    /\ Goto(b, IF FixedName /\ task[b].hasOld THEN "stash" ELSE "clone")
    /\ UNCHANGED <<backend, row, engine, gc, home, taken, left, stops>>

\* Rename, which fails when there is nothing to move, the dataset is busy, or
\* the target is taken.
Renames(v, n) == /\ v # NoId /\ vols[v].life = "available" /\ ~Busy(v)
                 /\ Named(n) = {}
Rename(v, n)  == vols' = [vols EXCEPT ![v].name = n]

StashOld(b) ==
    /\ At(b, "stash")
    /\ \/ /\ Renames(task[b].old, Stash(b))
          /\ Works
          /\ Rename(task[b].old, Stash(b))
          /\ Goto(b, "clone")
          /\ UNCHANGED row
       \/ /\ FailsIf(~Renames(task[b].old, Stash(b)))
          /\ FailOp(b)
          /\ UNCHANGED vols
    /\ UNCHANGED <<backend, engine, gc, home, taken, left, stops>>

RestoreOld(b) ==
    /\ At(b, "restore")
    /\ \/ /\ Renames(task[b].old, Own(b))
          /\ Works
          /\ Rename(task[b].old, Own(b))
          /\ \E e \in {engine[b], task[b].old} : SetEngine(b, e)
       \/ /\ FailsIf(~Renames(task[b].old, Own(b)))
          /\ UNCHANGED <<vols, engine, left>>
    /\ FailOp(b)
    /\ UNCHANGED <<backend, gc, home, taken, stops>>

\* The files of @init are put back; an engine that is still up writes on.
PutBack(b) ==
    LET v == task[b].new IN
    vols' = [vols EXCEPT ![v].data = IF engine[b] = v THEN "mixed" ELSE vols[v].init]

\* zfs rollback -r @init.
ZfsRollback(b) ==
    /\ backend = "ebs-zfs"
    /\ \/ /\ vols[task[b].new].init = "whole"
          /\ Works
          /\ PutBack(b)
          /\ Goto(b, "boot")
          /\ UNCHANGED row
       \/ /\ FailsIf(vols[task[b].new].init # "whole")
          /\ FailOp(b)
          /\ UNCHANGED vols

\* The datadir is removed, and then .init is copied there.
RemoveData(b) ==
    \/ /\ task[b].new # NoId
       /\ Works
       /\ vols' = [vols EXCEPT ![task[b].new].data = "partial"]
       /\ Goto(b, "copyBack")
       /\ UNCHANGED row
    \/ /\ task[b].new = NoId
       /\ Works
       /\ FailOp(b)
       /\ UNCHANGED vols
ReflinkRollback(b) == backend = "reflink" /\ RemoveData(b)
ApfsRollback(b)    == backend = "apfs" /\ RemoveData(b)

Rollback(b) ==
    /\ At(b, "rollback")
    /\ ZfsRollback(b) \/ ReflinkRollback(b) \/ ApfsRollback(b)
    /\ UNCHANGED <<backend, engine, gc, home, taken, left, stops>>

CopyBack(b) ==
    /\ At(b, "copyBack")
    /\ \/ /\ vols[task[b].new].init # "none"
          /\ Works
          /\ PutBack(b)
          /\ Goto(b, "boot")
          /\ UNCHANGED row
       \/ /\ FailsIf(vols[task[b].new].init = "none")
          /\ FailOp(b)
          /\ UNCHANGED vols
    /\ UNCHANGED <<backend, engine, gc, home, taken, left, stops>>

-----------------------------------------------------------------------------
(***************************************************************************)
(* Delete, sleep, wake                                                     *)
(***************************************************************************)

\* What resolveVolume does not find needs no deletion.
Delete(b) ==
    /\ Free(b) /\ row[b].state # "absent"
    /\ \/ /\ ResolveVolume(Own(b)) = {}
          /\ SetRow(b, RowIn("absent"))
          /\ UNCHANGED task
       \/ /\ SetRow(b, RowIn("deleting"))
          /\ \E v \in ResolveVolume(Own(b)) :
                task' = [task EXCEPT ![b] = [Idle EXCEPT !.pc = "halt", !.new = v]]
    /\ Leaves(b)
    /\ UNCHANGED <<backend, vols, engine, gc, taken, left, faults, stops>>

\* Variant: the engine is left to the systemd unit.
HaltNothing(b) ==
    /\ At(b, "halt")
    /\ Goto(b, IF task[b].op = "reset" THEN "rollback" ELSE "destroy")
    /\ UNCHANGED <<backend, row, vols, engine, gc, home, taken, left, faults, stops>>

\* Kill of a reset, Stop of a deletion.
Halt(b) ==
    /\ At(b, "halt")
    /\ EndEngine(b)
    /\ Goto(b, IF task[b].op = "reset" THEN "rollback" ELSE "destroy")
    /\ UNCHANGED <<backend, row, vols, gc, home, taken, stops>>

Destroy(b) ==
    /\ At(b, "destroy")
    /\ \/ DeleteAsync(task[b].new, TRUE) /\ Goto(b, "poll") /\ UNCHANGED row
       \/ DeleteAsync(task[b].new, FALSE) /\ FailOp(b)
    /\ UNCHANGED <<backend, engine, gc, home, taken, left, stops>>

\* Poll of a deletion that has only begun; the row goes without waiting, and
\* pollDeletion has nothing to do afterwards.
Poll(b) ==
    /\ At(b, "poll")
    /\ \/ Works /\ SetRow(b, RowIn("absent"))
       \/ ~FixedName /\ Breaks /\ UNCHANGED row
    /\ Release(b)
    /\ UNCHANGED <<backend, vols, engine, gc, home, taken, left, stops>>

Sleep(b) ==
    /\ Free(b) /\ row[b].state = "running" /\ ResolveVolume(Own(b)) # {}
    /\ SetRow(b, RowIn("sleeping"))
    /\ SetEngine(b, NoId)
    /\ UNCHANGED <<backend, vols, task, gc, home, taken, faults, stops>>

Wake(b) ==
    /\ Free(b) /\ row[b].state = "sleeping"
    /\ \E v \in ResolveVolume(Own(b)) \cap Ids :
          /\ Boots(v)
          /\ SetEngine(b, v)
    /\ SetRow(b, RowIn("running"))
    /\ UNCHANGED <<backend, vols, task, gc, home, taken, faults, stops>>

-----------------------------------------------------------------------------
(***************************************************************************)
(* gc --orphans                                                            *)
(***************************************************************************)

NoPass == [pc |-> "idle", rows |-> [b \in Branches |-> "absent"], orphans |-> {}]

\* inspect reads all rows first ...
GCRows ==
    /\ gc.pc = "idle"
    /\ gc' = [NoPass EXCEPT !.pc = "rows", !.rows = [b \in Branches |-> row[b].state]]
    /\ UNCHANGED <<backend, row, vols, task, engine, home, taken, left, faults, stops>>

ZfsList == {n \in Names : Named(n) # {}}
\* Generations in any state, under the name of their branch.
FsxList == {n \in Names : \E v \in Ids : /\ vols[v].name = n
                                         /\ vols[v].life \notin {"unused", "gone"}}
\* reflink and apfs list nothing (they are no storage.VolumeLister).
ListBranchVolumes ==
    CASE backend = "ebs-zfs" -> ZfsList
      [] backend = "fsx-zfs" -> FsxList
      [] Files -> {}

\* Variant: names with the suffix are never orphans (before #322).
IsOrphanByName(n) == ~n[2] /\ gc.rows[n[1]] = "absent"

\* The stash of a recreate that may be going on, or be tried again, is none.
IsOrphan(n) ==
    IF n[2] THEN gc.rows[n[1]] \notin {"resetting", "error"}
            ELSE gc.rows[n[1]] = "absent"

\* ... then lists the volumes ...
GCList ==
    /\ gc.pc = "rows"
    /\ gc' = [NoPass EXCEPT !.pc = "delete",
                            !.orphans = {n \in ListBranchVolumes : IsOrphan(n)}]
    /\ UNCHANGED <<backend, row, vols, task, engine, home, taken, left, faults, stops>>

\* ... and GCOrphans destroys what it has listed, one after the other.
GCDelete ==
    /\ gc.pc = "delete"
    /\ \E n \in gc.orphans :
          /\ gc' = [gc EXCEPT !.orphans = @ \ {n}]
          /\ \/ /\ ResolveVolume(n) = {}
                /\ UNCHANGED <<vols, taken, faults>>
             \/ \E v \in ResolveVolume(n), ok \in BOOLEAN :
                   /\ DeleteAsync(v, ok)
                   /\ taken' = IF ok THEN taken \cup {v} ELSE taken
    /\ UNCHANGED <<backend, row, task, engine, home, left, stops>>

GCEnd ==
    /\ gc.pc = "delete" /\ gc.orphans = {}
    /\ gc' = NoPass
    /\ UNCHANGED <<backend, row, vols, task, engine, home, taken, left, faults, stops>>

-----------------------------------------------------------------------------
(***************************************************************************)
(* A stop of sashikid, and Reconcile at the next start                     *)
(***************************************************************************)

\* A reset beside a stash was a recreate; an interrupted deletion is resumed.
Reconciled(b) ==
    CASE row[b].state = "creating" -> [state |-> "error", op |-> "create"]
      [] row[b].state = "resetting" ->
            [state |-> "error",
             op |-> IF ResolveVolume(Stash(b)) # {} THEN "recreate" ELSE "reset"]
      [] row[b].state = "deleting" ->
            IF ResolveVolume(Own(b)) = {} THEN RowIn("absent") ELSE row[b]
      [] row[b].state \in {"running", "sleeping", "error"} ->
            IF ResolveVolume(Own(b)) = {} THEN [state |-> "error", op |-> "none"]
            ELSE IF row[b].state = "running" /\ engine[b] = NoId
                   THEN RowIn("sleeping") ELSE row[b]
      [] row[b].state = "absent" -> row[b]

Restart ==
    /\ stops < MaxStops /\ stops' = stops + 1
    /\ row' = [b \in Branches |-> Reconciled(b)]
    /\ \E f \in [Branches -> Ids \cup {NoId}] :
          /\ \A b \in Branches :
                IF Reconciled(b).state = "deleting" THEN f[b] \in ResolveVolume(Own(b))
                                                    ELSE f[b] = NoId
          /\ task' = [b \in Branches |->
                IF Reconciled(b).state = "deleting"
                  THEN [Idle EXCEPT !.pc = "halt", !.new = f[b]] ELSE Idle]
    /\ gc' = NoPass
    /\ home' = [b \in Branches |->
          IF Reconciled(b).state \in {"running", "sleeping"} THEN home[b] ELSE NoId]
    /\ UNCHANGED <<backend, vols, engine, taken, left, faults>>

-----------------------------------------------------------------------------
Init ==
    /\ backend \in Backends
    /\ row = [b \in Branches |-> RowIn("absent")]
    /\ vols = [v \in Ids |-> Unused]
    /\ task = [b \in Branches |-> Idle]
    /\ engine = [b \in Branches |-> NoId]
    /\ gc = NoPass
    /\ home = [b \in Branches |-> NoId]
    /\ taken = {} /\ left = {}
    /\ faults = 0 /\ stops = 0

\* What a call does once it has begun.
Proceed(b) ==
    \/ Clone(b) \/ FsxWait(b) \/ FsxMount(b) \/ CloneTree(b) \/ RestoreOld(b)
    \/ Provision(b) \/ SnapshotInit(b) \/ CopyInit(b) \/ Boot(b) \/ DropOld(b)
    \/ MarkRunning(b) \/ KillOld(b) \/ DropStale(b) \/ StashOld(b) \/ Rollback(b)
    \/ CopyBack(b) \/ Halt(b) \/ Destroy(b) \/ Poll(b)

Aws     == \E v \in Ids : FsxProceeds(v)
GCStep  == GCList \/ GCDelete \/ GCEnd

Next ==
    \/ \E b \in Branches :
          \/ Create(b) \/ Recreate(b) \/ Reset(b) \/ RetryCreate(b) \/ Delete(b)
          \/ Sleep(b) \/ Wake(b) \/ Proceed(b)
    \/ GCRows \/ GCStep
    \/ Aws
    \/ Restart

Spec == Init /\ [][Next]_vars

\* AWS gets on, and a pass of gc that has begun goes on to its end.
FairSpec == Spec /\ WF_vars(Aws) /\ WF_vars(GCStep)

-----------------------------------------------------------------------------
(***************************************************************************)
(* Properties                                                              *)
(***************************************************************************)

\* Every variable has its type.
TypeOK ==
    /\ backend \in Backends
    /\ row \in [Branches -> Rows]
    /\ vols \in [Ids -> Volumes]
    /\ task \in [Branches -> Tasks]
    /\ engine \in [Branches -> Ids \cup {NoId}]
    /\ gc \in [pc : {"idle", "rows", "delete"}, rows : [Branches -> {r.state : r \in Rows}],
               orphans : SUBSET Names]
    /\ home \in [Branches -> Ids \cup {NoId}]
    /\ taken \subseteq Ids /\ left \subseteq Branches
    /\ faults \in 0..MaxFaults /\ stops \in 0..MaxStops

\* A branch that runs or sleeps has, under its name, the volume on which it
\* last became running, and all of it: no older generation, no clone that was
\* never finished, no stash comes up in its place.  Only gc can take it away;
\* mixed files are left by a reset under an engine that its Kill did not end.
WakesOnItsData ==
    \A b \in Branches :
        row[b].state \in {"running", "sleeping"} =>
            \/ /\ ResolveVolume(Own(b)) = {home[b]}
               /\ vols[home[b]].data \in {"whole", "mixed"}
            \/ home[b] \in taken

\* No engine runs on a volume that is not its branch's or is being deleted,
\* through failed calls, retries and restarts alike.  gc is excepted, and an
\* engine that outlived a Stop or Kill whose error is dropped: but that is never
\* the engine of a branch that runs or sleeps, and zfs never takes its dataset.
EngineHasVolume ==
    \A b \in Branches :
        engine[b] # NoId =>
            \/ vols[engine[b]].life = "available" /\ vols[engine[b]].name = Own(b)
            \/ engine[b] \in taken
            \/ /\ b \in left
               /\ backend # "ebs-zfs" /\ row[b].state \notin {"running", "sleeping"}

\* If gc is run again and again, an available volume whose branch has no row
\* does not stay: it is destroyed, or a branch of that name is created.
OrphansCollected ==
    []<>(gc.pc = "rows" /\ backend \in {"ebs-zfs", "fsx-zfs"}) =>
        \A v \in Ids, b \in Branches :
            (vols[v].life = "available" /\ vols[v].name[1] = b /\ row[b].state = "absent")
                ~> (vols[v].life # "available" \/ row[b].state # "absent")

\* GCOrphans "destroys datasets that are not in state.db": never a volume whose
\* branch has a row, nor the stash of a recreate that is going on.
GCSparesBranches ==
    [][\A v \in taken' \ taken :
          IF vols[v].name[2] THEN row[vols[v].name[1]].state # "resetting"
                             ELSE row[vols[v].name[1]].state = "absent"]_vars
=============================================================================
