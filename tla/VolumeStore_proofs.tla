------------------------ MODULE VolumeStore_proofs ------------------------
(***************************************************************************)
(* Theorems about VolumeStore: the volumes of the branches, for every set  *)
(* of branches and every number of volumes, failures and stops, on each of *)
(* the four backends.                                                      *)
(*                                                                         *)
(* Typing comes first; it needs that the least unused id exists.  Then the *)
(* invariant: what holds of the volumes by themselves, and what a branch's *)
(* row, call and engine know of theirs.  A branch's part is disturbed only *)
(* by its own steps (Bears): gc leaves a mark in taken, AWS brings back    *)
(* no volume, and other branches touch no volume of this name.             *)
(* A Stop or Kill may leave the engine up (left): nobody counts on it any  *)
(* more (Off), and SnapInv says that a reset under such an engine puts the *)
(* files back under the volume it runs on, and no other.                   *)
(***************************************************************************)
EXTENDS VolumeStore, Integers, NaturalsInduction, WellFoundedInduction, TLAPS

-----------------------------------------------------------------------------
(***************************************************************************)
(* The inductive invariant                                                 *)
(***************************************************************************)

\* A volume that may yet serve a branch; one that never will.
Live(v) == vols[v].life \in {"creating", "available"}
Dead(v) == vols[v].life \in {"failed", "deleting", "gone"}

\* Ids are given out in order.
IdsInOrder ==
    \A u, v \in Ids : u < v /\ vols[u].life = "unused" => vols[v].life = "unused"

\* What has no name cannot be resolved, what is live has one.
NamesOfVolumes ==
    \A v \in Ids : /\ vols[v].life = "unused" => vols[v].name = <<>>
                   /\ Live(v) => vols[v].name \in Names

\* Off fsx a volume is there or it is not, and no name stands for two.
OneVolumePerName ==
    FixedName =>
        /\ \A v \in Ids : vols[v].life \in {"unused", "available", "gone"}
        /\ \A u, v \in Ids :
              vols[u].life = "available" /\ vols[v].life = "available"
                  /\ vols[u].name = vols[v].name => u = v

\* What gc has destroyed does not come back, and it lists no directories.
TakenForGood == \A v \in taken : Dead(v)
GCListsVolumes == Files => gc.orphans = {}

StoreInv == IdsInOrder /\ NamesOfVolumes /\ OneVolumePerName /\ TakenForGood

\* What an engine has come up on.
Filled == {"whole", "mixed"}

\* v serves b, or gc has taken it from b.
Holds(b, v) ==
    \/ v \in taken
    \/ vols[v].life = "available" /\ vols[v].name = Own(b) /\ vols[v].data \in Filled

\* No live generation of b is younger than v.
Newest(b, v) == \A u \in Ids : Live(u) /\ vols[u].name = Own(b) => u <= v

\* The engine of b, if there is one, has a volume of b, or had it until gc
\* came.
OnIts(b) ==
    \/ engine[b] = NoId
    \/ vols[engine[b]].life = "available" /\ vols[engine[b]].name = Own(b)
    \/ engine[b] \in taken

\* Nobody counts on an engine of b any more: there is none, gc took its
\* volume, or a Stop or Kill did not end it.
Off(b) == engine[b] = NoId \/ engine[b] \in taken \/ b \in left

\* Where the volume being made is an id; where the engine has been stopped;
\* where it is up on the new volume; where the volume in hand is not the
\* youngest for sure.
NewPcs == {"wait", "mount", "copy", "provision", "init", "copyInit", "boot",
           "dropOld", "done", "copyBack"}
OffPcs == {"stale", "stash", "clone", "wait", "mount", "copy", "restore",
           "provision", "init", "copyInit", "boot", "copyBack", "poll",
           "rollback", "destroy"}
UpPcs  == {"dropOld", "done"}
EndPcs == {"halt", "rollback", "destroy", "poll"}

\* What a call holds in its hands is its branch's own.
OwnNew(b) == task[b].new \in Ids =>
    /\ vols[task[b].new].life # "unused"
    /\ vols[task[b].new].name \in {Own(b), <<>>}
OwnOld(b) == task[b].old \in Ids =>
    /\ vols[task[b].old].life # "unused"
    /\ vols[task[b].old].name \in {Own(b), Stash(b), <<>>}

TaskInv(b) ==
    /\ task[b].pc # "idle" => row[b].state \in {"creating", "resetting", "deleting"}
    /\ task[b].pc \in NewPcs => task[b].new # NoId
    /\ task[b].pc = "kill" => task[b].new = NoId
    /\ task[b].pc \in {"halt", "rollback"} /\ ~Files => task[b].new # NoId
    /\ task[b].pc \in {"wait", "mount"} => ~FixedName
    /\ task[b].pc \in {"copy", "copyInit", "copyBack"} => Files
    /\ task[b].pc \in {"init", "copyInit"} => engine[b] = NoId
    /\ task[b].pc = "boot" => \/ engine[b] = NoId
                              \/ engine[b] = task[b].new /\ Holds(b, task[b].new)
    /\ task[b].pc \in OffPcs => Off(b)
    /\ task[b].pc \in UpPcs => engine[b] = task[b].new /\ Holds(b, task[b].new)
    /\ OwnNew(b) /\ OwnOld(b)
    /\ task[b].new # NoId => task[b].old # task[b].new
    /\ ~FixedName /\ task[b].new # NoId /\ task[b].pc \notin EndPcs
           => Newest(b, task[b].new)

RowInv(b) ==
    /\ row[b].state \in {"running", "sleeping"} =>
          /\ home[b] \in Ids /\ Holds(b, home[b]) /\ OnIts(b)
          /\ ~FixedName => Newest(b, home[b])
    /\ row[b].state = "absent" => Off(b)

\* zfs lets nobody take the dataset of an engine that was not ended.
EngineInv(b) == OnIts(b) \/ (b \in left /\ backend # "ebs-zfs")

BranchInv(b) == TaskInv(b) /\ RowInv(b) /\ EngineInv(b)

Inv == StoreInv /\ \A b \in Branches : BranchInv(b)

\* A reset puts files back under an engine that its Kill did not end: that
\* engine runs on the volume of the reset, not on some other.  @init is taken
\* of a volume while the engine is down, and what has one is not removed in
\* part.
InitsSettle ==
    \A v \in Ids : vols[v].init # "none" => FixedName /\ vols[v].life = "available"

\* An engine that is not on the volume of its name, which has an @init, is
\* nowhere; and so for the volume that was moved aside, until it is back.
AsidePcs == {"kill", "stale", "stash", "clone", "copy", "restore"}
InitOn(b) ==
    /\ \A v \in Ids : vols[v].name = Own(b) /\ vols[v].init # "none"
                         => engine[b] \in {NoId, v}
    /\ task[b].pc \in AsidePcs /\ task[b].old \in Ids /\ vols[task[b].old].init # "none"
           => engine[b] \in {NoId, task[b].old}

SnapInv == InitsSettle /\ \A b \in Branches : InitOn(b)

-----------------------------------------------------------------------------
(***************************************************************************)
(* Numbers and names                                                       *)
(***************************************************************************)

\* A set of ids has a least one: the id the next volume gets.
LEMMA Least ==
    ASSUME NEW S, S \subseteq Nat, S # {}
    PROVE  \E m \in S : \A k \in S : m <= k
<1> DEFINE R == {ss \in Nat \X Nat : ss[1] < ss[2]}
<1>1. IsWellFoundedOn(R, Nat)
  BY NatLessThanWellFounded DEF OpToRel
<1> HIDE DEF R
<1>2. PICK m \in S : \A k \in S : ~ (<<k, m>> \in R)
  BY <1>1, WFMin
<1>3. \A k \in S : ~ (k < m)
  BY <1>2 DEF R
<1>4. QED
  BY <1>3

\* A bounded set of ids has a greatest one: the youngest generation of a
\* name, which FSx resolves.
LEMMA Greatest ==
    ASSUME NEW n \in Nat, NEW S, S \subseteq 1..n, S # {}
    PROVE  \E m \in S : \A k \in S : k <= m
<1> DEFINE D == {n - k : k \in S}
<1>1. D \subseteq Nat /\ D # {}
  <2>1. \A k \in S : n - k \in Nat /\ n - k \in D
    OBVIOUS
  <2>2. \A d \in D : \E k \in S : d = n - k
    OBVIOUS
  <2> HIDE DEF D
  <2>3. QED
    BY <2>1, <2>2
<1>2. PICK d \in D : \A e \in D : d <= e
  <2> HIDE DEF D
  <2>1. QED
    BY <1>1, Least
<1>3. PICK m \in S : d = n - m
  OBVIOUS
<1>4. ASSUME NEW k \in S
      PROVE  k <= m
  <2>1. n - k \in D
    OBVIOUS
  <2> HIDE DEF D
  <2>2. n - m <= n - k
    BY <2>1, <1>2, <1>3
  <2>3. QED
    BY <2>2
<1>5. QED
  BY <1>4

\* The names of a branch are two, are names, and are no other branch's.
LEMMA NamesApart ==
    ASSUME NEW b \in Branches
    PROVE  /\ Own(b) \in Names /\ Stash(b) \in Names
           /\ Own(b) # Stash(b) /\ Own(b) # <<>> /\ Stash(b) # <<>>
           /\ <<>> \notin Names
           /\ \A c \in Branches : c # b =>
                 {Own(c), Stash(c)} \cap {Own(b), Stash(b)} = {}
<1>1. Own(b) \in Names /\ Stash(b) \in Names /\ Own(b) # Stash(b)
  BY DEF Own, Stash, Names
<1>2. \A n \in Names : n # <<>>
  BY DEF Names
<1>3. \A c \in Branches : c # b =>
         Own(c) # Own(b) /\ Own(c) # Stash(b) /\ Stash(c) # Own(b) /\ Stash(c) # Stash(b)
  BY DEF Own, Stash
<1>4. QED
  BY <1>1, <1>2, <1>3

\* Ids are the positive numbers up to the bound, so that no id is NoId.
LEMMA IdsAreNumbers == Ids \subseteq Nat /\ NoId \notin Ids /\ NoId \in Nat
BY StoreAssumption DEF Ids, NoId

-----------------------------------------------------------------------------
(***************************************************************************)
(* Types                                                                   *)
(*                                                                         *)
(* One lemma for each record, helper and action, called after it: what it  *)
(* makes has its type.                                                     *)
(***************************************************************************)

\* The id of the next volume is the least that is unused.
LEMMA NextIdIsLeast ==
    ASSUME CanMake
    PROVE  /\ NextId \in Ids /\ vols[NextId].life = "unused"
           /\ \A u \in Ids : vols[u].life = "unused" => NextId <= u
<1> DEFINE U == {v \in Ids : vols[v].life = "unused"}
<1>1. U \subseteq Nat /\ U # {}
  BY IdsAreNumbers DEF CanMake
<1>2. \E v \in U : \A u \in U : v <= u
  <2> HIDE DEF U
  <2>1. QED
    BY <1>1, Least
<1>3. \E v \in Ids : /\ vols[v].life = "unused"
                     /\ \A u \in Ids : vols[u].life = "unused" => v <= u
  BY <1>2
<1>4. QED
  BY <1>3 DEF NextId

\* What the predicates on the backend say of it.
LEMMA Kinds ==
    ASSUME TypeOK
    PROVE  /\ backend \in {"ebs-zfs", "fsx-zfs", "reflink", "apfs"}
           /\ FixedName <=> backend \in {"ebs-zfs", "reflink", "apfs"}
           /\ Files <=> backend \in {"reflink", "apfs"}
BY StoreAssumption DEF TypeOK, FixedName, Files

LEMMA ResolveTyped ==
    ASSUME TypeOK, NEW n
    PROVE  /\ ResolveVolume(n) \subseteq Ids \cup {NoId}
           /\ ~Files => ResolveVolume(n) \subseteq Ids
           /\ \A v \in ResolveVolume(n) : v # NoId => v \in Named(n)
<1>1. Named(n) \subseteq Ids
  BY DEF Named
<1>2. QED
  BY <1>1, Kinds DEF ResolveVolume, ZfsResolve, FsxResolve, FilesResolve, ApfsResolve

\* A record written into the table of volumes.
LEMMA VolsTyped ==
    ASSUME TypeOK, NEW v, NEW r, v \in Ids => r \in Volumes
    PROVE  [vols EXCEPT ![v] = r] \in [Ids -> Volumes]
BY DEF TypeOK

\* A volume stays one when one of its fields is written.
LEMMA VolumeFields ==
    ASSUME NEW r \in Volumes
    PROVE  /\ \A x \in Lives : [r EXCEPT !.life = x] \in Volumes
           /\ \A x \in Names \cup {<<>>} : [r EXCEPT !.name = x] \in Volumes
           /\ \A x \in {"none", "partial", "whole", "mixed"} : [r EXCEPT !.data = x] \in Volumes
           /\ \A x \in {"none", "partial", "whole"} : [r EXCEPT !.init = x] \in Volumes
BY DEF Volumes

LEMMA UnusedTyped ==
    Unused \in Volumes /\ [Unused EXCEPT !.life = "gone"] \in Volumes
BY DEF Unused, Volumes, Lives

LEMMA SomeVolsTyped ==
    ASSUME TypeOK, NEW v
    PROVE  /\ Gone(v) \in [Ids -> Volumes]
           /\ \A x \in Lives : [vols EXCEPT ![v].life = x] \in [Ids -> Volumes]
           /\ \A x \in Names \cup {<<>>} : [vols EXCEPT ![v].name = x] \in [Ids -> Volumes]
           /\ \A x \in {"none", "partial", "whole", "mixed"} :
                 [vols EXCEPT ![v].data = x] \in [Ids -> Volumes]
           /\ \A x \in {"none", "partial", "whole"} :
                 [vols EXCEPT ![v].init = x] \in [Ids -> Volumes]
<1>1. v \in Ids => vols[v] \in Volumes
  BY DEF TypeOK
<1>2. Gone(v) \in [Ids -> Volumes]
  BY UnusedTyped, VolsTyped DEF Gone
<1>3. ASSUME NEW x \in Lives
      PROVE  [vols EXCEPT ![v].life = x] \in [Ids -> Volumes]
  <2>1. v \in Ids => [vols[v] EXCEPT !.life = x] \in Volumes
    BY <1>1, VolumeFields
  <2>2. QED
    BY <2>1, VolsTyped
<1>4. ASSUME NEW x \in Names \cup {<<>>}
      PROVE  [vols EXCEPT ![v].name = x] \in [Ids -> Volumes]
  <2>1. v \in Ids => [vols[v] EXCEPT !.name = x] \in Volumes
    BY <1>1, VolumeFields
  <2>2. QED
    BY <2>1, VolsTyped
<1>5. ASSUME NEW x \in {"none", "partial", "whole", "mixed"}
      PROVE  [vols EXCEPT ![v].data = x] \in [Ids -> Volumes]
  <2>1. v \in Ids => [vols[v] EXCEPT !.data = x] \in Volumes
    BY <1>1, VolumeFields
  <2>2. QED
    BY <2>1, VolsTyped
<1>6. ASSUME NEW x \in {"none", "partial", "whole"}
      PROVE  [vols EXCEPT ![v].init = x] \in [Ids -> Volumes]
  <2>1. v \in Ids => [vols[v] EXCEPT !.init = x] \in Volumes
    BY <1>1, VolumeFields
  <2>2. QED
    BY <2>1, VolsTyped
<1>7. QED
  BY <1>2, <1>3, <1>4, <1>5, <1>6

LEMMA MadeTyped ==
    ASSUME TypeOK, NEW b \in Branches, NEW life \in Lives, NEW data \in {"partial", "whole"},
           Made(b, life, data)
    PROVE  vols' \in [Ids -> Volumes]
<1>1. [life |-> life, name |-> Own(b), data |-> data, init |-> "none"] \in Volumes
  BY NamesApart DEF Volumes
<1>2. QED
  BY <1>1, VolsTyped DEF Made

LEMMA TaskTyped ==
    ASSUME TypeOK, NEW b \in Branches, NEW r \in Tasks
    PROVE  [task EXCEPT ![b] = r] \in [Branches -> Tasks]
BY DEF TypeOK

LEMMA IdleTyped ==
    /\ Idle \in Tasks
    /\ Idle.old = NoId /\ Idle.new = NoId /\ Idle.pc = "idle"
BY DEF Idle, Tasks, Pcs, Ops

\* What the calls write into their own task and their own row.
LEMMA CallTyped ==
    ASSUME TypeOK, NEW b \in Branches
    PROVE  /\ \A pc \in Pcs : Goto(b, pc) => task' \in [Branches -> Tasks]
           /\ Release(b) => task' \in [Branches -> Tasks]
           /\ \A r \in Rows : SetRow(b, r) => row' \in [Branches -> Rows]
           /\ FailOp(b) => row' \in [Branches -> Rows] /\ task' \in [Branches -> Tasks]
<1>1. task[b] \in Tasks
  BY DEF TypeOK
<1>2. ASSUME NEW pc \in Pcs, Goto(b, pc)
      PROVE  task' \in [Branches -> Tasks]
  <2>1. [task[b] EXCEPT !.pc = pc] \in Tasks
    BY <1>1 DEF Tasks
  <2>2. QED
    BY <2>1, <1>2, TaskTyped DEF Goto
<1>3. Release(b) => task' \in [Branches -> Tasks]
  BY IdleTyped, TaskTyped DEF Release
<1>4. ASSUME NEW r \in Rows, SetRow(b, r)
      PROVE  row' \in [Branches -> Rows]
  BY <1>4 DEF SetRow, TypeOK
<1>5. [state |-> "error", op |-> task[b].op] \in Rows
  BY <1>1 DEF Tasks, Rows
<1>6. FailOp(b) => row' \in [Branches -> Rows]
  BY <1>4, <1>5 DEF FailOp
<1>7. FailOp(b) => task' \in [Branches -> Tasks]
  BY <1>3 DEF FailOp
<1>8. QED
  BY <1>2, <1>3, <1>4, <1>6, <1>7

LEMMA RowInTyped ==
    \A s \in {"absent", "creating", "running", "sleeping", "resetting", "deleting", "error"} :
        RowIn(s) \in Rows
BY DEF RowIn, Rows, Ops

LEMMA FaultsTyped ==
    ASSUME TypeOK
    PROVE  /\ Works => faults' \in 0..MaxFaults
           /\ Breaks => faults' \in 0..MaxFaults
           /\ \A c : FailsIf(c) => faults' \in 0..MaxFaults
<1>1. Works => faults' \in 0..MaxFaults
  BY DEF TypeOK, Works
<1>2. Breaks => faults' \in 0..MaxFaults
  BY StoreAssumption DEF TypeOK, Breaks
<1>3. QED
  BY <1>1, <1>2 DEF FailsIf

LEMMA DeleteTyped ==
    ASSUME TypeOK, NEW v, NEW ok \in BOOLEAN, DeleteAsync(v, ok)
    PROVE  vols' \in [Ids -> Volumes] /\ faults' \in 0..MaxFaults
<1>1. vols \in [Ids -> Volumes]
  BY DEF TypeOK
<1>2. "deleting" \in Lives
  BY DEF Lives
<1>3. ZfsDestroy(v, ok) => vols' \in [Ids -> Volumes] /\ faults' \in 0..MaxFaults
  BY <1>1, FaultsTyped, SomeVolsTyped DEF ZfsDestroy
<1>4. FsxDelete(v, ok) => vols' \in [Ids -> Volumes] /\ faults' \in 0..MaxFaults
  <2>1. [vols EXCEPT ![v].life = "deleting"] \in [Ids -> Volumes]
    BY <1>2, SomeVolsTyped
  <2>2. QED
    BY <1>1, <2>1, FaultsTyped DEF FsxDelete
<1>5. RemoveAll(v, ok) => vols' \in [Ids -> Volumes] /\ faults' \in 0..MaxFaults
  <2>1. [vols EXCEPT ![v].data = "partial"] \in [Ids -> Volumes]
    BY SomeVolsTyped
  <2>2. Gone(v) \in [Ids -> Volumes]
    BY SomeVolsTyped
  <2>3. QED
    BY <1>1, <2>1, <2>2, FaultsTyped DEF RemoveAll
<1>6. QED
  BY <1>3, <1>4, <1>5 DEF DeleteAsync, ReflinkDelete, ApfsDelete

LEMMA CloneFailedTyped ==
    ASSUME TypeOK, NEW b \in Branches, CloneFailed(b)
    PROVE  row' \in [Branches -> Rows] /\ task' \in [Branches -> Tasks]
<1>1. "restore" \in Pcs /\ row \in [Branches -> Rows]
  BY DEF Pcs, TypeOK
<1>2. QED
  BY <1>1, CallTyped DEF CloneFailed

LEMMA MadeByTyped ==
    ASSUME TypeOK, CanMake, NEW b \in Branches, NEW pc \in Pcs, MadeBy(b, pc)
    PROVE  task' \in [Branches -> Tasks]
<1>1. task[b] \in Tasks
  BY DEF TypeOK
<1>2. [task[b] EXCEPT !.pc = pc, !.new = NextId] \in Tasks
  BY <1>1, NextIdIsLeast DEF Tasks
<1>3. QED
  BY <1>1, <1>2 DEF MadeBy, TypeOK

\* The step of a call leaves the pass of gc and the restarts alone.
LEMMA CallStepTyped ==
    ASSUME TypeOK, UNCHANGED <<backend, gc, taken, stops>>,
           row' \in [Branches -> Rows], vols' \in [Ids -> Volumes],
           task' \in [Branches -> Tasks], engine' \in [Branches -> Ids \cup {NoId}],
           home' \in [Branches -> Ids \cup {NoId}], faults' \in 0..MaxFaults,
           left' \subseteq Branches
    PROVE  TypeOK'
BY DEF TypeOK

\* The variables by themselves, and the fields of a task.
LEMMA Typed ==
    ASSUME TypeOK
    PROVE  /\ row \in [Branches -> Rows] /\ vols \in [Ids -> Volumes]
           /\ task \in [Branches -> Tasks] /\ engine \in [Branches -> Ids \cup {NoId}]
           /\ home \in [Branches -> Ids \cup {NoId}] /\ faults \in 0..MaxFaults
           /\ left \subseteq Branches
           /\ \A b \in Branches : /\ task[b].new \in Ids \cup {NoId}
                                  /\ task[b].old \in Ids \cup {NoId}
                                  /\ task[b].op \in Ops /\ task[b] \in Tasks
           /\ \A v \in Ids : /\ vols[v].life \in Lives /\ vols[v].name \in Names \cup {<<>>}
                             /\ vols[v].data \in {"none", "partial", "whole", "mixed"}
                             /\ vols[v].init \in {"none", "partial", "whole"}
<1>1. /\ row \in [Branches -> Rows] /\ vols \in [Ids -> Volumes]
      /\ task \in [Branches -> Tasks] /\ engine \in [Branches -> Ids \cup {NoId}]
      /\ home \in [Branches -> Ids \cup {NoId}] /\ faults \in 0..MaxFaults
      /\ left \subseteq Branches
  BY DEF TypeOK
<1>2. \A t \in Tasks : t.new \in Ids \cup {NoId} /\ t.old \in Ids \cup {NoId} /\ t.op \in Ops
  BY DEF Tasks
<1>3. \A r \in Volumes : /\ r.life \in Lives /\ r.name \in Names \cup {<<>>}
                         /\ r.data \in {"none", "partial", "whole", "mixed"}
                         /\ r.init \in {"none", "partial", "whole"}
  BY DEF Volumes
<1>4. QED
  BY <1>1, <1>2, <1>3

\* Leaving for one stage or another.
LEMMA Stages ==
    {"wait", "mount", "copy", "restore", "provision", "init", "copyInit", "boot",
     "dropOld", "done", "stale", "stash", "clone", "copyBack", "poll", "rollback",
     "kill", "destroy", "halt"} \subseteq Pcs
BY DEF Pcs

LEMMA EngineTyped ==
    ASSUME TypeOK, NEW b \in Branches, NEW e \in Ids \cup {NoId}
    PROVE  /\ [engine EXCEPT ![b] = e] \in [Branches -> Ids \cup {NoId}]
           /\ [home EXCEPT ![b] = e] \in [Branches -> Ids \cup {NoId}]
           /\ SetEngine(b, e) => /\ engine' \in [Branches -> Ids \cup {NoId}]
                                 /\ left' \subseteq Branches
BY DEF TypeOK, SetEngine

\* A Stop or Kill whose error is dropped.
LEMMA EndEngineTyped ==
    ASSUME TypeOK, NEW b \in Branches, EndEngine(b)
    PROVE  /\ engine' \in [Branches -> Ids \cup {NoId}]
           /\ left' \subseteq Branches /\ faults' \in 0..MaxFaults
<1>1. NoId \in Ids \cup {NoId}
  OBVIOUS
<1>2. CASE Ended(b)
  BY <1>1, <1>2, EngineTyped, FaultsTyped DEF Ended
<1>3. CASE Outlives(b)
  BY <1>3, Typed, FaultsTyped DEF Outlives
<1>4. QED
  BY <1>2, <1>3 DEF EndEngine

\* A call begins: a task of its own, a row of its own.
LEMMA CreateTyped ==
    ASSUME TypeOK, NEW b \in Branches, Create(b)
    PROVE  TypeOK'
<1>1. [Idle EXCEPT !.pc = "clone", !.op = "create"] \in Tasks
  BY IdleTyped, Stages DEF Tasks, Ops
<1>2. task' \in [Branches -> Tasks]
  BY <1>1, TaskTyped DEF Create
<1>3. row' \in [Branches -> Rows]
  BY RowInTyped, CallTyped DEF Create
<1>4. QED
  BY <1>2, <1>3, Typed, CallStepTyped DEF Create

LEMMA CloneTyped ==
    ASSUME TypeOK, NEW b \in Branches, Clone(b)
    PROVE  TypeOK'
<1>1. CanMake
  BY DEF Clone
<1>2. /\ Made(b, "available", "whole") => vols' \in [Ids -> Volumes]
      /\ Made(b, "available", "partial") => vols' \in [Ids -> Volumes]
      /\ Made(b, "creating", "whole") => vols' \in [Ids -> Volumes]
  BY MadeTyped DEF Lives
<1>3. /\ MadeBy(b, "provision") => task' \in [Branches -> Tasks]
      /\ MadeBy(b, "wait") => task' \in [Branches -> Tasks]
      /\ MadeBy(b, "copy") => task' \in [Branches -> Tasks]
  BY <1>1, MadeByTyped, Stages
<1>4. ASSUME ZfsClone(b) \/ FsxClone(b) \/ MakeDir(b)
      PROVE  /\ row' \in [Branches -> Rows] /\ vols' \in [Ids -> Volumes]
             /\ task' \in [Branches -> Tasks] /\ faults' \in 0..MaxFaults
  <2>1. CASE ZfsClone(b)
    BY <2>1, <1>2, <1>3, Typed, CloneFailedTyped, FaultsTyped DEF ZfsClone
  <2>2. CASE FsxClone(b)
    BY <2>2, <1>2, <1>3, Typed, CloneFailedTyped, FaultsTyped DEF FsxClone
  <2>3. CASE MakeDir(b)
    BY <2>3, <1>2, <1>3, Typed, CloneFailedTyped, FaultsTyped DEF MakeDir
  <2>4. QED
    BY <1>4, <2>1, <2>2, <2>3
<1>5. QED
  BY <1>4, Typed, CallStepTyped DEF Clone, ReflinkClone, ApfsClone

LEMMA FsxWaitTyped ==
    ASSUME TypeOK, NEW b \in Branches, FsxWait(b)
    PROVE  TypeOK'
<1>1. task' \in [Branches -> Tasks] /\ row' \in [Branches -> Rows] /\ faults' \in 0..MaxFaults
  BY Typed, CallTyped, CloneFailedTyped, FaultsTyped, Stages DEF FsxWait
<1>2. QED
  BY <1>1, Typed, CallStepTyped DEF FsxWait

LEMMA FsxMountTyped ==
    ASSUME TypeOK, NEW b \in Branches, FsxMount(b)
    PROVE  TypeOK'
<1>1. task' \in [Branches -> Tasks] /\ row' \in [Branches -> Rows] /\ faults' \in 0..MaxFaults
  BY Typed, CallTyped, CloneFailedTyped, FaultsTyped, Stages DEF FsxMount
<1>2. ASSUME NEW life \in {"available", "deleting"},
             vols' = [vols EXCEPT ![task[b].new].life = IF @ = "available" THEN life ELSE @]
      PROVE  vols' \in [Ids -> Volumes]
  <2> DEFINE v == task[b].new
             x == IF vols[v].life = "available" THEN life ELSE vols[v].life
  <2>1. vols' = [vols EXCEPT ![v] = [vols[v] EXCEPT !.life = x]]
    BY <1>2
  <2>2. v \in Ids => x \in Lives /\ vols[v] \in Volumes
    BY Typed DEF Lives
  <2> HIDE DEF v, x
  <2>3. v \in Ids => [vols[v] EXCEPT !.life = x] \in Volumes
    BY <2>2, VolumeFields
  <2>4. QED
    BY <2>1, <2>3, VolsTyped
<1>3. vols' \in [Ids -> Volumes]
  BY <1>2, Typed DEF FsxMount
<1>4. QED
  BY <1>1, <1>3, Typed, CallStepTyped DEF FsxMount

LEMMA CloneTreeTyped ==
    ASSUME TypeOK, NEW b \in Branches, CloneTree(b)
    PROVE  TypeOK'
<1>1. task' \in [Branches -> Tasks] /\ row' \in [Branches -> Rows] /\ faults' \in 0..MaxFaults
  BY Typed, CallTyped, CloneFailedTyped, FaultsTyped, Stages DEF CloneTree
<1>2. /\ [vols EXCEPT ![task[b].new].data = "whole"] \in [Ids -> Volumes]
      /\ Gone(task[b].new) \in [Ids -> Volumes]
  BY SomeVolsTyped
<1>3. vols' \in [Ids -> Volumes]
  BY <1>2 DEF CloneTree
<1>4. QED
  BY <1>1, <1>3, Typed, CallStepTyped DEF CloneTree

LEMMA ProvisionTyped ==
    ASSUME TypeOK, NEW b \in Branches, Provision(b)
    PROVE  TypeOK'
<1>1. task' \in [Branches -> Tasks] /\ row' \in [Branches -> Rows] /\ faults' \in 0..MaxFaults
  BY Typed, CallTyped, FaultsTyped, Stages DEF Provision
<1>2. \A e \in {NoId, task[b].new, engine[b]} : SetEngine(b, e) =>
          /\ engine' \in [Branches -> Ids \cup {NoId}] /\ left' \subseteq Branches
  BY Typed, EngineTyped
<1>3. engine' \in [Branches -> Ids \cup {NoId}] /\ left' \subseteq Branches
  BY <1>2 DEF Provision
<1>4. QED
  BY <1>1, <1>3, Typed, CallStepTyped DEF Provision

LEMMA InitToTyped ==
    ASSUME TypeOK, NEW v, NEW x \in {"none", "partial", "whole"}, InitTo(v, x)
    PROVE  vols' \in [Ids -> Volumes]
<1>1. [vols EXCEPT ![v].init = x] \in [Ids -> Volumes]
  BY SomeVolsTyped
<1>2. QED
  BY <1>1 DEF InitTo

LEMMA SnapshotInitTyped ==
    ASSUME TypeOK, NEW b \in Branches, SnapshotInit(b)
    PROVE  TypeOK'
<1>1. /\ Goto(b, "boot") => task' \in [Branches -> Tasks]
      /\ Goto(b, "copyInit") => task' \in [Branches -> Tasks]
      /\ InitTo(task[b].new, "whole") => vols' \in [Ids -> Volumes]
      /\ InitTo(task[b].new, "partial") => vols' \in [Ids -> Volumes]
  BY CallTyped, InitToTyped, Stages
<1>2. /\ task' \in [Branches -> Tasks] /\ row' \in [Branches -> Rows]
      /\ faults' \in 0..MaxFaults /\ vols' \in [Ids -> Volumes]
  BY <1>1, Typed, CallTyped, FaultsTyped
     DEF SnapshotInit, ZfsInit, FsxInit, ReflinkInit, ApfsInit
<1>3. QED
  BY <1>2, Typed, CallStepTyped DEF SnapshotInit

LEMMA CopyInitTyped ==
    ASSUME TypeOK, NEW b \in Branches, CopyInit(b)
    PROVE  TypeOK'
<1>1. /\ Goto(b, "boot") => task' \in [Branches -> Tasks]
      /\ InitTo(task[b].new, "whole") => vols' \in [Ids -> Volumes]
  BY CallTyped, InitToTyped, Stages
<1>2. /\ task' \in [Branches -> Tasks] /\ row' \in [Branches -> Rows]
      /\ faults' \in 0..MaxFaults /\ vols' \in [Ids -> Volumes]
  BY <1>1, Typed, CallTyped, FaultsTyped DEF CopyInit
<1>3. QED
  BY <1>2, Typed, CallStepTyped DEF CopyInit

LEMMA BootTyped ==
    ASSUME TypeOK, NEW b \in Branches, Boot(b)
    PROVE  TypeOK'
<1>1. \A h : Goto(b, IF h THEN "dropOld" ELSE "done") => task' \in [Branches -> Tasks]
  BY CallTyped, Stages
<1>2. \A e \in {task[b].new, engine[b]} : SetEngine(b, e) =>
          /\ engine' \in [Branches -> Ids \cup {NoId}] /\ left' \subseteq Branches
  BY Typed, EngineTyped
<1>3. /\ task' \in [Branches -> Tasks] /\ row' \in [Branches -> Rows]
      /\ faults' \in 0..MaxFaults
  BY <1>1, Typed, CallTyped, FaultsTyped DEF Boot
<1>4. engine' \in [Branches -> Ids \cup {NoId}] /\ left' \subseteq Branches
  BY <1>2, Typed DEF Boot
<1>5. QED
  BY <1>3, <1>4, Typed, CallStepTyped DEF Boot

LEMMA DropOldTyped ==
    ASSUME TypeOK, NEW b \in Branches, DropOld(b)
    PROVE  TypeOK'
<1>1. vols' \in [Ids -> Volumes] /\ faults' \in 0..MaxFaults
  BY DeleteTyped DEF DropOld
<1>2. task' \in [Branches -> Tasks]
  BY CallTyped, Stages DEF DropOld
<1>3. QED
  BY <1>1, <1>2, Typed, CallStepTyped DEF DropOld

LEMMA MarkRunningTyped ==
    ASSUME TypeOK, NEW b \in Branches, MarkRunning(b)
    PROVE  TypeOK'
<1>1. row' \in [Branches -> Rows] /\ task' \in [Branches -> Tasks]
  BY RowInTyped, CallTyped DEF MarkRunning
<1>2. home' \in [Branches -> Ids \cup {NoId}]
  BY Typed, EngineTyped DEF MarkRunning
<1>3. QED
  BY <1>1, <1>2, Typed, CallStepTyped DEF MarkRunning

\* A row that is left: no volume counts as the one the branch ran on.
LEMMA LeavesTyped ==
    ASSUME TypeOK, NEW b \in Branches, Leaves(b)
    PROVE  home' \in [Branches -> Ids \cup {NoId}]
BY EngineTyped DEF Leaves

LEMMA RecreateFromTyped ==
    ASSUME TypeOK, NEW b \in Branches, NEW op \in Ops, RecreateFrom(b, op)
    PROVE  /\ row' \in [Branches -> Rows] /\ task' \in [Branches -> Tasks]
           /\ home' \in [Branches -> Ids \cup {NoId}]
<1>1. [Idle EXCEPT !.pc = "kill", !.op = op, !.wasError = row[b].state = "error"] \in Tasks
  BY IdleTyped, Stages DEF Tasks
<1>2. QED
  BY <1>1, TaskTyped, RowInTyped, CallTyped, LeavesTyped DEF RecreateFrom

LEMMA RecreateTyped ==
    ASSUME TypeOK, NEW b \in Branches, Recreate(b) \/ RetryCreate(b)
    PROVE  TypeOK'
<1>1. {"create", "recreate"} \subseteq Ops
  BY DEF Ops
<1>2. /\ row' \in [Branches -> Rows] /\ task' \in [Branches -> Tasks]
      /\ home' \in [Branches -> Ids \cup {NoId}]
  BY <1>1, RecreateFromTyped DEF Recreate, RetryCreate
<1>3. QED
  BY <1>2, Typed, CallStepTyped DEF Recreate, RetryCreate

LEMMA ResetTyped ==
    ASSUME TypeOK, NEW b \in Branches, Reset(b)
    PROVE  TypeOK'
<1>1. "reset" \in Ops
  BY DEF Ops
<1>2. ASSUME NEW v \in ResolveVolume(Own(b))
      PROVE  [Idle EXCEPT !.pc = "halt", !.op = "reset", !.new = v] \in Tasks
  BY <1>1, ResolveTyped, IdleTyped, Stages DEF Tasks
<1>3. \A v \in ResolveVolume(Own(b)) :
        [task EXCEPT ![b] = [Idle EXCEPT !.pc = "halt", !.op = "reset", !.new = v]]
            \in [Branches -> Tasks]
  BY <1>2, TaskTyped
<1>4. RecreateFrom(b, "reset") => /\ row' \in [Branches -> Rows]
                                  /\ task' \in [Branches -> Tasks]
                                  /\ home' \in [Branches -> Ids \cup {NoId}]
  BY <1>1, RecreateFromTyped
<1>5. SetRow(b, RowIn("resetting")) => row' \in [Branches -> Rows]
  BY RowInTyped, CallTyped
<1>6. /\ row' \in [Branches -> Rows] /\ task' \in [Branches -> Tasks]
      /\ home' \in [Branches -> Ids \cup {NoId}]
  BY <1>3, <1>4, <1>5, LeavesTyped DEF Reset
<1>7. QED
  BY <1>6, Typed, CallStepTyped DEF Reset

LEMMA KillOldTyped ==
    ASSUME TypeOK, NEW b \in Branches, KillOld(b)
    PROVE  TypeOK'
<1>1. /\ engine' \in [Branches -> Ids \cup {NoId}] /\ left' \subseteq Branches
      /\ faults' \in 0..MaxFaults
  BY Typed, EndEngineTyped, FaultsTyped DEF KillOld
<1>2. ASSUME NEW v \in ResolveVolume(Own(b)),
             task' = [task EXCEPT ![b].pc = "stale", ![b].hasOld = TRUE, ![b].old = v]
      PROVE  task' \in [Branches -> Tasks]
  <2>1. task[b] \in Tasks /\ v \in Ids \cup {NoId}
    BY Typed, ResolveTyped
  <2>2. [task[b] EXCEPT !.pc = "stale", !.hasOld = TRUE, !.old = v] \in Tasks
    BY <2>1, Stages DEF Tasks
  <2>3. QED
    BY <2>1, <2>2, <1>2, Typed
<1>3. task' \in [Branches -> Tasks]
  BY <1>2, CallTyped, Stages DEF KillOld
<1>4. QED
  BY <1>1, <1>3, Typed, CallStepTyped DEF KillOld

LEMMA DropStaleTyped ==
    ASSUME TypeOK, NEW b \in Branches, DropStale(b)
    PROVE  TypeOK'
<1>1. vols' \in [Ids -> Volumes] /\ faults' \in 0..MaxFaults
  <2>1. \/ \E v \in ResolveVolume(Stash(b)), ok \in BOOLEAN : DeleteAsync(v, ok)
        \/ Works /\ UNCHANGED vols
    BY DEF DropStale
  <2>2. ASSUME Works, UNCHANGED vols
        PROVE  vols' \in [Ids -> Volumes] /\ faults' \in 0..MaxFaults
    BY <2>2, Typed, FaultsTyped
  <2>3. ASSUME NEW v, NEW ok \in BOOLEAN, DeleteAsync(v, ok)
        PROVE  vols' \in [Ids -> Volumes] /\ faults' \in 0..MaxFaults
    BY <2>3, DeleteTyped
  <2>4. QED
    BY <2>1, <2>2, <2>3
<1>2. \A c : Goto(b, IF c THEN "stash" ELSE "clone") => task' \in [Branches -> Tasks]
  BY CallTyped, Stages
<1>3. task' \in [Branches -> Tasks]
  BY <1>2 DEF DropStale
<1>4. QED
  BY <1>1, <1>3, Typed, CallStepTyped DEF DropStale

LEMMA RenameTyped ==
    ASSUME TypeOK, NEW v, NEW n \in Names, Rename(v, n)
    PROVE  vols' \in [Ids -> Volumes]
<1>1. [vols EXCEPT ![v].name = n] \in [Ids -> Volumes]
  BY SomeVolsTyped
<1>2. QED
  BY <1>1 DEF Rename

LEMMA StashOldTyped ==
    ASSUME TypeOK, NEW b \in Branches, StashOld(b)
    PROVE  TypeOK'
<1>1. vols' \in [Ids -> Volumes] /\ faults' \in 0..MaxFaults
  BY NamesApart, RenameTyped, Typed, FaultsTyped DEF StashOld
<1>2. task' \in [Branches -> Tasks] /\ row' \in [Branches -> Rows]
  BY Typed, CallTyped, Stages DEF StashOld
<1>3. QED
  BY <1>1, <1>2, Typed, CallStepTyped DEF StashOld

LEMMA RestoreOldTyped ==
    ASSUME TypeOK, NEW b \in Branches, RestoreOld(b)
    PROVE  TypeOK'
<1>1. vols' \in [Ids -> Volumes] /\ faults' \in 0..MaxFaults
  BY NamesApart, RenameTyped, Typed, FaultsTyped DEF RestoreOld
<1>2. task' \in [Branches -> Tasks] /\ row' \in [Branches -> Rows]
  BY CallTyped DEF RestoreOld
<1>3. \A e \in {engine[b], task[b].old} : SetEngine(b, e) =>
          /\ engine' \in [Branches -> Ids \cup {NoId}] /\ left' \subseteq Branches
  BY Typed, EngineTyped
<1>4. engine' \in [Branches -> Ids \cup {NoId}] /\ left' \subseteq Branches
  BY <1>3, Typed DEF RestoreOld
<1>5. QED
  BY <1>1, <1>2, <1>4, Typed, CallStepTyped DEF RestoreOld

LEMMA PutBackTyped ==
    ASSUME TypeOK, NEW b \in Branches, PutBack(b)
    PROVE  vols' \in [Ids -> Volumes]
<1> DEFINE v == task[b].new
           x == IF engine[b] = v THEN "mixed" ELSE vols[v].init
<1>1. vols' = [vols EXCEPT ![v].data = x]
  BY DEF PutBack
<1>2. CASE v \in Ids
  <2>1. x \in {"none", "partial", "whole", "mixed"}
    BY <1>2, Typed
  <2> HIDE DEF v, x
  <2>2. QED
    BY <1>1, <2>1, SomeVolsTyped
<1>3. CASE v \notin Ids
  <2> HIDE DEF v, x
  <2>1. vols \in [Ids -> Volumes]
    BY Typed
  <2>2. vols' = vols
    BY <1>1, <1>3, <2>1
  <2>3. QED
    BY <2>1, <2>2
<1>4. QED
  BY <1>2, <1>3

LEMMA RollbackTyped ==
    ASSUME TypeOK, NEW b \in Branches, Rollback(b)
    PROVE  TypeOK'
<1>1. /\ Goto(b, "boot") => task' \in [Branches -> Tasks]
      /\ Goto(b, "copyBack") => task' \in [Branches -> Tasks]
      /\ [vols EXCEPT ![task[b].new].data = "partial"] \in [Ids -> Volumes]
  BY CallTyped, SomeVolsTyped, Stages
<1>2. /\ task' \in [Branches -> Tasks] /\ row' \in [Branches -> Rows]
      /\ faults' \in 0..MaxFaults /\ vols' \in [Ids -> Volumes]
  BY <1>1, Typed, CallTyped, FaultsTyped, PutBackTyped
     DEF Rollback, ZfsRollback, ReflinkRollback, ApfsRollback, RemoveData
<1>3. QED
  BY <1>2, Typed, CallStepTyped DEF Rollback

LEMMA CopyBackTyped ==
    ASSUME TypeOK, NEW b \in Branches, CopyBack(b)
    PROVE  TypeOK'
<1>1. PutBack(b) => vols' \in [Ids -> Volumes]
  BY PutBackTyped
<1>2. /\ task' \in [Branches -> Tasks] /\ row' \in [Branches -> Rows]
      /\ faults' \in 0..MaxFaults
  BY Typed, CallTyped, FaultsTyped, Stages DEF CopyBack
<1>3. vols' \in [Ids -> Volumes]
  BY <1>1, Typed DEF CopyBack
<1>4. QED
  BY <1>2, <1>3, Typed, CallStepTyped DEF CopyBack

\* The call of a delete that is to destroy a volume.
LEMMA HaltTask ==
    \A v \in Ids \cup {NoId} : [Idle EXCEPT !.pc = "halt", !.new = v] \in Tasks
BY IdleTyped, Stages DEF Tasks

LEMMA DeleteCallTyped ==
    ASSUME TypeOK, NEW b \in Branches, Delete(b)
    PROVE  TypeOK'
<1>1. \A v \in ResolveVolume(Own(b)) :
        [task EXCEPT ![b] = [Idle EXCEPT !.pc = "halt", !.new = v]] \in [Branches -> Tasks]
  BY ResolveTyped, HaltTask, TaskTyped
<1>2. task' \in [Branches -> Tasks] /\ row' \in [Branches -> Rows]
  BY <1>1, Typed, RowInTyped, CallTyped DEF Delete
<1>3. home' \in [Branches -> Ids \cup {NoId}]
  BY LeavesTyped DEF Delete
<1>4. QED
  BY <1>2, <1>3, Typed, CallStepTyped DEF Delete

LEMMA HaltTyped ==
    ASSUME TypeOK, NEW b \in Branches, Halt(b)
    PROVE  TypeOK'
<1>1. \A c : Goto(b, IF c THEN "rollback" ELSE "destroy") => task' \in [Branches -> Tasks]
  BY CallTyped, Stages
<1>2. task' \in [Branches -> Tasks]
  BY <1>1 DEF Halt
<1>3. QED
  BY <1>2, Typed, EndEngineTyped, CallStepTyped DEF Halt

LEMMA DestroyTyped ==
    ASSUME TypeOK, NEW b \in Branches, Destroy(b)
    PROVE  TypeOK'
<1>1. \A ok \in BOOLEAN : DeleteAsync(task[b].new, ok) =>
          vols' \in [Ids -> Volumes] /\ faults' \in 0..MaxFaults
  BY DeleteTyped
<1>2. vols' \in [Ids -> Volumes] /\ faults' \in 0..MaxFaults
  BY <1>1 DEF Destroy
<1>3. task' \in [Branches -> Tasks] /\ row' \in [Branches -> Rows]
  BY Typed, CallTyped, Stages DEF Destroy
<1>4. QED
  BY <1>2, <1>3, Typed, CallStepTyped DEF Destroy

LEMMA PollTyped ==
    ASSUME TypeOK, NEW b \in Branches, Poll(b)
    PROVE  TypeOK'
<1>1. task' \in [Branches -> Tasks] /\ row' \in [Branches -> Rows] /\ faults' \in 0..MaxFaults
  BY Typed, CallTyped, RowInTyped, FaultsTyped DEF Poll
<1>2. QED
  BY <1>1, Typed, CallStepTyped DEF Poll

LEMMA SleepWakeTyped ==
    ASSUME TypeOK, NEW b \in Branches, Sleep(b) \/ Wake(b)
    PROVE  TypeOK'
<1>1. row' \in [Branches -> Rows]
  BY CallTyped, RowInTyped DEF Sleep, Wake
<1>2. engine' \in [Branches -> Ids \cup {NoId}] /\ left' \subseteq Branches
  BY EngineTyped DEF Sleep, Wake
<1>3. QED
  BY <1>1, <1>2, Typed, CallStepTyped DEF Sleep, Wake

\* A pass of gc.
Passes == [pc : {"idle", "rows", "delete"}, rows : [Branches -> {r.state : r \in Rows}],
           orphans : SUBSET Names]

LEMMA NoPassTyped ==
    NoPass \in Passes
<1>1. RowIn("absent") \in Rows /\ RowIn("absent").state = "absent"
  BY RowInTyped DEF RowIn
<1>2. "absent" \in {r.state : r \in Rows}
  BY <1>1
<1>3. QED
  BY <1>2 DEF NoPass, Passes

\* gc lists no directories: nothing it takes is NoId.
LEMMA GCTyped ==
    ASSUME TypeOK, GCListsVolumes, GCRows \/ GCStep
    PROVE  TypeOK' /\ GCListsVolumes'
<1> DEFINE rs == [b \in Branches |-> row[b].state]
<1>1. gc \in Passes
  BY DEF TypeOK, Passes
<1>2. CASE GCRows
  <2>1. rs \in [Branches -> {r.state : r \in Rows}]
    BY Typed
  <2>2. gc' = [NoPass EXCEPT !.pc = "rows", !.rows = rs]
    BY <1>2 DEF GCRows
  <2> HIDE DEF rs
  <2>3. gc' \in Passes
    BY <2>1, <2>2, NoPassTyped DEF Passes
  <2>4. gc'.orphans = {}
    BY <2>2 DEF NoPass
  <2>5. QED
    BY <1>2, <2>3, <2>4 DEF GCRows, TypeOK, Passes, GCListsVolumes
<1>3. CASE GCList
  <2> DEFINE O == {n \in ListBranchVolumes : IsOrphan(n)}
  <2>1. O \subseteq Names /\ (Files => O = {})
    BY Kinds DEF ListBranchVolumes, ZfsList, FsxList, Files
  <2>2. gc' = [NoPass EXCEPT !.pc = "delete", !.orphans = O]
    BY <1>3 DEF GCList
  <2> HIDE DEF O
  <2>3. gc' \in Passes
    BY <2>1, <2>2, NoPassTyped DEF Passes
  <2>4. gc'.orphans = O
    BY <2>2 DEF NoPass
  <2>5. QED
    BY <1>3, <2>1, <2>3, <2>4 DEF GCList, TypeOK, Passes, GCListsVolumes, Files
<1>4. CASE GCDelete
  <2>1. PICK n \in gc.orphans :
          /\ gc' = [gc EXCEPT !.orphans = @ \ {n}]
          /\ \/ /\ ResolveVolume(n) = {}
                /\ UNCHANGED <<vols, taken, faults>>
             \/ \E v \in ResolveVolume(n), ok \in BOOLEAN :
                   /\ DeleteAsync(v, ok)
                   /\ taken' = IF ok THEN taken \cup {v} ELSE taken
    BY <1>4 DEF GCDelete
  <2>2. ~Files
    BY DEF GCListsVolumes
  <2>3. gc' \in Passes
    BY <1>1, <2>1 DEF Passes
  <2>4. \A v, ok \in BOOLEAN : DeleteAsync(v, ok) => vols' \in [Ids -> Volumes]
                                                     /\ faults' \in 0..MaxFaults
    BY DeleteTyped
  <2>5. taken \subseteq Ids
    BY DEF TypeOK
  <2>6. taken' \subseteq Ids
    BY <2>1, <2>2, <2>5, ResolveTyped
  <2>7. vols' \in [Ids -> Volumes] /\ faults' \in 0..MaxFaults
    <3>1. CASE UNCHANGED <<vols, taken, faults>>
      BY <3>1, Typed
    <3>2. CASE \E v \in ResolveVolume(n), ok \in BOOLEAN : DeleteAsync(v, ok)
      <4>1. PICK v \in ResolveVolume(n), ok \in BOOLEAN : DeleteAsync(v, ok)
        BY <3>2
      <4>2. QED
        BY <4>1, DeleteTyped
    <3>3. QED
      BY <2>1, <3>1, <3>2
  <2>8. ~Files'
    BY <2>2, <1>4 DEF GCDelete, Files
  <2>9. QED
    BY <1>4, <2>3, <2>6, <2>7, <2>8 DEF GCDelete, TypeOK, Passes, GCListsVolumes
<1>5. CASE GCEnd
  BY <1>5, NoPassTyped DEF GCEnd, TypeOK, GCListsVolumes, NoPass, Passes, Files
<1>6. QED
  BY <1>2, <1>3, <1>4, <1>5 DEF GCStep

LEMMA AwsTyped ==
    ASSUME TypeOK, NEW v \in Ids, FsxProceeds(v)
    PROVE  TypeOK'
<1>1. {"available", "failed"} \subseteq Lives
  BY DEF Lives
<1>2. /\ [vols EXCEPT ![v].life = "available"] \in [Ids -> Volumes]
      /\ [vols EXCEPT ![v].life = "failed"] \in [Ids -> Volumes]
      /\ Gone(v) \in [Ids -> Volumes]
  BY <1>1, SomeVolsTyped
<1>3. vols' \in [Ids -> Volumes] /\ faults' \in 0..MaxFaults
  BY <1>2, FaultsTyped DEF FsxProceeds
<1>4. QED
  BY <1>3, Typed, CallStepTyped DEF FsxProceeds

LEMMA ReconciledTyped ==
    ASSUME TypeOK, NEW b \in Branches
    PROVE  Reconciled(b) \in Rows
<1>1. row[b] \in Rows
  BY Typed
<1>2. row[b].state \in {"absent", "creating", "running", "sleeping", "resetting",
                        "deleting", "error"}
  BY <1>1 DEF Rows
<1>3. /\ [state |-> "error", op |-> "create"] \in Rows
      /\ [state |-> "error", op |-> "recreate"] \in Rows
      /\ [state |-> "error", op |-> "reset"] \in Rows
      /\ [state |-> "error", op |-> "none"] \in Rows
      /\ RowIn("absent") \in Rows /\ RowIn("sleeping") \in Rows
  BY RowInTyped DEF Rows, Ops
<1>4. [state |-> "error",
       op |-> IF ResolveVolume(Stash(b)) # {} THEN "recreate" ELSE "reset"] \in Rows
  BY <1>3
<1>5. QED
  BY <1>1, <1>2, <1>3, <1>4 DEF Reconciled

LEMMA RestartTyped ==
    ASSUME TypeOK, Restart
    PROVE  TypeOK'
<1>1. row' \in [Branches -> Rows]
  BY ReconciledTyped DEF Restart
<1>2. PICK f \in [Branches -> Ids \cup {NoId}] :
          task' = [b \in Branches |->
                IF Reconciled(b).state = "deleting"
                  THEN [Idle EXCEPT !.pc = "halt", !.new = f[b]] ELSE Idle]
  BY DEF Restart
<1>3. task' \in [Branches -> Tasks]
  <2>1. \A b \in Branches : [Idle EXCEPT !.pc = "halt", !.new = f[b]] \in Tasks
    BY HaltTask
  <2>2. QED
    BY <1>2, <2>1, IdleTyped
<1>4. home' \in [Branches -> Ids \cup {NoId}]
  BY Typed DEF Restart
<1>5. gc' \in Passes
  BY NoPassTyped DEF Restart
<1>6. stops' \in 0..MaxStops
  <2>1. stops \in 0..MaxStops /\ stops < MaxStops /\ stops' = stops + 1
    BY DEF Restart, TypeOK
  <2>2. QED
    BY <2>1, StoreAssumption
<1>7. QED
  BY <1>1, <1>3, <1>4, <1>5, <1>6 DEF Restart, TypeOK, Passes

\* Every step is of one of these kinds.
CallStep(b) ==
    \/ Create(b) \/ Recreate(b) \/ Reset(b) \/ RetryCreate(b) \/ Delete(b)
    \/ Sleep(b) \/ Wake(b) \/ Proceed(b)

LEMMA CallStepsTyped ==
    ASSUME TypeOK, GCListsVolumes, NEW b \in Branches, CallStep(b)
    PROVE  TypeOK' /\ GCListsVolumes'
<1>1. TypeOK'
  BY CreateTyped, RecreateTyped, ResetTyped, DeleteCallTyped, SleepWakeTyped,
     CloneTyped, FsxWaitTyped, FsxMountTyped, CloneTreeTyped, RestoreOldTyped,
     ProvisionTyped, SnapshotInitTyped, CopyInitTyped, BootTyped, DropOldTyped,
     MarkRunningTyped, KillOldTyped, DropStaleTyped, StashOldTyped, RollbackTyped,
     CopyBackTyped, HaltTyped, DestroyTyped, PollTyped
  DEF CallStep, Proceed
<1>2. UNCHANGED <<backend, gc>>
  <2>1. Proceed(b) => UNCHANGED <<backend, gc>>
    BY DEF Proceed, Clone, FsxWait, FsxMount, CloneTree, RestoreOld, Provision,
           SnapshotInit, CopyInit, Boot, DropOld, MarkRunning, KillOld, DropStale,
           StashOld, Rollback, CopyBack, Halt, Destroy, Poll
  <2>2. QED
    BY <2>1 DEF CallStep, Create, Recreate, Reset, RetryCreate, Delete, Sleep, Wake
<1>3. QED
  BY <1>1, <1>2 DEF GCListsVolumes, Files

LEMMA InitTyped ==
    Init => TypeOK /\ GCListsVolumes
<1> SUFFICES ASSUME Init
             PROVE  TypeOK /\ GCListsVolumes
  OBVIOUS
<1>1. row \in [Branches -> Rows] /\ vols \in [Ids -> Volumes] /\ task \in [Branches -> Tasks]
  BY RowInTyped, UnusedTyped, IdleTyped DEF Init
<1>2. gc \in Passes /\ gc.orphans = {}
  BY NoPassTyped DEF Init, NoPass
<1>3. faults \in 0..MaxFaults /\ stops \in 0..MaxStops
  BY StoreAssumption DEF Init
<1>4. /\ backend \in Backends /\ taken \subseteq Ids /\ left \subseteq Branches
      /\ engine \in [Branches -> Ids \cup {NoId}] /\ home \in [Branches -> Ids \cup {NoId}]
  BY DEF Init
<1>5. QED
  BY <1>1, <1>2, <1>3, <1>4 DEF TypeOK, Passes, GCListsVolumes

LEMMA StepTyped ==
    TypeOK /\ GCListsVolumes /\ [Next]_vars => TypeOK' /\ GCListsVolumes'
<1> SUFFICES ASSUME TypeOK, GCListsVolumes, [Next]_vars
             PROVE  TypeOK' /\ GCListsVolumes'
  OBVIOUS
<1>1. CASE \E b \in Branches : CallStep(b)
  BY <1>1, CallStepsTyped
<1>2. CASE GCRows \/ GCStep
  BY <1>2, GCTyped
<1>3. CASE Aws
  <2>1. TypeOK'
    BY <1>3, AwsTyped DEF Aws
  <2>2. UNCHANGED <<backend, gc>>
    BY <1>3 DEF Aws, FsxProceeds
  <2>3. QED
    BY <2>1, <2>2 DEF GCListsVolumes, Files
<1>4. CASE Restart
  <2>1. gc'.orphans = {}
    BY <1>4 DEF Restart, NoPass
  <2>2. QED
    BY <1>4, <2>1, RestartTyped DEF GCListsVolumes
<1>5. CASE UNCHANGED vars
  BY <1>5 DEF vars, TypeOK, GCListsVolumes, Files
<1>6. QED
  BY <1>1, <1>2, <1>3, <1>4, <1>5 DEF Next, CallStep

\* Every variable has its type; in particular ids are given out only while
\* there is one, and gc destroys volumes, never a mere path.
THEOREM TypeCorrect == Spec => []TypeOK
<1>1. Spec => [](TypeOK /\ GCListsVolumes)
  BY InitTyped, StepTyped, PTL DEF Spec
<1>2. QED
  BY <1>1, PTL

-----------------------------------------------------------------------------
(***************************************************************************)
(* What a step may do to a volume                                          *)
(***************************************************************************)

Used(v)   == vols[v].life # "unused"
Stays(v)  == vols'[v] = vols[v]
Keeps(v)  == vols'[v].life = vols[v].life /\ vols'[v].name = vols[v].name
Rises(v)  == /\ vols[v].life = "creating" /\ vols'[v].life = "available"
             /\ vols'[v].name = vols[v].name
Sinks(v)  == /\ Used(v)
             /\ vols'[v].life \in {"failed", "deleting", "gone"}
             /\ FixedName => vols'[v].life = "gone"
             /\ vols'[v].name \in {vols[v].name, <<>>}

\* The volume has been made for b, if it ever was for anyone.
Mine(b, v) == Used(v) /\ vols[v].name \in {Own(b), Stash(b), <<>>}

\* It is no volume of c, and does not become one.
Apart(c, v) ==
    /\ {vols[v].name, vols'[v].name} \cap {Own(c), Stash(c)} = {}
    /\ Used(v) => /\ vols'[v].life # "unused"
                  /\ vols[v].name = <<>> => vols'[v].name = <<>>

\* What may happen to a volume without a call on branch c.
Bears(c, v) ==
    \/ Stays(v) \/ Rises(v) \/ Apart(c, v)
    \/ Sinks(v) /\ (v \in taken' \/ vols[v].life # "available")

\* zfs keeps the dataset that an engine has open.
Grip(b) == backend = "ebs-zfs" /\ engine[b] \in Ids => Keeps(engine[b])

\* Calls on b which make and rename nothing.
Calm(b) == /\ \A v \in Ids : Stays(v) \/ (Mine(b, v) /\ (Keeps(v) \/ Sinks(v)))
           /\ Grip(b)

HoldsNext(b, v) ==
    \/ v \in taken
    \/ /\ vols'[v].life = "available" /\ vols'[v].name = Own(b)
       /\ vols'[v].data \in Filled

NewestNext(b, v) ==
    \A u \in Ids : vols'[u].life \in {"creating", "available"} /\ vols'[u].name = Own(b)
                       => u <= v

\* Volumes that settle disturb nothing the volumes have among themselves.
LEMMA StoreSettles ==
    ASSUME TypeOK, StoreInv, UNCHANGED backend,
           \A v \in Ids : Keeps(v) \/ Rises(v) \/ Sinks(v),
           taken' \subseteq Ids,
           \A v \in taken' : v \in taken \/ vols'[v].life \in {"failed", "deleting", "gone"}
    PROVE  StoreInv'
<1>1. \A v \in Ids : vols'[v].life = "unused" <=> vols[v].life = "unused"
  BY DEF Keeps, Rises, Sinks, Used
<1>2. IdsInOrder'
  <2>1. IdsInOrder
    BY DEF StoreInv
  <2>2. QED
    BY <1>1, <2>1 DEF IdsInOrder
<1>3. NamesOfVolumes'
  <2>1. NamesOfVolumes
    BY DEF StoreInv
  <2>2. QED
    BY <1>1, <2>1 DEF NamesOfVolumes, Live, Keeps, Rises, Sinks
<1>4. OneVolumePerName'
  <2> SUFFICES ASSUME FixedName'
               PROVE  /\ \A v \in Ids : vols'[v].life \in {"unused", "available", "gone"}
                      /\ \A u, v \in Ids :
                            vols'[u].life = "available" /\ vols'[v].life = "available"
                                /\ vols'[u].name = vols'[v].name => u = v
    BY DEF OneVolumePerName
  <2>1. FixedName
    BY DEF FixedName
  <2>2. /\ \A v \in Ids : vols[v].life \in {"unused", "available", "gone"}
        /\ \A u, v \in Ids :
              vols[u].life = "available" /\ vols[v].life = "available"
                  /\ vols[u].name = vols[v].name => u = v
    BY <2>1 DEF StoreInv, OneVolumePerName
  <2>3. \A v \in Ids : Keeps(v) \/ Sinks(v)
    BY <2>2 DEF Rises
  <2>4. \A v \in Ids : vols'[v].life \in {"unused", "available", "gone"}
    BY <2>1, <2>2, <2>3 DEF Keeps, Sinks
  <2>5. \A v \in Ids : vols'[v].life = "available" => Keeps(v)
    BY <2>3 DEF Sinks
  <2>6. QED
    BY <2>2, <2>4, <2>5 DEF Keeps
<1>5. TakenForGood'
  <2>1. \A v \in taken : Dead(v)
    BY DEF StoreInv, TakenForGood
  <2>2. \A v \in taken' : vols'[v].life \in {"failed", "deleting", "gone"}
    BY <2>1 DEF Dead, Keeps, Rises, Sinks
  <2>3. QED
    BY <2>2 DEF TakenForGood, Dead
<1>6. QED
  BY <1>2, <1>3, <1>4, <1>5 DEF StoreInv

\* A branch whose row, call and engine are left alone bears what gc, AWS and
\* the calls on other branches do.
LEMMA BranchBears ==
    ASSUME TypeOK, StoreInv, NEW c \in Branches, BranchInv(c), UNCHANGED backend,
           row'[c] = row[c], task'[c] = task[c], engine'[c] = engine[c], home'[c] = home[c],
           (c \in left') <=> (c \in left),
           taken \subseteq taken', \A v \in Ids : Bears(c, v)
    PROVE  BranchInv(c)'
<1> USE NamesApart
<1>1. ASSUME NEW v \in Ids, vols[v].life = "available", vols[v].name = Own(c)
      PROVE  v \in taken' \/ vols'[v] = vols[v]
  BY <1>1 DEF Bears, Stays, Rises, Apart, Sinks
<1>2. ASSUME NEW v \in Ids, Holds(c, v)
      PROVE  Holds(c, v)'
  BY <1>1, <1>2 DEF Holds
<1>3. ASSUME NEW v, Newest(c, v)
      PROVE  Newest(c, v)'
  BY <1>3 DEF Newest, Live, Bears, Stays, Rises, Apart, Sinks
<1>4. ASSUME NEW v \in Ids, vols[v].life # "unused"
      PROVE  /\ vols'[v].life # "unused"
             /\ vols[v].name \in {Own(c), <<>>} => vols'[v].name \in {Own(c), <<>>}
             /\ vols[v].name \in {Own(c), Stash(c), <<>>}
                    => vols'[v].name \in {Own(c), Stash(c), <<>>}
  BY <1>4 DEF Bears, Stays, Rises, Apart, Sinks, Used
<1>5. /\ task[c].new \in Ids \cup {NoId} /\ task[c].old \in Ids \cup {NoId}
      /\ engine[c] \in Ids \cup {NoId}
  BY Typed
<1>6. (FixedName' <=> FixedName) /\ (Files' <=> Files)
  BY DEF FixedName, Files
<1>7. Off(c) => Off(c)'
  BY DEF Off
<1>8. OnIts(c) => OnIts(c)'
  <2> DEFINE e == engine[c]
  <2>1. e' = e /\ (e # NoId => e \in Ids)
    BY <1>5
  <2> HIDE DEF e
  <2>2. ASSUME e # NoId, vols[e].life = "available", vols[e].name = Own(c)
        PROVE  e \in taken' \/ vols'[e] = vols[e]
    BY <2>1, <2>2, <1>1
  <2>3. \/ e = NoId
        \/ vols[e].life = "available" /\ vols[e].name = Own(c)
        \/ e \in taken
        => \/ e' = NoId
           \/ vols'[e'].life = "available" /\ vols'[e'].name = Own(c)
           \/ e' \in taken'
    BY <2>1, <2>2
  <2>4. QED
    BY <2>3 DEF OnIts, e
<1>9. TaskInv(c)'
  <2>1. TaskInv(c)
    BY DEF BranchInv
  <2>2. OwnNew(c)' /\ OwnOld(c)'
    BY <2>1, <1>4 DEF TaskInv, OwnNew, OwnOld
  <2>3. task[c].pc \in UpPcs \cup {"boot"} => task[c].new \in Ids
    BY <2>1, <1>5 DEF TaskInv, UpPcs, NewPcs
  <2>4. /\ task[c].pc \in UpPcs => engine[c] = task[c].new /\ Holds(c, task[c].new)
        /\ task[c].pc = "boot" => \/ engine[c] = NoId
                                  \/ engine[c] = task[c].new /\ Holds(c, task[c].new)
    BY <2>1 DEF TaskInv
  <2> DEFINE n == task[c].new
  <2>5. ASSUME n \in Ids, Holds(c, n)
        PROVE  Holds(c, n)'
    <3>1. n' = n
      OBVIOUS
    <3> HIDE DEF n
    <3>2. n \in taken' \/ (/\ vols'[n].life = "available" /\ vols'[n].name = Own(c)
                           /\ vols'[n].data \in Filled)
      BY <2>5, <1>1 DEF Holds
    <3>3. QED
      BY <3>1, <3>2 DEF Holds
  <2>6. ~FixedName /\ task[c].new # NoId /\ task[c].pc \notin EndPcs
            => Newest(c, n)'
    <3>1. SUFFICES ASSUME ~FixedName, n # NoId, task[c].pc \notin EndPcs
                   PROVE  Newest(c, n)'
      OBVIOUS
    <3>2. Newest(c, n) /\ n' = n
      BY <3>1, <2>1 DEF TaskInv
    <3> HIDE DEF n
    <3>3. \A u \in Ids : vols'[u].life \in {"creating", "available"}
                             /\ vols'[u].name = Own(c) => u <= n
      BY <3>2 DEF Newest, Live, Bears, Stays, Rises, Apart, Sinks
    <3>4. QED
      BY <3>2, <3>3 DEF Newest, Live
  <2>7. QED
    BY <2>1, <2>2, <2>3, <2>4, <2>5, <2>6, <1>6, <1>7 DEF TaskInv
<1>10. RowInv(c)'
  <2> DEFINE h == home[c]
  <2>1. RowInv(c)
    BY DEF BranchInv
  <2>2. ASSUME row[c].state \in {"running", "sleeping"}
        PROVE  h' = h /\ h \in Ids /\ Holds(c, h)' /\ (~FixedName => Newest(c, h)')
    <3>1. h' = h /\ h \in Ids /\ Holds(c, h) /\ (~FixedName => Newest(c, h))
      BY <2>1, <2>2 DEF RowInv
    <3> HIDE DEF h
    <3>2. h \in taken' \/ (/\ vols'[h].life = "available" /\ vols'[h].name = Own(c)
                           /\ vols'[h].data \in Filled)
      BY <3>1, <1>1 DEF Holds
    <3>3. Holds(c, h)'
      BY <3>1, <3>2 DEF Holds
    <3>4. ASSUME ~FixedName
          PROVE  Newest(c, h)'
      <4>1. \A u \in Ids : vols'[u].life \in {"creating", "available"}
                             /\ vols'[u].name = Own(c) => u <= h
        BY <3>1, <3>4 DEF Newest, Live, Bears, Stays, Rises, Apart, Sinks
      <4>2. QED
        BY <3>1, <4>1 DEF Newest, Live
    <3>5. QED
      BY <3>1, <3>3, <3>4
  <2>3. QED
    BY <2>1, <2>2, <1>6, <1>7, <1>8 DEF RowInv
<1>11. EngineInv(c)'
  BY <1>8 DEF BranchInv, EngineInv
<1>12. QED
  BY <1>9, <1>10, <1>11 DEF BranchInv

\* A calm call on b: the volumes settle, and the other branches bear it.
LEMMA CalmSettles ==
    ASSUME TypeOK, StoreInv, NEW b \in Branches, UNCHANGED <<backend, taken>>, Calm(b)
    PROVE  /\ StoreInv'
           /\ \A c \in Branches \ {b}, v \in Ids : Bears(c, v)
<1>1. \A v \in Ids : Keeps(v) \/ Sinks(v)
  BY DEF Calm, Stays, Keeps
<1>2. StoreInv'
  <2>1. taken' \subseteq Ids /\ \A v \in taken' : v \in taken
    BY DEF TypeOK
  <2>2. QED
    BY <1>1, <2>1, StoreSettles
<1>3. ASSUME NEW c \in Branches \ {b}, NEW v \in Ids
      PROVE  Bears(c, v)
  <2>1. CASE Stays(v)
    BY <2>1 DEF Bears
  <2>2. CASE Mine(b, v) /\ (Keeps(v) \/ Sinks(v))
    <3>1. {Own(c), Stash(c)} \cap {Own(b), Stash(b), <<>>} = {}
      BY NamesApart
    <3>2. vols[v].name \in {Own(b), Stash(b), <<>>} /\ vols'[v].name \in {vols[v].name, <<>>}
      BY <2>2 DEF Mine, Keeps, Sinks
    <3>3. Used(v) /\ vols'[v].life # "unused"
      BY <2>2 DEF Mine, Keeps, Sinks, Used
    <3>4. Apart(c, v)
      BY <3>1, <3>2, <3>3 DEF Apart
    <3>5. QED
      BY <3>4 DEF Bears
  <2>3. QED
    BY <2>1, <2>2 DEF Calm
<1>4. QED
  BY <1>2, <1>3

-----------------------------------------------------------------------------
(***************************************************************************)
(* The calls                                                               *)
(***************************************************************************)

\* What a call on b writes of a variable, it writes at b.
RowAlone(b)    == \A c \in Branches \ {b} : row'[c] = row[c]
TaskAlone(b)   == \A c \in Branches \ {b} : task'[c] = task[c]
EngineAlone(b) == \A c \in Branches \ {b} : engine'[c] = engine[c]
HomeAlone(b)   == \A c \in Branches \ {b} : home'[c] = home[c]
LeftAlone(b)   == \A c \in Branches \ {b} : (c \in left') <=> (c \in left)

\* What the helpers write for b, and that they write for nobody else.
LEMMA Writes ==
    ASSUME TypeOK, NEW b \in Branches
    PROVE  /\ \A r : SetRow(b, r) => row'[b] = r /\ RowAlone(b)
           /\ \A pc : Goto(b, pc) => task'[b] = [task[b] EXCEPT !.pc = pc] /\ TaskAlone(b)
           /\ Release(b) => task'[b] = Idle /\ TaskAlone(b)
           /\ FailOp(b) => /\ task'[b] = Idle /\ TaskAlone(b)
                           /\ row'[b] = [state |-> "error", op |-> task[b].op] /\ RowAlone(b)
           /\ Leaves(b) => home'[b] = NoId /\ HomeAlone(b)
           /\ \A t : task' = [task EXCEPT ![b] = t] => task'[b] = t /\ TaskAlone(b)
           /\ \A e : SetEngine(b, e) => engine'[b] = e /\ EngineAlone(b) /\ LeftAlone(b)
           /\ \A e : home' = [home EXCEPT ![b] = e] => home'[b] = e /\ HomeAlone(b)
<1>1. /\ row \in [Branches -> Rows] /\ task \in [Branches -> Tasks]
      /\ engine \in [Branches -> Ids \cup {NoId}] /\ home \in [Branches -> Ids \cup {NoId}]
  BY Typed
<1>2. \A r : SetRow(b, r) => row'[b] = r /\ RowAlone(b)
  BY <1>1 DEF SetRow, RowAlone
<1>3. \A pc : Goto(b, pc) => task'[b] = [task[b] EXCEPT !.pc = pc] /\ TaskAlone(b)
  BY <1>1 DEF Goto, TaskAlone
<1>4. \A t : task' = [task EXCEPT ![b] = t] => task'[b] = t /\ TaskAlone(b)
  BY <1>1 DEF TaskAlone
<1>5. Release(b) => task'[b] = Idle /\ TaskAlone(b)
  BY <1>4 DEF Release
<1>6. \A e : SetEngine(b, e) => engine'[b] = e /\ EngineAlone(b) /\ LeftAlone(b)
  BY <1>1 DEF EngineAlone, LeftAlone, SetEngine
<1>7. \A e : home' = [home EXCEPT ![b] = e] => home'[b] = e /\ HomeAlone(b)
  BY <1>1 DEF HomeAlone
<1>8. FailOp(b) => /\ task'[b] = Idle /\ TaskAlone(b)
                   /\ row'[b] = [state |-> "error", op |-> task[b].op] /\ RowAlone(b)
  BY <1>2, <1>5 DEF FailOp
<1>9. QED
  BY <1>2, <1>3, <1>4, <1>5, <1>6, <1>7, <1>8 DEF Leaves

\* What is not written at all is not written for others either.
LEMMA Unwritten ==
    ASSUME NEW b \in Branches
    PROVE  /\ UNCHANGED row => row'[b] = row[b] /\ RowAlone(b)
           /\ UNCHANGED task => task'[b] = task[b] /\ TaskAlone(b)
           /\ UNCHANGED engine => engine'[b] = engine[b] /\ EngineAlone(b)
           /\ UNCHANGED home => home'[b] = home[b] /\ HomeAlone(b)
           /\ UNCHANGED left => LeftAlone(b)
BY DEF RowAlone, TaskAlone, EngineAlone, HomeAlone, LeftAlone

\* A Stop or Kill ends the engine, or the engine is among those left.
LEMMA EndEngineWrites ==
    ASSUME TypeOK, NEW b \in Branches, EndEngine(b)
    PROVE  /\ EngineAlone(b) /\ LeftAlone(b)
           /\ engine'[b] = NoId \/ (engine'[b] = engine[b] /\ b \in left')
<1>1. CASE Ended(b)
  BY <1>1, Writes DEF Ended
<1>2. CASE Outlives(b)
  BY <1>2, Unwritten DEF Outlives, LeftAlone
<1>3. QED
  BY <1>1, <1>2 DEF EndEngine

\* After a failed clone the call restores what it put aside, or gives up.
LEMMA CloneFailedWrites ==
    ASSUME TypeOK, NEW b \in Branches, CloneFailed(b)
    PROVE  /\ RowAlone(b) /\ TaskAlone(b)
           /\ \/ /\ task[b].hasOld /\ FixedName
                 /\ task'[b] = [task[b] EXCEPT !.pc = "restore"] /\ row'[b] = row[b]
              \/ FailOp(b)
BY Writes, Unwritten DEF CloneFailed

\* A call on b writes nothing of another branch.
Alone(b) ==
    /\ UNCHANGED <<backend, gc, taken, stops>>
    /\ RowAlone(b) /\ TaskAlone(b) /\ EngineAlone(b) /\ HomeAlone(b) /\ LeftAlone(b)

\* The calls that begin write the row, the call, the engine and the home of
\* their own branch only.
LEMMA BeginsAlone ==
    ASSUME TypeOK, NEW b \in Branches,
           Create(b) \/ Recreate(b) \/ Reset(b) \/ RetryCreate(b) \/ Delete(b)
    PROVE  Alone(b)
<1>1. \A op : RecreateFrom(b, op) => RowAlone(b) /\ TaskAlone(b) /\ HomeAlone(b)
  BY Writes DEF RecreateFrom
<1>2. Create(b) => Alone(b)
  BY Writes, Unwritten DEF Create, Alone
<1>3. Recreate(b) \/ RetryCreate(b) => Alone(b)
  BY <1>1, Writes, Unwritten DEF Recreate, RetryCreate, Alone
<1>4. Reset(b) => Alone(b)
  BY <1>1, Writes, Unwritten DEF Reset, Alone
<1>5. Delete(b) => Alone(b)
  BY Writes, Unwritten DEF Delete, Alone
<1>6. QED
  BY <1>2, <1>3, <1>4, <1>5

\* So do the steps that make a volume,
LEMMA MakesAlone ==
    ASSUME TypeOK, NEW b \in Branches,
           Clone(b) \/ FsxWait(b) \/ FsxMount(b) \/ CloneTree(b)
    PROVE  Alone(b)
<1>1. \A pc : MadeBy(b, pc) => TaskAlone(b)
  BY Typed DEF MadeBy, TaskAlone
<1>2. ZfsClone(b) \/ FsxClone(b) \/ MakeDir(b) => RowAlone(b) /\ TaskAlone(b)
  BY <1>1, CloneFailedWrites, Unwritten DEF ZfsClone, FsxClone, MakeDir
<1>3. Clone(b) => Alone(b)
  BY <1>2, Unwritten DEF Clone, ReflinkClone, ApfsClone, Alone
<1>4. FsxWait(b) => Alone(b)
  BY CloneFailedWrites, Writes, Unwritten DEF FsxWait, Alone
<1>5. FsxMount(b) => Alone(b)
  BY CloneFailedWrites, Writes, Unwritten DEF FsxMount, Alone
<1>6. CloneTree(b) => Alone(b)
  BY CloneFailedWrites, Writes, Unwritten DEF CloneTree, Alone
<1>7. QED
  BY <1>3, <1>4, <1>5, <1>6

\* the steps that fill it and start its engine,
LEMMA ProvisionsAlone ==
    ASSUME TypeOK, NEW b \in Branches,
           \/ Provision(b) \/ SnapshotInit(b) \/ CopyInit(b) \/ Boot(b)
           \/ DropOld(b) \/ MarkRunning(b)
    PROVE  Alone(b)
<1>1. Provision(b) => Alone(b)
  BY Writes, Unwritten DEF Provision, Alone
<1>2. SnapshotInit(b) => Alone(b)
  BY Writes, Unwritten
     DEF SnapshotInit, ZfsInit, FsxInit, ReflinkInit, ApfsInit, Alone
<1>3. CopyInit(b) => Alone(b)
  BY Writes, Unwritten DEF CopyInit, Alone
<1>4. Boot(b) => Alone(b)
  BY Writes, Unwritten DEF Boot, Alone
<1>5. DropOld(b) => Alone(b)
  BY Writes, Unwritten DEF DropOld, Alone
<1>6. MarkRunning(b) => Alone(b)
  BY Writes, Unwritten DEF MarkRunning, Alone
<1>7. QED
  BY <1>1, <1>2, <1>3, <1>4, <1>5, <1>6

\* the steps that put the old volume aside, back, or roll it back,
LEMMA ReplacesAlone ==
    ASSUME TypeOK, NEW b \in Branches,
           \/ KillOld(b) \/ DropStale(b) \/ StashOld(b) \/ RestoreOld(b)
           \/ Rollback(b) \/ CopyBack(b)
    PROVE  Alone(b)
<1>1. KillOld(b) => Alone(b)
  <2>1. \A v : task' = [task EXCEPT ![b].pc = "stale", ![b].hasOld = TRUE, ![b].old = v]
                  => TaskAlone(b)
    BY Typed DEF TaskAlone
  <2>2. QED
    BY <2>1, Writes, Unwritten, EndEngineWrites DEF KillOld, Alone
<1>2. DropStale(b) => Alone(b)
  BY Writes, Unwritten DEF DropStale, Alone
<1>3. StashOld(b) => Alone(b)
  BY Writes, Unwritten DEF StashOld, Alone
<1>4. RestoreOld(b) => Alone(b)
  BY Writes, Unwritten DEF RestoreOld, Alone
<1>5. Rollback(b) => Alone(b)
  BY Writes, Unwritten
     DEF Rollback, ZfsRollback, ReflinkRollback, ApfsRollback, RemoveData, Alone
<1>6. CopyBack(b) => Alone(b)
  BY Writes, Unwritten DEF CopyBack, Alone
<1>7. QED
  BY <1>1, <1>2, <1>3, <1>4, <1>5, <1>6

\* and the steps that end a branch, let it sleep or wake it.
LEMMA EndsAlone ==
    ASSUME TypeOK, NEW b \in Branches,
           Halt(b) \/ Destroy(b) \/ Poll(b) \/ Sleep(b) \/ Wake(b)
    PROVE  Alone(b)
<1>1. Halt(b) => Alone(b)
  BY Writes, Unwritten, EndEngineWrites DEF Halt, Alone
<1>2. Destroy(b) => Alone(b)
  BY Writes, Unwritten DEF Destroy, Alone
<1>3. Poll(b) => Alone(b)
  BY Writes, Unwritten DEF Poll, Alone
<1>4. Sleep(b) => Alone(b)
  BY Writes, Unwritten DEF Sleep, Alone
<1>5. Wake(b) => Alone(b)
  BY Writes, Unwritten DEF Wake, Alone
<1>6. QED
  BY <1>1, <1>2, <1>3, <1>4, <1>5

\* So much for the other branches.
LEMMA OthersBear ==
    ASSUME TypeOK, Inv, NEW b \in Branches, Alone(b), StoreInv', BranchInv(b)',
           \A c \in Branches \ {b}, v \in Ids : Bears(c, v)
    PROVE  Inv'
<1>1. ASSUME NEW c \in Branches, c # b
      PROVE  BranchInv(c)'
  <2>1. /\ row'[c] = row[c] /\ task'[c] = task[c] /\ engine'[c] = engine[c]
        /\ home'[c] = home[c] /\ UNCHANGED backend /\ taken \subseteq taken'
        /\ (c \in left') <=> (c \in left)
    BY <1>1 DEF Alone, RowAlone, TaskAlone, EngineAlone, HomeAlone, LeftAlone
  <2>2. \A v \in Ids : Bears(c, v)
    BY <1>1
  <2>3. StoreInv /\ BranchInv(c)
    BY DEF Inv
  <2>4. QED
    BY <2>1, <2>2, <2>3, BranchBears
<1>2. QED
  BY <1>1 DEF Inv

\* A step that disturbs no volume but its branch's own keeps the invariant if
\* it keeps its branch's part.
LEMMA CalmCall ==
    ASSUME TypeOK, Inv, NEW b \in Branches, Alone(b), Calm(b), BranchInv(b)'
    PROVE  Inv'
<1>1. UNCHANGED <<backend, taken>> /\ StoreInv
  BY DEF Alone, Inv
<1>2. QED
  BY <1>1, CalmSettles, OthersBear

-----------------------------------------------------------------------------
(***************************************************************************)
(* A call and its own branch                                               *)
(***************************************************************************)

\* What a call holds is still its own after the step.
Kept(b) ==
    /\ task[b].new \in Ids =>
          /\ vols'[task[b].new].life # "unused"
          /\ vols'[task[b].new].name \in {Own(b), <<>>}
    /\ task[b].old \in Ids =>
          /\ vols'[task[b].old].life # "unused"
          /\ vols'[task[b].old].name \in {Own(b), Stash(b), <<>>}
    /\ ~FixedName /\ task[b].new # NoId /\ task[b].pc \notin EndPcs
           => NewestNext(b, task[b].new)

\* Under such a step what the branch holds stays held.
LEMMA CalmKeeps ==
    ASSUME TypeOK, NEW b \in Branches, BranchInv(b), Calm(b)
    PROVE  Kept(b)
<1>1. ASSUME NEW v \in Ids
      PROVE  /\ vols[v].life # "unused" => vols'[v].life # "unused"
             /\ vols'[v].name \in {vols[v].name, <<>>}
  BY DEF Calm, Stays, Keeps, Sinks
<1>2. ASSUME NEW v, Newest(b, v)
      PROVE  NewestNext(b, v)
  BY <1>2, NamesApart DEF Newest, NewestNext, Live, Calm, Stays, Keeps, Sinks
<1>3. TaskInv(b)
  BY DEF BranchInv
<1>4. QED
  BY <1>1, <1>2, <1>3 DEF Kept, TaskInv, OwnNew, OwnOld

\* The engine is down,
LEMMA GoesDown ==
    ASSUME NEW b \in Branches, engine'[b] = NoId
    PROVE  Off(b)' /\ OnIts(b)' /\ EngineInv(b)'
BY DEF Off, OnIts, EngineInv

\* stays down or where it is,
LEMMA StaysOff ==
    ASSUME TypeOK, NEW b \in Branches, EngineInv(b), Off(b), Grip(b),
           UNCHANGED <<backend, taken>>, engine'[b] = engine[b], b \in left => b \in left'
    PROVE  Off(b)' /\ EngineInv(b)'
<1> DEFINE e == engine[b]
<1>1. Off(b)'
  BY DEF Off
<1>2. CASE e = NoId \/ e \in taken
  <2>1. engine'[b] = NoId \/ engine'[b] \in taken'
    BY <1>2
  <2>2. OnIts(b)'
    BY <2>1 DEF OnIts
  <2>3. QED
    BY <1>1, <2>2 DEF EngineInv
<1>3. CASE e # NoId /\ e \notin taken /\ backend # "ebs-zfs"
  BY <1>3 DEF Off, EngineInv
<1>4. CASE e # NoId /\ e \notin taken /\ backend = "ebs-zfs"
  <2>1. vols[e].life = "available" /\ vols[e].name = Own(b) /\ e \in Ids
    BY <1>4, Typed DEF EngineInv, OnIts
  <2>2. Keeps(e)
    BY <1>4, <2>1 DEF Grip
  <2>3. e' = e
    OBVIOUS
  <2>4. vols'[e].life = "available" /\ vols'[e].name = Own(b)
    BY <2>1, <2>2 DEF Keeps
  <2>5. OnIts(b)'
    BY <2>3, <2>4 DEF OnIts
  <2>6. QED
    BY <1>1, <2>5 DEF EngineInv
<1>5. QED
  BY <1>1, <1>2, <1>3, <1>4

\* or is told to end.
LEMMA EndedIsOff ==
    ASSUME TypeOK, NEW b \in Branches, EngineInv(b), EndEngine(b),
           UNCHANGED <<backend, taken, vols>>
    PROVE  Off(b)' /\ EngineInv(b)'
<1>1. engine'[b] = NoId \/ (engine'[b] = engine[b] /\ b \in left')
  BY EndEngineWrites
<1>2. CASE engine'[b] = NoId
  BY <1>2, GoesDown
<1>3. CASE engine'[b] = engine[b] /\ b \in left'
  BY <1>3 DEF Off, EngineInv, OnIts
<1>4. QED
  BY <1>1, <1>2, <1>3

\* What is asked of the stage a call goes on to, by the stage.
StageOf(b, pc) ==
    /\ pc \in NewPcs => task[b].new # NoId
    /\ pc = "rollback" /\ ~Files => task[b].new # NoId
    /\ pc \in {"wait", "mount"} => ~FixedName
    /\ pc \in {"copy", "copyInit", "copyBack"} => Files
    /\ pc \in {"init", "copyInit"} => engine'[b] = NoId
    /\ pc = "boot" => \/ engine'[b] = NoId
                      \/ engine'[b] = task[b].new /\ HoldsNext(b, task[b].new)
    /\ task[b].pc \in EndPcs => pc \in EndPcs \/ FixedName

\* The call goes on to a stage in which the engine is down.
LEMMA GoesOn ==
    ASSUME TypeOK, NEW b \in Branches, BranchInv(b), NEW pc \in OffPcs,
           UNCHANGED <<backend, taken>>, row'[b] = row[b],
           task'[b] = [task[b] EXCEPT !.pc = pc], task[b].pc # "idle",
           StageOf(b, pc), Kept(b), Off(b)', EngineInv(b)'
    PROVE  BranchInv(b)'
<1>1. task[b] \in Tasks
  BY Typed
<1>2. task'[b].pc = pc /\ task'[b].new = task[b].new /\ task'[b].old = task[b].old
  BY <1>1 DEF Tasks
<1>3. TaskInv(b)
  BY DEF BranchInv
<1>4. row'[b].state \in {"creating", "resetting", "deleting"}
  BY <1>3 DEF TaskInv
<1>5. OwnNew(b)' /\ OwnOld(b)'
  BY <1>2 DEF OwnNew, OwnOld, Kept
<1>6. pc \notin UpPcs /\ pc \notin {"idle", "kill", "halt"}
  BY DEF OffPcs, UpPcs
<1>7. (FixedName' <=> FixedName) /\ (Files' <=> Files)
  BY DEF FixedName, Files
<1> DEFINE n == task[b].new
<1>8. ~FixedName /\ n # NoId /\ pc \notin EndPcs => Newest(b, task[b].new)'
  <2>1. SUFFICES ASSUME ~FixedName, n # NoId, pc \notin EndPcs
                 PROVE  Newest(b, task[b].new)'
    OBVIOUS
  <2>2. NewestNext(b, n)
    BY <2>1 DEF Kept, StageOf
  <2>3. n' = n
    BY <1>2
  <2> HIDE DEF n
  <2>4. Newest(b, n)'
    BY <2>2, <2>3 DEF Newest, NewestNext, Live
  <2>5. QED
    BY <2>4 DEF n
<1>9. pc = "boot" => \/ engine'[b] = NoId
                     \/ engine'[b] = task'[b].new /\ Holds(b, task[b].new)'
  <2>1. HoldsNext(b, n) => Holds(b, n)'
    <3>1. n' = n
      BY <1>2
    <3> HIDE DEF n
    <3>2. QED
      BY <3>1 DEF Holds, HoldsNext
  <2>2. QED
    BY <1>2, <2>1 DEF StageOf
<1>10. StageOf(b, pc)
  OBVIOUS
<1>11. TaskInv(b)'
  BY <1>2, <1>3, <1>4, <1>5, <1>6, <1>7, <1>8, <1>9, <1>10 DEF TaskInv, StageOf
<1>12. RowInv(b)'
  BY <1>4 DEF RowInv
<1>13. QED
  BY <1>11, <1>12 DEF BranchInv

\* A call that is over leaves a row that says nothing of volumes, or one that
\* is justified by itself.
LEMMA Over ==
    ASSUME NEW b \in Branches, task'[b] = Idle, RowInv(b)', EngineInv(b)'
    PROVE  BranchInv(b)'
<1>1. task'[b].pc = "idle" /\ task'[b].new = NoId /\ task'[b].old = NoId
  BY IdleTyped
<1>2. "idle" \notin NewPcs \cup OffPcs \cup UpPcs \cup {"wait", "mount"}
      /\ NoId \notin Ids
  BY IdsAreNumbers DEF NewPcs, OffPcs, UpPcs
<1>3. OwnNew(b)' /\ OwnOld(b)'
  BY <1>1, <1>2 DEF OwnNew, OwnOld
<1>4. TaskInv(b)'
  BY <1>1, <1>2, <1>3 DEF TaskInv
<1>5. QED
  BY <1>4 DEF BranchInv

\* A call that has failed leaves a row in error, of which only the engine is
\* asked anything.
LEMMA Fails ==
    ASSUME TypeOK, NEW b \in Branches, FailOp(b), EngineInv(b)'
    PROVE  BranchInv(b)'
<1>1. task'[b] = Idle /\ row'[b].state = "error"
  <2>1. task'[b] = Idle /\ row'[b] = [state |-> "error", op |-> task[b].op]
    BY Writes
  <2>2. QED
    BY <2>1
<1>2. RowInv(b)'
  BY <1>1 DEF RowInv
<1>3. QED
  BY <1>1, <1>2, Over

\* A volume a call works on is calm.
LEMMA NewIsMine ==
    ASSUME TypeOK, NEW b \in Branches, BranchInv(b)
    PROVE  /\ task[b].new \in Ids => Mine(b, task[b].new)
           /\ task[b].old \in Ids => Mine(b, task[b].old)
           /\ task[b].pc \in NewPcs => task[b].new \in Ids
           /\ task[b].pc \in OffPcs => Off(b)
           /\ task[b].new # NoId => task[b].old # task[b].new
<1>1. TaskInv(b)
  BY DEF BranchInv
<1>2. QED
  BY <1>1, Typed DEF TaskInv, OwnNew, OwnOld, Mine, Used

\* A step that leaves the volumes alone is calm.
LEMMA UnchangedIsCalm ==
    ASSUME NEW b \in Branches, UNCHANGED vols
    PROVE  Calm(b)
BY DEF Calm, Stays, Grip, Keeps

\* The files of a volume, or its end.
LEMMA WorkIsCalm ==
    ASSUME TypeOK, NEW b \in Branches, NEW v, v \in Ids => Mine(b, v),
           \/ \E x : vols' = [vols EXCEPT ![v].data = x]
           \/ \E x : vols' = [vols EXCEPT ![v].init = x]
           \/ ~Busy(v) /\ vols' = Gone(v)
           \/ ~FixedName /\ vols' = [vols EXCEPT ![v].life = "deleting"]
    PROVE  Calm(b)
<1>1. vols \in [Ids -> Volumes]
  BY Typed
<1>2. \A u \in Ids : u # v => Stays(u)
  BY <1>1 DEF Stays, Gone
<1>3. ASSUME v \in Ids
      PROVE  Keeps(v) \/ Sinks(v)
  <2>1. vols[v] \in Volumes /\ Used(v)
    BY <1>1, <1>3 DEF Mine
  <2>2. CASE \E x : vols' = [vols EXCEPT ![v].data = x]
    BY <1>1, <1>3, <2>1, <2>2 DEF Keeps, Volumes
  <2>3. CASE \E x : vols' = [vols EXCEPT ![v].init = x]
    BY <1>1, <1>3, <2>1, <2>3 DEF Keeps, Volumes
  <2>4. CASE vols' = Gone(v)
    <3>1. vols'[v] = [Unused EXCEPT !.life = "gone"]
      BY <1>1, <1>3, <2>4 DEF Gone
    <3>2. vols'[v].life = "gone" /\ vols'[v].name = <<>>
      BY <3>1 DEF Unused
    <3>3. QED
      BY <2>1, <3>2 DEF Sinks
  <2>5. CASE ~FixedName /\ vols' = [vols EXCEPT ![v].life = "deleting"]
    <3>1. vols'[v] = [vols[v] EXCEPT !.life = "deleting"]
      BY <1>1, <1>3, <2>5
    <3>2. vols'[v].life = "deleting" /\ vols'[v].name = vols[v].name
      BY <2>1, <3>1 DEF Volumes
    <3>3. QED
      BY <2>1, <2>5, <3>2 DEF Sinks
  <2>6. QED
    BY <2>2, <2>3, <2>4, <2>5
<1>4. Grip(b)
  <2> SUFFICES ASSUME backend = "ebs-zfs", engine[b] \in Ids
               PROVE  Keeps(engine[b])
    BY DEF Grip
  <2>1. CASE engine[b] # v
    BY <1>2, <2>1 DEF Stays, Keeps
  <2>2. CASE engine[b] = v
    <3>1. v \in Ids /\ vols[v] \in Volumes /\ Busy(v) /\ FixedName
      BY <1>1, <2>2 DEF Busy, FixedName
    <3>2. \/ \E x : vols' = [vols EXCEPT ![v].data = x]
          \/ \E x : vols' = [vols EXCEPT ![v].init = x]
      BY <3>1
    <3>3. Keeps(v)
      BY <1>1, <3>1, <3>2 DEF Keeps, Volumes
    <3>4. QED
      BY <2>2, <3>3
  <2>3. QED
    BY <2>1, <2>2
<1>5. QED
  BY <1>2, <1>3, <1>4 DEF Calm

\* So is the deletion of a volume of the branch itself, whether it is carried
\* out or not.
LEMMA DeleteIsCalm ==
    ASSUME TypeOK, NEW b \in Branches, NEW v, v \in Ids => Mine(b, v),
           NEW ok \in BOOLEAN, DeleteAsync(v, ok)
    PROVE  Calm(b) /\ \A u \in Ids : u # v => Stays(u)
<1>1. vols \in [Ids -> Volumes]
  BY Typed
<1>2. \/ UNCHANGED vols
      \/ ~Busy(v) /\ vols' = Gone(v)
      \/ vols' = [vols EXCEPT ![v].data = "partial"]
      \/ ~FixedName /\ vols' = [vols EXCEPT ![v].life = "deleting"]
  <2>1. ReflinkDelete(v, ok) \/ ApfsDelete(v, ok) => ~Busy(v)
    BY DEF ReflinkDelete, ApfsDelete, Busy
  <2>2. RemoveAll(v, ok) => \/ UNCHANGED vols \/ vols' = Gone(v)
                            \/ vols' = [vols EXCEPT ![v].data = "partial"]
    BY DEF RemoveAll
  <2>3. ZfsDestroy(v, ok) => UNCHANGED vols \/ (~Busy(v) /\ vols' = Gone(v))
    BY DEF ZfsDestroy
  <2>4. FsxDelete(v, ok) => \/ UNCHANGED vols
                            \/ ~FixedName /\ vols' = [vols EXCEPT ![v].life = "deleting"]
    BY DEF FsxDelete, FixedName
  <2>5. ReflinkDelete(v, ok) \/ ApfsDelete(v, ok) => RemoveAll(v, ok)
    BY DEF ReflinkDelete, ApfsDelete
  <2>6. QED
    BY <2>1, <2>2, <2>3, <2>4, <2>5 DEF DeleteAsync
<1>3. Calm(b)
  BY <1>2, WorkIsCalm, UnchangedIsCalm
<1>4. \A u \in Ids : u # v => Stays(u)
  BY <1>1, <1>2 DEF Stays, Gone
<1>5. QED
  BY <1>3, <1>4

\* The stages in which the engine is down, and what they go on to.
LEMMA OffStep ==
    ASSUME TypeOK, Inv, NEW b \in Branches, Alone(b), Calm(b),
           task[b].pc \in OffPcs, UNCHANGED <<engine, left>>,
           \/ FailOp(b)
           \/ \E pc \in OffPcs : Goto(b, pc) /\ row'[b] = row[b] /\ StageOf(b, pc)
    PROVE  Inv'
<1>1. /\ BranchInv(b) /\ UNCHANGED <<backend, taken>> /\ engine'[b] = engine[b]
      /\ EngineInv(b) /\ Grip(b)
  BY DEF Inv, BranchInv, Alone, Calm
<1>2. Off(b)
  BY <1>1, NewIsMine
<1>3. Kept(b) /\ Off(b)' /\ EngineInv(b)'
  BY <1>1, <1>2, CalmKeeps, StaysOff
<1>4. CASE FailOp(b)
  <2>1. BranchInv(b)'
    BY <1>3, <1>4, Fails
  <2>2. QED
    BY <2>1, CalmCall
<1>5. ASSUME NEW pc \in OffPcs, Goto(b, pc), row'[b] = row[b], StageOf(b, pc)
      PROVE  Inv'
  <2>1. task'[b] = [task[b] EXCEPT !.pc = pc]
    BY <1>5, Writes
  <2>2. task[b].pc # "idle"
    BY DEF OffPcs
  <2>3. BranchInv(b)'
    BY <1>1, <1>3, <1>5, <2>1, <2>2, GoesOn
  <2>4. QED
    BY <2>3, CalmCall
<1>6. QED
  BY <1>4, <1>5

\* Where a call goes when its clone has failed.
LEMMA CloneFailedGoes ==
    ASSUME TypeOK, NEW b \in Branches, CloneFailed(b)
    PROVE  \/ FailOp(b)
           \/ Goto(b, "restore") /\ UNCHANGED row
BY DEF CloneFailed

\* Nothing is asked of the new volume once the old one is being put back.
LEMMA RestoreStage ==
    /\ "restore" \in OffPcs
    /\ \A b \in Branches : task[b].pc \notin EndPcs => StageOf(b, "restore")
BY DEF OffPcs, NewPcs, StageOf

\* The create waits for AWS, finds it failed, or gives up and leaves the
\* volume to come up late.
LEMMA FsxWaitInv ==
    ASSUME TypeOK, Inv, NEW b \in Branches, FsxWait(b)
    PROVE  Inv'
<1>1. BranchInv(b) /\ task[b].pc = "wait"
  BY DEF Inv, FsxWait, At
<1>2. ~FixedName /\ task[b].new # NoId
  BY <1>1 DEF BranchInv, TaskInv, NewPcs
<1>3. Alone(b) /\ Calm(b) /\ UNCHANGED <<engine, left>>
  BY MakesAlone, UnchangedIsCalm DEF FsxWait
<1>4. \/ FailOp(b)
      \/ Goto(b, "mount") /\ UNCHANGED row
  BY <1>2 DEF FsxWait, CloneFailed
<1>5. "wait" \in OffPcs /\ "mount" \in OffPcs /\ StageOf(b, "mount")
  BY <1>1, <1>2 DEF OffPcs, EndPcs, StageOf
<1>6. QED
  BY <1>1, <1>2, <1>3, <1>4, <1>5, OffStep

\* The volume that became available is mounted.
LEMMA FsxMountInv ==
    ASSUME TypeOK, Inv, NEW b \in Branches, FsxMount(b)
    PROVE  Inv'
<1>1. BranchInv(b) /\ task[b].pc = "mount"
  BY DEF Inv, FsxMount, At
<1>2. ~FixedName /\ task[b].new # NoId /\ task[b].new \in Ids /\ Mine(b, task[b].new)
  BY <1>1, NewIsMine DEF BranchInv, TaskInv, NewPcs
<1>3. ASSUME NEW life \in {"available", "deleting"},
             vols' = [vols EXCEPT ![task[b].new].life = IF @ = "available" THEN life ELSE @]
      PROVE  Calm(b)
  <2> DEFINE v == task[b].new
             x == IF vols[v].life = "available" THEN life ELSE vols[v].life
  <2>1. vols' = [vols EXCEPT ![v] = [vols[v] EXCEPT !.life = x]]
    BY <1>3
  <2>2. v \in Ids /\ Mine(b, v) /\ vols \in [Ids -> Volumes] /\ vols[v] \in Volumes
    BY <1>2, Typed
  <2>3. x = vols[v].life \/ x = "deleting"
    OBVIOUS
  <2> HIDE DEF v, x
  <2>4. \A u \in Ids : u # v => Stays(u)
    BY <2>1, <2>2 DEF Stays
  <2>5. vols'[v] = [vols[v] EXCEPT !.life = x]
    BY <2>1, <2>2
  <2>6. vols'[v].life = x /\ vols'[v].name = vols[v].name
    BY <2>2, <2>5 DEF Volumes
  <2>7. Keeps(v) \/ Sinks(v)
    BY <1>2, <2>2, <2>3, <2>6 DEF Keeps, Sinks, Mine
  <2>8. Grip(b)
    BY <1>2 DEF Grip, FixedName
  <2>9. QED
    BY <2>2, <2>4, <2>7, <2>8 DEF Calm
<1>4. Calm(b)
  BY <1>3, UnchangedIsCalm DEF FsxMount
<1>5. Alone(b) /\ UNCHANGED <<engine, left>>
  BY MakesAlone DEF FsxMount
<1>6. \/ FailOp(b)
      \/ Goto(b, "provision") /\ UNCHANGED row
  BY <1>2 DEF FsxMount, CloneFailed
<1>7. {"mount", "provision"} \subseteq OffPcs /\ StageOf(b, "provision")
  BY <1>1, <1>2 DEF OffPcs, EndPcs, StageOf
<1>8. QED
  BY <1>1, <1>2, <1>4, <1>5, <1>6, <1>7, OffStep

\* The tree is copied, or what there is of it is removed.
LEMMA CloneTreeInv ==
    ASSUME TypeOK, Inv, NEW b \in Branches, CloneTree(b)
    PROVE  Inv'
<1>1. BranchInv(b) /\ task[b].pc = "copy"
  BY DEF Inv, CloneTree, At
<1>2. task[b].new # NoId /\ (task[b].new \in Ids => Mine(b, task[b].new))
  BY <1>1, NewIsMine DEF BranchInv, TaskInv, NewPcs
<1>3. Calm(b)
  <2>1. ~Busy(task[b].new)
    BY <1>1 DEF BranchInv, TaskInv, Files, Busy
  <2>2. QED
    BY <1>2, <2>1, WorkIsCalm DEF CloneTree
<1>4. Alone(b) /\ UNCHANGED <<engine, left>>
  BY MakesAlone DEF CloneTree
<1>5. \/ FailOp(b)
      \/ Goto(b, "restore") /\ UNCHANGED row
      \/ Goto(b, "provision") /\ UNCHANGED row
  BY CloneFailedGoes DEF CloneTree
<1>6. /\ {"copy", "provision"} \subseteq OffPcs /\ "copy" \notin EndPcs
      /\ StageOf(b, "provision")
  BY <1>1, <1>2 DEF OffPcs, EndPcs, StageOf
<1>7. QED
  BY <1>1, <1>2, <1>3, <1>4, <1>5, <1>6, RestoreStage, OffStep

\* `@init` is taken, or `.init` begun.
LEMMA SnapshotInitInv ==
    ASSUME TypeOK, Inv, NEW b \in Branches, SnapshotInit(b)
    PROVE  Inv'
<1>1. BranchInv(b) /\ task[b].pc = "init"
  BY DEF Inv, SnapshotInit, At
<1>2. task[b].new # NoId /\ (task[b].new \in Ids => Mine(b, task[b].new))
  BY <1>1, NewIsMine DEF BranchInv, TaskInv, NewPcs
<1>3. \/ UNCHANGED vols \/ \E x : vols' = [vols EXCEPT ![task[b].new].init = x]
  BY DEF SnapshotInit, ZfsInit, FsxInit, ReflinkInit, ApfsInit, InitTo
<1>4. Calm(b)
  BY <1>2, <1>3, WorkIsCalm, UnchangedIsCalm
<1>5. Alone(b) /\ UNCHANGED <<engine, left>>
  BY ProvisionsAlone DEF SnapshotInit
<1>6. \/ FailOp(b)
      \/ Goto(b, "boot") /\ UNCHANGED row
      \/ Goto(b, "copyInit") /\ UNCHANGED row /\ Files
  BY DEF SnapshotInit, ZfsInit, FsxInit, ReflinkInit, ApfsInit, Files
<1>7. /\ {"init", "boot", "copyInit"} \subseteq OffPcs
      /\ StageOf(b, "boot") /\ (Files => StageOf(b, "copyInit"))
  <2>1. engine'[b] = NoId
    BY <1>1, <1>5 DEF BranchInv, TaskInv
  <2>2. QED
    BY <1>1, <1>2, <2>1 DEF OffPcs, EndPcs, StageOf
<1>8. QED
  BY <1>1, <1>2, <1>4, <1>5, <1>6, <1>7, OffStep

\* `.init` is copied from the data.
LEMMA CopyInitInv ==
    ASSUME TypeOK, Inv, NEW b \in Branches, CopyInit(b)
    PROVE  Inv'
<1>1. BranchInv(b) /\ task[b].pc = "copyInit"
  BY DEF Inv, CopyInit, At
<1>2. task[b].new # NoId /\ (task[b].new \in Ids => Mine(b, task[b].new))
  BY <1>1, NewIsMine DEF BranchInv, TaskInv, NewPcs
<1>3. Calm(b)
  BY <1>2, WorkIsCalm, UnchangedIsCalm DEF CopyInit, InitTo
<1>4. Alone(b) /\ UNCHANGED <<engine, left>>
  BY ProvisionsAlone DEF CopyInit
<1>5. \/ FailOp(b)
      \/ Goto(b, "boot") /\ UNCHANGED row
  BY DEF CopyInit
<1>6. {"copyInit", "boot"} \subseteq OffPcs /\ StageOf(b, "boot")
  <2>1. engine'[b] = NoId
    BY <1>1, <1>4 DEF BranchInv, TaskInv
  <2>2. QED
    BY <1>1, <1>2, <2>1 DEF OffPcs, EndPcs, StageOf
<1>7. QED
  BY <1>1, <1>2, <1>3, <1>4, <1>5, <1>6, OffStep

\* A stale stash is the branch's own.
LEMMA DropStaleInv ==
    ASSUME TypeOK, Inv, NEW b \in Branches, DropStale(b)
    PROVE  Inv'
<1>1. BranchInv(b) /\ task[b].pc = "stale"
  BY DEF Inv, DropStale, At
<1>2. ASSUME NEW v \in ResolveVolume(Stash(b)), v \in Ids
      PROVE  Mine(b, v)
  BY <1>2, ResolveTyped, IdsAreNumbers DEF Named, Mine, Used
<1>3. Calm(b)
  <2>1. CASE UNCHANGED vols
    BY <2>1, UnchangedIsCalm
  <2>2. ASSUME NEW v \in ResolveVolume(Stash(b)), NEW ok \in BOOLEAN, DeleteAsync(v, ok)
        PROVE  Calm(b)
    BY <1>2, <2>2, DeleteIsCalm
  <2>3. QED
    BY <2>1, <2>2 DEF DropStale
<1>4. Alone(b) /\ UNCHANGED <<engine, left>> /\ UNCHANGED row
  BY ReplacesAlone DEF DropStale
<1>5. Goto(b, "stash") \/ Goto(b, "clone")
  BY DEF DropStale
<1>6. /\ {"stale", "stash", "clone"} \subseteq OffPcs
      /\ StageOf(b, "stash") /\ StageOf(b, "clone")
  BY <1>1 DEF OffPcs, NewPcs, EndPcs, StageOf
<1>7. QED
  BY <1>1, <1>3, <1>4, <1>5, <1>6, OffStep

\* A rename needs a volume, and a name that stands for nothing.
LEMMA RenameStep ==
    ASSUME TypeOK, Inv, NEW b \in Branches, Alone(b), NEW v \in Ids,
           NEW n \in {Own(b), Stash(b)},
           Mine(b, v), Renames(v, n), Rename(v, n)
    PROVE  /\ StoreInv'
           /\ \A c \in Branches \ {b}, u \in Ids : Bears(c, u)
           /\ \A u \in Ids : u # v => Stays(u)
           /\ vols'[v].life = "available" /\ vols'[v].name = n
           /\ Grip(b)
<1>1. vols \in [Ids -> Volumes] /\ vols[v] \in Volumes /\ vols[v].life = "available"
  BY Typed DEF Renames
<1>2. \A u \in Ids : u # v => Stays(u)
  BY <1>1 DEF Rename, Stays
<1>3. vols'[v] = [vols[v] EXCEPT !.name = n]
  BY <1>1 DEF Rename
<1>4. vols'[v].life = "available" /\ vols'[v].name = n
  BY <1>1, <1>3 DEF Volumes
<1>5. n \in Names /\ n # <<>>
  BY NamesApart
<1>6. UNCHANGED <<backend, taken>> /\ StoreInv
  BY DEF Alone, Inv
<1>7. IdsInOrder'
  BY <1>1, <1>2, <1>4, <1>6 DEF StoreInv, IdsInOrder, Stays
<1>8. NamesOfVolumes'
  BY <1>1, <1>2, <1>4, <1>5, <1>6 DEF StoreInv, NamesOfVolumes, Live, Stays
<1>9. OneVolumePerName'
  <2>1. \A u \in Ids : u # v /\ vols[u].life = "available" => vols[u].name # n
    BY DEF Renames, Named
  <2>2. FixedName' <=> FixedName
    BY <1>6 DEF FixedName
  <2>3. OneVolumePerName
    BY <1>6 DEF StoreInv
  <2>4. QED
    BY <1>2, <1>4, <2>1, <2>2, <2>3 DEF OneVolumePerName, Stays
<1>10. TakenForGood'
  <2>1. v \notin taken /\ taken \subseteq Ids
    BY <1>1, <1>6 DEF StoreInv, TakenForGood, Dead, TypeOK
  <2>2. QED
    BY <1>2, <1>6, <2>1 DEF StoreInv, TakenForGood, Dead, Stays
<1>11. ASSUME NEW c \in Branches \ {b}, NEW u \in Ids
       PROVE  Bears(c, u)
  <2>1. CASE u # v
    BY <1>2, <2>1 DEF Bears
  <2>2. CASE u = v
    <3>1. {Own(c), Stash(c)} \cap {Own(b), Stash(b), <<>>} = {}
      BY NamesApart
    <3>2. vols[v].name \in {Own(b), Stash(b), <<>>} /\ vols[v].name # <<>>
      <4>1. vols[v].name \in Names
        BY <1>1, <1>6 DEF StoreInv, NamesOfVolumes, Live
      <4>2. QED
        BY <4>1, NamesApart DEF Mine
    <3>3. Apart(c, v)
      BY <1>1, <1>4, <3>1, <3>2 DEF Apart
    <3>4. QED
      BY <2>2, <3>3 DEF Bears
  <2>3. QED
    BY <2>1, <2>2
<1>12. Grip(b)
  BY <1>2 DEF Renames, Busy, Grip, Stays, Keeps
<1>13. QED
  BY <1>2, <1>4, <1>7, <1>8, <1>9, <1>10, <1>11, <1>12 DEF StoreInv

\* The old volume is renamed to the stash name, or the call fails.
LEMMA StashOldInv ==
    ASSUME TypeOK, Inv, NEW b \in Branches, StashOld(b)
    PROVE  Inv'
<1> DEFINE v == task[b].old
           n == task[b].new
<1>1. BranchInv(b) /\ task[b].pc = "stash" /\ Off(b)
  BY NewIsMine DEF Inv, StashOld, At, OffPcs
<1>2. /\ Alone(b) /\ UNCHANGED <<backend, taken, engine, left>>
      /\ engine'[b] = engine[b]
  BY ReplacesAlone DEF StashOld, Alone
<1>3. CASE FailOp(b) /\ UNCHANGED vols
  BY <1>1, <1>2, <1>3, UnchangedIsCalm, OffStep DEF StashOld, OffPcs
<1>4. CASE Renames(v, Stash(b)) /\ Rename(v, Stash(b)) /\ Goto(b, "clone") /\ UNCHANGED row
  <2>1. v \in Ids /\ Mine(b, v) /\ n \in Ids \cup {NoId} /\ NoId \notin Ids
    BY <1>1, <1>4, Typed, NewIsMine, IdsAreNumbers DEF Renames
  <2>2. /\ StoreInv' /\ \A c \in Branches \ {b}, u \in Ids : Bears(c, u)
        /\ \A u \in Ids : u # v => Stays(u)
        /\ vols'[v].life = "available" /\ vols'[v].name = Stash(b) /\ Grip(b)
    BY <1>2, <1>4, <2>1, RenameStep
  <2>3. TaskInv(b)
    BY <1>1 DEF BranchInv
  <2>4. n \in Ids => n # v
    BY <2>1, <2>3 DEF TaskInv
  <2>5. n \in Ids => vols'[n].life # "unused" /\ vols'[n].name \in {Own(b), <<>>}
    BY <2>2, <2>3, <2>4 DEF TaskInv, OwnNew, Stays
  <2>6. ASSUME Newest(b, n)
        PROVE  NewestNext(b, n)
    BY <2>2, <2>6, NamesApart DEF Newest, NewestNext, Live, Stays
  <2>7. ~FixedName /\ n # NoId => Newest(b, n)
    BY <1>1, <2>3 DEF TaskInv, EndPcs
  <2>8. Kept(b)
    BY <2>2, <2>5, <2>6, <2>7 DEF Kept
  <2>9. "clone" \in OffPcs /\ StageOf(b, "clone")
    BY <1>1 DEF OffPcs, NewPcs, EndPcs, StageOf
  <2>10. task'[b] = [task[b] EXCEPT !.pc = "clone"] /\ row'[b] = row[b]
    BY <1>4, Writes
  <2>11. Off(b)' /\ EngineInv(b)'
    BY <1>1, <1>2, <2>2, StaysOff DEF BranchInv
  <2>12. BranchInv(b)'
    BY <1>1, <1>2, <2>8, <2>9, <2>10, <2>11, GoesOn
  <2>13. QED
    BY <1>2, <2>2, <2>12, OthersBear
<1>5. QED
  BY <1>3, <1>4 DEF StashOld

\* The old volume is put back, and its engine may be started again.
LEMMA RestoreOldInv ==
    ASSUME TypeOK, Inv, NEW b \in Branches, RestoreOld(b)
    PROVE  Inv'
<1> DEFINE v == task[b].old
<1>1. BranchInv(b) /\ task[b].pc = "restore" /\ Off(b)
  BY NewIsMine DEF Inv, RestoreOld, At, OffPcs
<1>2. Alone(b) /\ UNCHANGED <<backend, taken>> /\ FailOp(b)
  BY ReplacesAlone DEF RestoreOld, Alone
<1>3. CASE UNCHANGED <<vols, engine, left>>
  BY <1>1, <1>2, <1>3, UnchangedIsCalm, OffStep DEF OffPcs
<1>4. CASE /\ Renames(v, Own(b)) /\ Rename(v, Own(b))
           /\ \E e \in {engine[b], v} : SetEngine(b, e)
  <2>1. v \in Ids /\ Mine(b, v)
    BY <1>1, <1>4, Typed, NewIsMine DEF Renames
  <2>2. /\ StoreInv' /\ \A c \in Branches \ {b}, u \in Ids : Bears(c, u)
        /\ vols'[v].life = "available" /\ vols'[v].name = Own(b) /\ Grip(b)
    BY <1>2, <1>4, <2>1, RenameStep
  <2>3. \/ engine'[b] = v
        \/ engine'[b] = engine[b] /\ (b \in left => b \in left')
    BY <1>4, Writes DEF SetEngine
  <2>4. EngineInv(b)'
    <3>1. CASE engine'[b] = v
      <4>1. vols'[engine'[b]].life = "available" /\ vols'[engine'[b]].name = Own(b)
        BY <2>2, <3>1
      <4>2. QED
        BY <4>1 DEF EngineInv, OnIts
    <3>2. CASE engine'[b] = engine[b] /\ (b \in left => b \in left')
      BY <1>1, <1>2, <2>2, <3>2, StaysOff DEF BranchInv
    <3>3. QED
      BY <2>3, <3>1, <3>2
  <2>5. BranchInv(b)'
    BY <1>2, <2>4, Fails
  <2>6. QED
    BY <1>2, <2>2, <2>5, OthersBear
<1>5. QED
  BY <1>3, <1>4 DEF RestoreOld

\* A volume is made: the youngest there is, and off fsx the only one of its name.
LEMMA MadeStep ==
    ASSUME TypeOK, Inv, NEW b \in Branches, Alone(b), CanMake,
           NEW life \in {"creating", "available"}, NEW data, Made(b, life, data),
           FixedName => life = "available" /\ Named(Own(b)) = {}
    PROVE  /\ StoreInv'
           /\ \A c \in Branches \ {b}, u \in Ids : Bears(c, u)
           /\ \A u \in Ids : u # NextId => Stays(u)
           /\ vols'[NextId].life = life /\ vols'[NextId].name = Own(b)
           /\ NewestNext(b, NextId)
           /\ NextId \in Ids /\ vols[NextId].life = "unused"
           /\ Grip(b)
<1> DEFINE v == NextId
<1>1. /\ v \in Ids /\ vols[v].life = "unused"
      /\ \A u \in Ids : vols[u].life = "unused" => v <= u
  BY NextIdIsLeast
<1>2. vols' = [vols EXCEPT ![v] = [life |-> life, name |-> Own(b), data |-> data,
                                   init |-> "none"]]
  BY DEF Made
<1>3. vols \in [Ids -> Volumes] /\ Ids \subseteq Nat
  BY Typed, IdsAreNumbers
<1>4. UNCHANGED <<backend, taken>> /\ StoreInv
  BY DEF Alone, Inv
<1> HIDE DEF v
<1>5. \A u \in Ids : u # v => Stays(u)
  BY <1>1, <1>2, <1>3 DEF Stays
<1>6. vols'[v].life = life /\ vols'[v].name = Own(b)
  BY <1>1, <1>2, <1>3
<1>7. Own(b) \in Names /\ Own(b) # <<>>
  BY NamesApart
<1>8. IdsInOrder'
  <2>1. IdsInOrder
    BY <1>4 DEF StoreInv
  <2>2. ASSUME NEW u \in Ids, NEW w \in Ids, u < w, vols'[u].life = "unused"
        PROVE  vols'[w].life = "unused"
    <3>1. u # v /\ vols[u].life = "unused"
      BY <1>5, <1>6, <2>2 DEF Stays
    <3>2. v <= u /\ w # v
      BY <1>1, <1>3, <2>2, <3>1
    <3>3. vols[w].life = "unused"
      BY <2>1, <2>2, <3>1 DEF IdsInOrder
    <3>4. QED
      BY <1>5, <3>2, <3>3 DEF Stays
  <2>3. QED
    BY <2>2 DEF IdsInOrder
<1>9. NamesOfVolumes'
  BY <1>4, <1>5, <1>6, <1>7 DEF StoreInv, NamesOfVolumes, Live, Stays
<1>10. OneVolumePerName'
  <2>1. FixedName => \A u \in Ids : vols[u].life = "available" => vols[u].name # Own(b)
    BY DEF Named
  <2>2. FixedName' <=> FixedName
    BY <1>4 DEF FixedName
  <2>3. OneVolumePerName
    BY <1>4 DEF StoreInv
  <2>4. QED
    BY <1>5, <1>6, <2>1, <2>2, <2>3 DEF OneVolumePerName, Stays
<1>11. TakenForGood'
  <2>1. v \notin taken /\ taken \subseteq Ids
    BY <1>1, <1>4 DEF StoreInv, TakenForGood, Dead, TypeOK
  <2>2. QED
    BY <1>4, <1>5, <2>1 DEF StoreInv, TakenForGood, Dead, Stays
<1>12. ASSUME NEW c \in Branches \ {b}, NEW u \in Ids
       PROVE  Bears(c, u)
  <2>1. CASE u # v
    BY <1>5, <2>1 DEF Bears
  <2>2. CASE u = v
    <3>1. {Own(c), Stash(c)} \cap {Own(b), Stash(b), <<>>} = {}
      BY NamesApart
    <3>2. vols[v].name = <<>>
      BY <1>1, <1>4 DEF StoreInv, NamesOfVolumes
    <3>3. Apart(c, v)
      BY <1>1, <1>6, <3>1, <3>2 DEF Apart, Used
    <3>4. QED
      BY <2>2, <3>3 DEF Bears
  <2>3. QED
    BY <2>1, <2>2
<1>13. NewestNext(b, v)
  <2> SUFFICES ASSUME NEW u \in Ids, vols'[u].life \in {"creating", "available"}
               PROVE  u <= v
    BY DEF NewestNext
  <2>1. CASE u = v
    BY <2>1, <1>1, <1>3
  <2>2. CASE u # v
    <3>1. vols[u].life # "unused"
      BY <2>2, <1>5 DEF Stays
    <3>2. ~(v < u)
      BY <3>1, <1>1, <1>4 DEF StoreInv, IdsInOrder
    <3>3. QED
      BY <3>2, <1>1, <1>3
  <2>3. QED
    BY <2>1, <2>2
<1>14. StoreInv'
  BY <1>8, <1>9, <1>10, <1>11 DEF StoreInv
<1>15. Grip(b)
  <2>1. backend = "ebs-zfs" /\ engine[b] \in Ids => OnIts(b) /\ engine[b] # NoId
    BY IdsAreNumbers DEF Inv, BranchInv, EngineInv
  <2>2. \A u \in taken : u # v
    BY <1>1, <1>4 DEF StoreInv, TakenForGood, Dead
  <2>3. backend = "ebs-zfs" /\ engine[b] \in Ids => engine[b] # v
    BY <2>1, <2>2, <1>1 DEF OnIts
  <2>4. QED
    BY <2>3, <1>5 DEF Grip, Stays, Keeps
<1>16. QED
  BY <1>1, <1>5, <1>6, <1>12, <1>13, <1>14, <1>15 DEF v

\* What the call held before it made a volume, it still holds.
LEMMA MadeKeeps ==
    ASSUME TypeOK, Inv, NEW b \in Branches, NEW v \in Ids, vols[v].life = "unused",
           \A u \in Ids : u # v => Stays(u), FixedName
    PROVE  Kept(b) /\ task[b].old # v
<1>1. TaskInv(b) /\ task[b].new # v /\ task[b].old # v
  BY DEF Inv, BranchInv, TaskInv, OwnNew, OwnOld
<1>2. QED
  BY <1>1 DEF Kept, TaskInv, OwnNew, OwnOld, Stays

\* The volume made becomes the task's new one.
LEMMA MadeByInv ==
    ASSUME TypeOK, Inv, NEW b \in Branches, Alone(b), task[b].pc = "clone",
           UNCHANGED <<engine, left>>, CanMake, NEW life \in {"creating", "available"}, NEW data, Made(b, life, data),
           FixedName => life = "available" /\ Named(Own(b)) = {},
           NEW pc \in {"wait", "copy", "provision"}, MadeBy(b, pc),
           pc = "wait" => ~FixedName, pc = "copy" => Files,
           row'[b] = row[b]
    PROVE  Inv'
<1> DEFINE v == NextId
<1>1. BranchInv(b) /\ TaskInv(b) /\ UNCHANGED <<backend, taken>>
  BY DEF Inv, BranchInv, Alone
<1>2. /\ StoreInv'
      /\ \A c \in Branches \ {b}, u \in Ids : Bears(c, u)
      /\ \A u \in Ids : u # v => Stays(u)
      /\ vols'[v].life = life /\ vols'[v].name = Own(b)
      /\ NewestNext(b, v)
      /\ v \in Ids /\ vols[v].life = "unused" /\ Grip(b)
  BY MadeStep
<1>3. task' = [task EXCEPT ![b].pc = pc, ![b].new = v]
  BY DEF MadeBy
<1> HIDE DEF v
<1>4. task \in [Branches -> Tasks] /\ task[b] \in Tasks
  BY Typed
<1>5. task'[b].pc = pc /\ task'[b].new = v /\ task'[b].old = task[b].old
  BY <1>3, <1>4 DEF Tasks
<1>6. Off(b)' /\ EngineInv(b)'
  <2>1. Off(b)
    BY <1>1, NewIsMine DEF OffPcs
  <2>2. QED
    BY <1>1, <1>2, <2>1, StaysOff DEF BranchInv
<1>7. task[b].old # v
  BY <1>1, <1>2 DEF TaskInv, OwnOld
<1>8. OwnOld(b)'
  BY <1>1, <1>2, <1>5, <1>7 DEF TaskInv, OwnOld, Stays
<1>9. OwnNew(b)'
  BY <1>2, <1>5 DEF OwnNew
<1>10. v # NoId
  BY <1>2, IdsAreNumbers
<1>11. Newest(b, task[b].new)'
  BY <1>2, <1>5 DEF Newest, NewestNext, Live
<1>12. row'[b].state \in {"creating", "resetting", "deleting"}
  BY <1>1 DEF TaskInv
<1>13. /\ pc \in NewPcs
       /\ pc \notin UpPcs \cup {"idle", "kill", "rollback", "halt", "mount", "copyBack",
                               "init", "copyInit", "boot"}
  BY DEF NewPcs, UpPcs
<1>14. (FixedName' <=> FixedName) /\ (Files' <=> Files)
  BY <1>1 DEF FixedName, Files
<1>15. TaskInv(b)'
  BY <1>5, <1>6, <1>7, <1>8, <1>9, <1>10, <1>11, <1>12, <1>13, <1>14 DEF TaskInv
<1>16. RowInv(b)'
  BY <1>12 DEF RowInv
<1>17. BranchInv(b)'
  BY <1>6, <1>15, <1>16 DEF BranchInv
<1>18. QED
  BY <1>2, <1>17, OthersBear

\* A volume is made and the call fails all the same.
LEMMA MadeInVain ==
    ASSUME TypeOK, Inv, NEW b \in Branches, Alone(b), task[b].pc = "clone",
           UNCHANGED <<engine, left>>, CanMake, NEW life \in {"creating", "available"}, NEW data, Made(b, life, data),
           FixedName => life = "available" /\ Named(Own(b)) = {},
           CloneFailed(b)
    PROVE  Inv'
<1>1. BranchInv(b) /\ UNCHANGED <<backend, taken>> /\ Off(b)
  BY NewIsMine DEF Inv, Alone, OffPcs
<1>2. /\ StoreInv'
      /\ \A c \in Branches \ {b}, u \in Ids : Bears(c, u)
      /\ \A u \in Ids : u # NextId => Stays(u)
      /\ NextId \in Ids /\ vols[NextId].life = "unused" /\ Grip(b)
  BY MadeStep
<1>3. Off(b)' /\ EngineInv(b)'
  BY <1>1, <1>2, StaysOff DEF BranchInv
<1>4. BranchInv(b)'
  <2>1. CASE FailOp(b)
    BY <1>3, <2>1, Fails
  <2>2. CASE ~FailOp(b)
    <3>1. FixedName /\ row'[b] = row[b] /\ task'[b] = [task[b] EXCEPT !.pc = "restore"]
      BY <2>2, CloneFailedWrites
    <3>2. Kept(b)
      BY <1>2, <3>1, MadeKeeps
    <3>3. StageOf(b, "restore")
      BY RestoreStage DEF EndPcs
    <3>4. QED
      BY <1>1, <1>3, <3>1, <3>2, <3>3, RestoreStage, GoesOn
  <2>3. QED
    BY <2>1, <2>2
<1>5. QED
  BY <1>2, <1>4, OthersBear

\* Nothing is made.
LEMMA NothingMade ==
    ASSUME TypeOK, Inv, NEW b \in Branches, Alone(b), task[b].pc = "clone",
           UNCHANGED <<vols, engine, left>>, CloneFailed(b)
    PROVE  Inv'
<1>1. Calm(b) /\ "clone" \in OffPcs /\ "clone" \notin EndPcs
  BY UnchangedIsCalm DEF OffPcs, EndPcs
<1>2. FailOp(b) \/ (Goto(b, "restore") /\ row'[b] = row[b])
  BY CloneFailedGoes
<1>3. QED
  BY <1>1, <1>2, RestoreStage, OffStep

\* The clone is made, is asked for, or fails with part of it done.
LEMMA CloneInv ==
    ASSUME TypeOK, Inv, NEW b \in Branches, Clone(b)
    PROVE  Inv'
<1>1. /\ Alone(b) /\ task[b].pc = "clone" /\ CanMake /\ UNCHANGED <<engine, left>>
  BY MakesAlone DEF Clone, At
<1>2. CASE ZfsClone(b)
  <2>1. \/ Named(Own(b)) = {} /\ Made(b, "available", "whole")
             /\ MadeBy(b, "provision") /\ UNCHANGED row
        \/ Named(Own(b)) = {} /\ Made(b, "available", "whole") /\ CloneFailed(b)
        \/ CloneFailed(b) /\ UNCHANGED vols
    BY <1>2 DEF ZfsClone
  <2>2. QED
    BY <1>1, <2>1, MadeByInv, MadeInVain, NothingMade
<1>3. CASE FsxClone(b)
  <2>1. ~FixedName
    BY <1>3 DEF FsxClone, FixedName
  <2>2. \/ Made(b, "creating", "whole") /\ MadeBy(b, "wait") /\ UNCHANGED row
        \/ Made(b, "creating", "whole") /\ CloneFailed(b)
        \/ CloneFailed(b) /\ UNCHANGED vols
    BY <1>3 DEF FsxClone
  <2>3. QED
    BY <1>1, <2>1, <2>2, MadeByInv, MadeInVain, NothingMade
<1>4. CASE MakeDir(b) /\ Files
  <2>1. \/ Named(Own(b)) = {} /\ Made(b, "available", "partial")
             /\ MadeBy(b, "copy") /\ UNCHANGED row
        \/ CloneFailed(b) /\ UNCHANGED vols
    BY <1>4 DEF MakeDir
  <2>2. QED
    BY <1>1, <1>4, <2>1, MadeByInv, NothingMade
<1>5. QED
  BY <1>2, <1>3, <1>4 DEF Clone, ReflinkClone, ApfsClone, Files

\* A call works on a volume of its branch or on none that is left.
LEMMA LiveNewIsOwn ==
    ASSUME TypeOK, Inv, NEW b \in Branches, task[b].new \in Ids,
           vols[task[b].new].life = "available"
    PROVE  vols[task[b].new].name = Own(b)
<1>1. vols[task[b].new].name \in {Own(b), <<>>}
  BY DEF Inv, BranchInv, TaskInv, OwnNew
<1>2. vols[task[b].new].name \in Names
  BY DEF Inv, StoreInv, NamesOfVolumes, Live
<1>3. QED
  BY <1>1, <1>2, NamesApart

\* Quota, first start, hook and stop; when they fail the engine may stay.
LEMMA ProvisionInv ==
    ASSUME TypeOK, Inv, NEW b \in Branches, Provision(b)
    PROVE  Inv'
<1>1. /\ Alone(b) /\ Calm(b) /\ UNCHANGED <<backend, taken, vols>>
      /\ task[b].pc = "provision" /\ BranchInv(b)
  BY ProvisionsAlone, UnchangedIsCalm DEF Provision, At, Inv
<1>2. task[b].new \in Ids /\ task[b].new # NoId
  BY <1>1, NewIsMine, IdsAreNumbers DEF NewPcs
<1>3. CASE SetEngine(b, NoId) /\ Goto(b, "init") /\ UNCHANGED row
  <2>1. engine'[b] = NoId /\ task'[b] = [task[b] EXCEPT !.pc = "init"] /\ row'[b] = row[b]
    BY <1>3, Writes
  <2>2. "init" \in OffPcs /\ StageOf(b, "init")
    BY <1>1, <1>2, <2>1 DEF OffPcs, EndPcs, StageOf
  <2>3. BranchInv(b)'
    BY <1>1, <1>2, <2>1, <2>2, CalmKeeps, GoesDown, GoesOn
  <2>4. QED
    BY <1>1, <2>3, CalmCall
<1>4. ASSUME NEW e \in {NoId, task[b].new, engine[b]},
             e = task[b].new => vols[e].life = "available", SetEngine(b, e), FailOp(b)
      PROVE  Inv'
  <2>1. engine'[b] = e
    BY <1>4, Writes
  <2>2. e = task[b].new => vols'[e].life = "available" /\ vols'[e].name = Own(b)
    BY <1>1, <1>2, <1>4, LiveNewIsOwn
  <2>3. EngineInv(b)'
    <3>1. CASE e = engine[b]
      <4>1. UNCHANGED left /\ EngineInv(b)
        BY <1>1, <1>4, <3>1 DEF SetEngine, BranchInv
      <4>2. QED
        BY <1>1, <2>1, <3>1, <4>1 DEF EngineInv, OnIts
    <3>2. CASE e # engine[b]
      <4>1. e = NoId \/ e = task[b].new
        BY <3>2
      <4>2. OnIts(b)'
        BY <2>1, <2>2, <4>1 DEF OnIts
      <4>3. QED
        BY <4>2 DEF EngineInv
    <3>3. QED
      BY <3>1, <3>2
  <2>4. BranchInv(b)'
    BY <1>4, <2>3, Fails
  <2>5. QED
    BY <1>1, <2>4, CalmCall
<1>5. QED
  BY <1>3, <1>4 DEF Provision

\* The call goes on with the engine up on the new volume.
LEMMA GoesUp ==
    ASSUME TypeOK, NEW b \in Branches, BranchInv(b), NEW pc \in UpPcs,
           UNCHANGED <<backend, taken>>, row'[b] = row[b],
           task'[b] = [task[b] EXCEPT !.pc = pc],
           task[b].pc \in {"boot", "dropOld"}, engine'[b] = task[b].new,
           HoldsNext(b, task[b].new), Kept(b)
    PROVE  BranchInv(b)'
<1> DEFINE n == task[b].new
<1>1. task[b] \in Tasks
  BY Typed
<1>2. task'[b].pc = pc /\ task'[b].new = n /\ task'[b].old = task[b].old /\ n' = n
  BY <1>1 DEF Tasks
<1>3. TaskInv(b)
  BY DEF BranchInv
<1>4. row'[b].state \in {"creating", "resetting", "deleting"}
  BY <1>3 DEF TaskInv
<1>5. OwnNew(b)' /\ OwnOld(b)'
  BY <1>2 DEF OwnNew, OwnOld, Kept
<1>6. Holds(b, n)'
  <2>1. \/ n \in taken'
        \/ /\ vols'[n].life = "available" /\ vols'[n].name = Own(b)
           /\ vols'[n].data \in Filled
    BY DEF HoldsNext
  <2> HIDE DEF n
  <2>2. QED
    BY <1>2, <2>1 DEF Holds
<1>7. EngineInv(b)'
  <2>1. \/ n \in taken'
        \/ vols'[n].life = "available" /\ vols'[n].name = Own(b)
    BY DEF HoldsNext
  <2>2. engine'[b] = n
    OBVIOUS
  <2> HIDE DEF n
  <2>3. QED
    BY <2>1, <2>2 DEF EngineInv, OnIts
<1>8. ~FixedName /\ n # NoId => Newest(b, n)'
  <2>1. ~FixedName /\ n # NoId => NewestNext(b, n)
    BY DEF Kept, EndPcs
  <2> HIDE DEF n
  <2>2. QED
    BY <1>2, <2>1 DEF Newest, NewestNext, Live
<1>9. n # NoId
  BY <1>3 DEF TaskInv, NewPcs
<1>10. pc \notin OffPcs \cup {"idle", "kill", "rollback", "halt", "wait", "mount", "copy",
                            "copyBack", "init", "copyInit", "boot"}
  BY DEF OffPcs, UpPcs
<1>11. FixedName' <=> FixedName
  BY DEF FixedName
<1>12. TaskInv(b)'
  <2>1. Holds(b, task[b].new)'
    BY <1>6
  <2>2. ~FixedName => Newest(b, task[b].new)'
    BY <1>8, <1>9
  <2>3. engine'[b] = task'[b].new /\ task'[b].new # NoId /\ task'[b].old # task'[b].new
    BY <1>2, <1>3, <1>9 DEF TaskInv
  <2>4. QED
    BY <1>2, <1>4, <1>5, <1>10, <1>11, <2>1, <2>2, <2>3 DEF TaskInv
<1>13. RowInv(b)'
  BY <1>4 DEF RowInv
<1>14. QED
  BY <1>7, <1>12, <1>13 DEF BranchInv

\* The engine starts on the new volume, or on the one rolled back.
LEMMA BootInv ==
    ASSUME TypeOK, Inv, NEW b \in Branches, Boot(b)
    PROVE  Inv'
<1>1. /\ Alone(b) /\ Calm(b) /\ UNCHANGED <<backend, taken, vols>>
      /\ task[b].pc = "boot" /\ BranchInv(b)
  BY ProvisionsAlone, UnchangedIsCalm DEF Boot, At, Inv
<1>2. task[b].new \in Ids
  BY <1>1, NewIsMine DEF NewPcs
<1>3. CASE FailOp(b) /\ UNCHANGED <<engine, left>>
  BY <1>1, <1>3, OffStep DEF OffPcs
<1>4. ASSUME NEW e \in {task[b].new, engine[b]} \ {NoId}, e # engine[b] => Boots(e),
             SetEngine(b, e), Goto(b, IF task[b].hasOld THEN "dropOld" ELSE "done"),
             UNCHANGED row
      PROVE  Inv'
  <2> DEFINE pc == IF task[b].hasOld THEN "dropOld" ELSE "done"
             n == task[b].new
  <2>1. pc \in UpPcs
    BY DEF UpPcs
  <2>2. /\ engine'[b] = e /\ task'[b] = [task[b] EXCEPT !.pc = pc]
        /\ row'[b] = row[b]
    BY <1>4, Writes
  <2>3. engine[b] = NoId \/ (engine[b] = n /\ Holds(b, n))
    BY <1>1 DEF BranchInv, TaskInv
  <2>4. e = n
    BY <1>4, <2>3
  <2>5. HoldsNext(b, n)
    <3>1. CASE e = engine[b]
      BY <1>1, <1>4, <2>3, <3>1 DEF Holds, HoldsNext
    <3>2. CASE e # engine[b]
      BY <1>1, <1>2, <1>4, <2>4, <3>2, LiveNewIsOwn DEF Boots, HoldsNext, Filled
    <3>3. QED
      BY <3>1, <3>2
  <2> HIDE DEF pc
  <2>6. BranchInv(b)'
    BY <1>1, <2>1, <2>2, <2>4, <2>5, CalmKeeps, GoesUp
  <2>7. QED
    BY <1>1, <2>6, CalmCall
<1>5. QED
  BY <1>3, <1>4 DEF Boot

\* Dropping the old volume does not touch the new one.
LEMMA DropOldInv ==
    ASSUME TypeOK, Inv, NEW b \in Branches, DropOld(b)
    PROVE  Inv'
<1>1. /\ Alone(b) /\ UNCHANGED <<backend, taken, row, engine>>
      /\ task[b].pc = "dropOld" /\ BranchInv(b) /\ TaskInv(b)
  BY ProvisionsAlone DEF DropOld, Alone, At, Inv, BranchInv
<1>2. PICK ok \in BOOLEAN : DeleteAsync(task[b].old, ok)
  BY DEF DropOld
<1>3. Calm(b) /\ \A u \in Ids : u # task[b].old => Stays(u)
  BY <1>1, <1>2, NewIsMine, DeleteIsCalm
<1>4. task[b].new \in Ids /\ task[b].new # task[b].old
  BY <1>1, NewIsMine, IdsAreNumbers DEF NewPcs
<1>5. engine[b] = task[b].new /\ Holds(b, task[b].new)
  BY <1>1 DEF TaskInv, UpPcs
<1>6. HoldsNext(b, task[b].new)
  BY <1>3, <1>4, <1>5 DEF Holds, HoldsNext, Stays
<1>7. task'[b] = [task[b] EXCEPT !.pc = "done"]
  BY Writes DEF DropOld
<1>8. BranchInv(b)'
  BY <1>1, <1>3, <1>5, <1>6, <1>7, CalmKeeps, GoesUp DEF UpPcs
<1>9. QED
  BY <1>1, <1>3, <1>8, CalmCall

\* The row names the volume the engine has come up on.
LEMMA MarkRunningInv ==
    ASSUME TypeOK, Inv, NEW b \in Branches, MarkRunning(b)
    PROVE  Inv'
<1> DEFINE n == task[b].new
<1>1. /\ Alone(b) /\ Calm(b) /\ UNCHANGED <<backend, taken, vols, engine>>
      /\ task[b].pc = "done" /\ BranchInv(b) /\ TaskInv(b)
  BY ProvisionsAlone, UnchangedIsCalm DEF MarkRunning, Alone, At, Inv, BranchInv
<1>2. n \in Ids /\ n # NoId
  BY <1>1, NewIsMine, IdsAreNumbers DEF NewPcs
<1>3. Holds(b, n) /\ (~FixedName => Newest(b, n)) /\ engine[b] = n
  BY <1>1, <1>2 DEF TaskInv, UpPcs, EndPcs
<1>4. home'[b] = n /\ row'[b] = RowIn("running") /\ task'[b] = Idle
  BY Writes DEF MarkRunning
<1>5. row'[b].state = "running"
  BY <1>4 DEF RowIn
<1>6. RowInv(b)'
  <2> HIDE DEF n
  <2>1. Holds(b, home[b])'
    BY <1>1, <1>3, <1>4 DEF Holds
  <2>2. ~FixedName' => Newest(b, home[b])'
    BY <1>1, <1>3, <1>4 DEF Newest, Live, FixedName
  <2>3. OnIts(b)'
    BY <1>1, <1>3 DEF Holds, OnIts
  <2>4. QED
    BY <1>2, <1>4, <1>5, <2>1, <2>2, <2>3 DEF RowInv
<1>7. EngineInv(b)'
  BY <1>1, <1>3 DEF Holds, OnIts, EngineInv
<1>8. BranchInv(b)'
  BY <1>4, <1>6, <1>7, Over
<1>9. QED
  BY <1>1, <1>8, CalmCall

\* What a name does not resolve to is not there.
LEMMA Unresolved ==
    ASSUME TypeOK, NEW n, ResolveVolume(n) = {}
    PROVE  Named(n) = {}
<1>1. FsxResolve(n) = {} => Named(n) = {}
  <2>1. Named(n) \subseteq 1..MaxVolumes /\ MaxVolumes \in Nat
    BY StoreAssumption DEF Named, Ids
  <2>2. Named(n) # {} => \E m \in Named(n) : \A k \in Named(n) : k <= m
    BY <2>1, Greatest
  <2>3. QED
    BY <2>2 DEF FsxResolve
<1>2. FilesResolve(n) # {}
  BY DEF FilesResolve
<1>3. QED
  BY <1>1, <1>2, Kinds DEF ResolveVolume, ZfsResolve, ApfsResolve

\* A branch whose name resolves to nothing has no engine on a volume.
LEMMA UnresolvedIsOff ==
    ASSUME TypeOK, NEW b \in Branches, EngineInv(b), ResolveVolume(Own(b)) = {}
    PROVE  Off(b)
<1>1. Named(Own(b)) = {}
  BY Unresolved
<1>2. engine[b] \in Ids \cup {NoId}
  BY Typed
<1>3. QED
  BY <1>1, <1>2 DEF EngineInv, OnIts, Off, Named

\* What it resolves to is the branch's own.
LEMMA ResolvedIsMine ==
    ASSUME TypeOK, NEW b \in Branches, NEW v \in ResolveVolume(Own(b)), v \in Ids
    PROVE  vols[v].life = "available" /\ vols[v].name = Own(b)
BY ResolveTyped, IdsAreNumbers DEF Named

\* The engine of the old volume is killed, and the old volume resolved once
\* more.
LEMMA KillOldInv ==
    ASSUME TypeOK, Inv, NEW b \in Branches, KillOld(b)
    PROVE  Inv'
<1>1. /\ Alone(b) /\ Calm(b) /\ UNCHANGED <<backend, taken, vols, row>>
      /\ task[b].pc = "kill" /\ BranchInv(b) /\ TaskInv(b) /\ EngineInv(b)
  BY ReplacesAlone, UnchangedIsCalm DEF KillOld, Alone, At, Inv, BranchInv
<1>2. /\ "stale" \in OffPcs /\ StageOf(b, "stale")
      /\ "stale" \notin NewPcs \cup UpPcs \cup {"wait", "mount"}
  BY <1>1 DEF OffPcs, NewPcs, UpPcs, EndPcs, StageOf
<1>3. CASE ResolveVolume(Own(b)) = {} /\ Goto(b, "stale") /\ UNCHANGED <<engine, left>>
  <2>1. Off(b) /\ engine'[b] = engine[b] /\ row'[b] = row[b]
    BY <1>1, <1>3, UnresolvedIsOff
  <2>2. task'[b] = [task[b] EXCEPT !.pc = "stale"]
    BY <1>3, Writes
  <2>3. Off(b)' /\ EngineInv(b)'
    BY <1>1, <1>3, <2>1, StaysOff DEF Calm
  <2>4. BranchInv(b)'
    BY <1>1, <1>2, <2>1, <2>2, <2>3, CalmKeeps, GoesOn
  <2>5. QED
    BY <1>1, <2>4, CalmCall
<1>4. ASSUME NEW v \in ResolveVolume(Own(b)),
             task' = [task EXCEPT ![b].pc = "stale", ![b].hasOld = TRUE, ![b].old = v],
             EndEngine(b)
      PROVE  Inv'
  <2>1. task \in [Branches -> Tasks] /\ task[b] \in Tasks
    BY Typed
  <2>2. task'[b].pc = "stale" /\ task'[b].new = task[b].new /\ task'[b].old = v
    BY <1>4, <2>1 DEF Tasks
  <2>3. Off(b)' /\ EngineInv(b)'
    BY <1>1, <1>4, EndedIsOff
  <2>4. task'[b].new = NoId /\ NoId \notin Ids
    BY <1>1, <2>2, IdsAreNumbers DEF TaskInv
  <2>5. OwnNew(b)' /\ OwnOld(b)'
    BY <1>1, <2>2, <2>4, ResolvedIsMine DEF OwnNew, OwnOld
  <2>6. row'[b].state \in {"creating", "resetting", "deleting"}
    BY <1>1 DEF TaskInv
  <2>7. TaskInv(b)'
    BY <1>2, <2>2, <2>3, <2>4, <2>5, <2>6 DEF TaskInv
  <2>8. RowInv(b)'
    BY <2>6 DEF RowInv
  <2>9. BranchInv(b)'
    BY <2>3, <2>7, <2>8 DEF BranchInv
  <2>10. QED
    BY <1>1, <2>9, CalmCall
<1>5. QED
  BY <1>3, <1>4 DEF KillOld

\* @init is put back where no engine runs, or under the engine of the branch.
LEMMA PutBackHolds ==
    ASSUME TypeOK, Inv, SnapInv, NEW b \in Branches, UNCHANGED taken,
           task[b].new \in Ids, vols[task[b].new].init # "none", PutBack(b)
    PROVE  \/ engine[b] = NoId
           \/ engine[b] = task[b].new /\ HoldsNext(b, task[b].new)
<1> DEFINE v == task[b].new
<1>1. vols[v].life = "available" /\ vols[v].name = Own(b)
  BY LiveNewIsOwn DEF SnapInv, InitsSettle
<1>2. engine[b] \in {NoId, v}
  BY <1>1 DEF SnapInv, InitOn
<1>3. ASSUME engine[b] = v
      PROVE  HoldsNext(b, v)
  <2>1. vols' = [vols EXCEPT ![v].data = "mixed"]
    BY <1>3 DEF PutBack
  <2>2. vols \in [Ids -> Volumes] /\ v \in Ids /\ vols[v] \in Volumes
    BY Typed
  <2> HIDE DEF v
  <2>3. vols'[v] = [vols[v] EXCEPT !.data = "mixed"]
    BY <2>1, <2>2
  <2>4. /\ vols'[v].life = vols[v].life /\ vols'[v].name = vols[v].name
        /\ vols'[v].data = "mixed"
    BY <2>2, <2>3 DEF Volumes
  <2>5. QED
    BY <1>1, <2>4 DEF HoldsNext, Filled
<1>4. QED
  BY <1>2, <1>3

\* Back to @init, or to the copy of it.
LEMMA RollbackInv ==
    ASSUME TypeOK, Inv, SnapInv, NEW b \in Branches, Rollback(b)
    PROVE  Inv'
<1>1. /\ Alone(b) /\ UNCHANGED <<backend, taken, engine, left>> /\ task[b].pc = "rollback"
      /\ BranchInv(b) /\ TaskInv(b)
  BY ReplacesAlone DEF Rollback, Alone, At, Inv, BranchInv
<1>2. "rollback" \in OffPcs /\ "boot" \in OffPcs /\ "copyBack" \in OffPcs
  BY DEF OffPcs
<1>3. Calm(b)
  <2>1. \/ UNCHANGED vols \/ vols' = [vols EXCEPT ![task[b].new].data = "partial"]
        \/ PutBack(b)
    BY DEF Rollback, ZfsRollback, ReflinkRollback, ApfsRollback, RemoveData
  <2>2. QED
    BY <1>1, <2>1, NewIsMine, WorkIsCalm, UnchangedIsCalm DEF PutBack
<1>4. \/ FailOp(b)
      \/ /\ Goto(b, "boot") /\ UNCHANGED row /\ backend = "ebs-zfs"
         /\ vols[task[b].new].init = "whole" /\ PutBack(b)
      \/ Goto(b, "copyBack") /\ UNCHANGED row /\ task[b].new # NoId /\ Files
  BY DEF Rollback, ZfsRollback, ReflinkRollback, ApfsRollback, RemoveData, Files
<1>5. CASE FailOp(b)
  BY <1>1, <1>2, <1>3, <1>5, OffStep
<1>6. CASE /\ Goto(b, "boot") /\ UNCHANGED row /\ backend = "ebs-zfs"
           /\ vols[task[b].new].init = "whole" /\ PutBack(b)
  <2>1. task[b].new # NoId /\ task[b].new \in Ids /\ FixedName
    BY <1>1, <1>6, Typed DEF TaskInv, Files, FixedName
  <2>2. \/ engine'[b] = NoId
        \/ engine'[b] = task[b].new /\ HoldsNext(b, task[b].new)
    BY <1>1, <1>6, <2>1, PutBackHolds
  <2>3. StageOf(b, "boot") /\ row'[b] = row[b]
    BY <1>6, <2>1, <2>2 DEF StageOf
  <2>4. QED
    BY <1>1, <1>2, <1>3, <1>6, <2>3, OffStep
<1>7. CASE Goto(b, "copyBack") /\ UNCHANGED row /\ task[b].new # NoId /\ Files
  <2>1. StageOf(b, "copyBack") /\ row'[b] = row[b]
    BY <1>7 DEF StageOf, Files, FixedName
  <2>2. QED
    BY <1>1, <1>2, <1>3, <1>7, <2>1, OffStep
<1>8. QED
  BY <1>4, <1>5, <1>6, <1>7

\* A rollback of a copying backend copies `.init` over the data.
LEMMA CopyBackInv ==
    ASSUME TypeOK, Inv, SnapInv, NEW b \in Branches, CopyBack(b)
    PROVE  Inv'
<1>1. BranchInv(b) /\ task[b].pc = "copyBack"
  BY DEF Inv, CopyBack, At
<1>2. task[b].new # NoId /\ task[b].new \in Ids /\ Mine(b, task[b].new)
  BY <1>1, NewIsMine DEF BranchInv, TaskInv, NewPcs
<1>3. Calm(b)
  BY <1>2, WorkIsCalm, UnchangedIsCalm DEF CopyBack, PutBack
<1>4. Alone(b) /\ UNCHANGED <<engine, left, taken>>
  BY ReplacesAlone DEF CopyBack
<1>5. \/ FailOp(b)
      \/ Goto(b, "boot") /\ UNCHANGED row /\ PutBack(b) /\ vols[task[b].new].init # "none"
  BY DEF CopyBack
<1>6. {"copyBack", "boot"} \subseteq OffPcs
  BY DEF OffPcs
<1>7. CASE FailOp(b)
  BY <1>1, <1>3, <1>4, <1>6, <1>7, OffStep
<1>8. CASE /\ Goto(b, "boot") /\ UNCHANGED row /\ PutBack(b)
           /\ vols[task[b].new].init # "none"
  <2>1. \/ engine'[b] = NoId
        \/ engine'[b] = task[b].new /\ HoldsNext(b, task[b].new)
    BY <1>2, <1>4, <1>8, PutBackHolds
  <2>2. StageOf(b, "boot") /\ row'[b] = row[b]
    BY <1>1, <1>2, <1>8, <2>1 DEF StageOf, EndPcs
  <2>3. QED
    BY <1>1, <1>3, <1>4, <1>6, <1>8, <2>2, OffStep
<1>9. QED
  BY <1>5, <1>7, <1>8

\* A call begins with a task that holds at most what its name resolves to.
LEMMA Begins ==
    ASSUME TypeOK, NEW b \in Branches, EngineInv(b), UNCHANGED <<backend, taken, vols>>,
           row'[b].state \in {"creating", "resetting", "deleting"},
           task'[b].pc \in {"clone", "kill", "halt"},
           task'[b].pc = "clone" => Off(b),
           task'[b].pc = "kill" => task'[b].new = NoId,
           task'[b].pc = "halt" /\ ~Files => task'[b].new # NoId,
           task'[b].old = NoId,
           task'[b].new = NoId \/ task'[b].new \in ResolveVolume(Own(b)),
           task'[b].pc = "clone" => task'[b].new = NoId,
           engine'[b] = engine[b], b \in left => b \in left'
    PROVE  BranchInv(b)'
<1>1. NoId \notin Ids
  BY IdsAreNumbers
<1>2. task'[b].new \in Ids => vols'[task'[b].new].life = "available"
                              /\ vols'[task'[b].new].name = Own(b)
  BY <1>1, ResolvedIsMine
<1>3. OwnNew(b)' /\ OwnOld(b)'
  BY <1>1, <1>2 DEF OwnNew, OwnOld
<1>4. Off(b) => Off(b)'
  BY DEF Off
<1>5. task'[b].pc \notin NewPcs \cup UpPcs \cup {"idle", "wait", "mount", "rollback", "copy",
                                         "copyBack", "init", "copyInit", "boot"}
  BY DEF NewPcs, UpPcs
<1>6. task'[b].pc \in OffPcs => task'[b].pc = "clone"
  BY DEF OffPcs
<1>7. (FixedName' <=> FixedName) /\ (Files' <=> Files)
  BY DEF FixedName, Files
<1>8. TaskInv(b)'
  BY <1>3, <1>4, <1>5, <1>6, <1>7 DEF TaskInv, EndPcs
<1>9. RowInv(b)'
  BY DEF RowInv
<1>10. EngineInv(b)'
  BY DEF EngineInv, OnIts
<1>11. QED
  BY <1>8, <1>9, <1>10 DEF BranchInv

\* Create, recreate, reset and the retry of a create begin with nothing in
\* their hands.
LEMMA BeginInv ==
    ASSUME TypeOK, Inv, NEW b \in Branches,
           Create(b) \/ Recreate(b) \/ Reset(b) \/ RetryCreate(b)
    PROVE  Inv'
<1>1. /\ Alone(b) /\ Calm(b) /\ UNCHANGED <<backend, taken, vols, engine, left>>
      /\ BranchInv(b) /\ EngineInv(b)
  <2>1. Alone(b) /\ UNCHANGED <<vols, engine, left>>
    BY BeginsAlone DEF Create, Recreate, Reset, RetryCreate
  <2>2. QED
    BY <2>1, UnchangedIsCalm DEF Alone, Inv, BranchInv
<1>2. CASE Create(b)
  <2>1. task'[b] = [Idle EXCEPT !.pc = "clone", !.op = "create"]
        /\ row'[b] = RowIn("creating")
    BY <1>2, Writes DEF Create
  <2>2. task'[b].pc = "clone" /\ task'[b].new = NoId /\ task'[b].old = NoId
    BY <2>1 DEF Idle
  <2>3. row'[b].state = "creating"
    BY <2>1 DEF RowIn
  <2>4. Off(b)
    BY <1>1, <1>2 DEF Create, BranchInv, RowInv
  <2>5. BranchInv(b)'
    BY <1>1, <2>2, <2>3, <2>4, Begins
  <2>6. QED
    BY <1>1, <2>5, CalmCall
<1>3. ASSUME NEW op, RecreateFrom(b, op)
      PROVE  Inv'
  <2>1. /\ task'[b] = [Idle EXCEPT !.pc = "kill", !.op = op,
                                   !.wasError = row[b].state = "error"]
        /\ row'[b] = RowIn("resetting")
    BY <1>3, Writes DEF RecreateFrom
  <2>2. task'[b].pc = "kill" /\ task'[b].new = NoId /\ task'[b].old = NoId
    BY <2>1 DEF Idle
  <2>3. row'[b].state = "resetting"
    BY <2>1 DEF RowIn
  <2>4. BranchInv(b)'
    BY <1>1, <2>2, <2>3, Begins
  <2>5. QED
    BY <1>1, <2>4, CalmCall
<1>4. ASSUME NEW v \in ResolveVolume(Own(b)), FastRollback, SetRow(b, RowIn("resetting")),
             task' = [task EXCEPT ![b] =
                         [Idle EXCEPT !.pc = "halt", !.op = "reset", !.new = v]]
      PROVE  Inv'
  <2>1. /\ task'[b] = [Idle EXCEPT !.pc = "halt", !.op = "reset", !.new = v]
        /\ row'[b] = RowIn("resetting")
    BY <1>4, Writes
  <2>2. task'[b].pc = "halt" /\ task'[b].new = v /\ task'[b].old = NoId
    BY <2>1 DEF Idle
  <2>3. row'[b].state = "resetting"
    BY <2>1 DEF RowIn
  <2>4. FixedName /\ (~Files => v # NoId)
    BY <1>4, ResolveTyped, IdsAreNumbers DEF FastRollback, FixedName
  <2>5. BranchInv(b)'
    BY <1>1, <2>2, <2>3, <2>4, Begins
  <2>6. QED
    BY <1>1, <2>5, CalmCall
<1>5. QED
  BY <1>2, <1>3, <1>4 DEF Recreate, Reset, RetryCreate

\* A row is written while no call is at work.
LEMMA RowOnly ==
    ASSUME TypeOK, NEW b \in Branches, BranchInv(b), task[b].pc = "idle",
           UNCHANGED <<backend, taken, vols>>, task'[b] = task[b],
           RowInv(b)', EngineInv(b)'
    PROVE  BranchInv(b)'
<1>1. "idle" \notin NewPcs \cup OffPcs \cup UpPcs
  BY DEF NewPcs, OffPcs, UpPcs
<1>2. TaskInv(b) /\ task[b].pc \notin EndPcs
  BY DEF BranchInv, EndPcs
<1>3. OwnNew(b)' /\ OwnOld(b)'
  BY <1>2 DEF TaskInv, OwnNew, OwnOld
<1>4. ~FixedName' /\ task'[b].new # NoId => Newest(b, task[b].new)'
  BY <1>2 DEF TaskInv, Newest, Live, FixedName
<1>5. TaskInv(b)'
  BY <1>1, <1>2, <1>3, <1>4 DEF TaskInv
<1>6. QED
  BY <1>5 DEF BranchInv

\* A delete begins with what the name resolves to, and without it drops the
\* row.
LEMMA DeleteInv ==
    ASSUME TypeOK, Inv, NEW b \in Branches, Delete(b)
    PROVE  Inv'
<1>1. /\ Alone(b) /\ Calm(b) /\ UNCHANGED <<backend, taken, vols, engine, left>>
      /\ BranchInv(b) /\ EngineInv(b) /\ task[b].pc = "idle"
  BY BeginsAlone, UnchangedIsCalm DEF Delete, Alone, Free, Inv, BranchInv
<1>2. CASE ResolveVolume(Own(b)) = {} /\ SetRow(b, RowIn("absent")) /\ UNCHANGED task
  <2>1. row'[b] = RowIn("absent") /\ task'[b] = task[b]
    BY <1>2, Writes
  <2>2. row'[b].state = "absent"
    BY <2>1 DEF RowIn
  <2>3. Off(b)' /\ EngineInv(b)'
    BY <1>1, <1>2, UnresolvedIsOff, StaysOff DEF Calm
  <2>4. RowInv(b)'
    BY <2>2, <2>3 DEF RowInv
  <2>5. BranchInv(b)'
    BY <1>1, <2>1, <2>3, <2>4, RowOnly
  <2>6. QED
    BY <1>1, <2>5, CalmCall
<1>3. ASSUME NEW v \in ResolveVolume(Own(b)), SetRow(b, RowIn("deleting")),
             task' = [task EXCEPT ![b] = [Idle EXCEPT !.pc = "halt", !.new = v]]
      PROVE  Inv'
  <2>1. /\ task'[b] = [Idle EXCEPT !.pc = "halt", !.new = v]
        /\ row'[b] = RowIn("deleting")
    BY <1>3, Writes
  <2>2. task'[b].pc = "halt" /\ task'[b].new = v /\ task'[b].old = NoId
    BY <2>1 DEF Idle
  <2>3. row'[b].state = "deleting"
    BY <2>1 DEF RowIn
  <2>4. ~Files => v # NoId
    BY <1>3, ResolveTyped, IdsAreNumbers
  <2>5. BranchInv(b)'
    BY <1>1, <2>2, <2>3, <2>4, Begins
  <2>6. QED
    BY <1>1, <2>5, CalmCall
<1>4. QED
  BY <1>2, <1>3 DEF Delete

\* The engine first, whether it ends or not,
LEMMA HaltInv ==
    ASSUME TypeOK, Inv, NEW b \in Branches, Halt(b)
    PROVE  Inv'
<1> DEFINE pc == IF task[b].op = "reset" THEN "rollback" ELSE "destroy"
<1>1. /\ Alone(b) /\ Calm(b) /\ UNCHANGED <<backend, taken, vols, row>>
      /\ task[b].pc = "halt" /\ BranchInv(b) /\ TaskInv(b) /\ EngineInv(b)
  BY EndsAlone, UnchangedIsCalm DEF Halt, Alone, At, Inv, BranchInv
<1>2. Off(b)' /\ EngineInv(b)'
  BY <1>1, EndedIsOff DEF Halt
<1>3. task'[b] = [task[b] EXCEPT !.pc = pc] /\ row'[b] = row[b]
  BY <1>1, Writes DEF Halt
<1>4. pc \in OffPcs /\ StageOf(b, pc)
  BY <1>1 DEF OffPcs, NewPcs, EndPcs, StageOf, TaskInv
<1> HIDE DEF pc
<1>5. BranchInv(b)'
  BY <1>1, <1>2, <1>3, <1>4, CalmKeeps, GoesOn
<1>6. QED
  BY <1>1, <1>5, CalmCall

\* then the volume.
LEMMA DestroyInv ==
    ASSUME TypeOK, Inv, NEW b \in Branches, Destroy(b)
    PROVE  Inv'
<1>1. /\ Alone(b) /\ UNCHANGED <<engine, left>> /\ task[b].pc = "destroy" /\ BranchInv(b)
  BY EndsAlone DEF Destroy, At, Inv
<1>2. Calm(b)
  BY <1>1, NewIsMine, DeleteIsCalm DEF Destroy
<1>3. FailOp(b) \/ (Goto(b, "poll") /\ row'[b] = row[b])
  BY DEF Destroy
<1>4. {"destroy", "poll"} \subseteq OffPcs /\ StageOf(b, "poll")
  BY DEF OffPcs, NewPcs, EndPcs, StageOf
<1>5. QED
  BY <1>1, <1>2, <1>3, <1>4, OffStep

\* The delete has been told of; now it is seen to be over, or is given up.
LEMMA PollInv ==
    ASSUME TypeOK, Inv, NEW b \in Branches, Poll(b)
    PROVE  Inv'
<1>1. /\ Alone(b) /\ Calm(b) /\ UNCHANGED <<backend, taken, vols, engine, left>>
      /\ BranchInv(b) /\ TaskInv(b) /\ task[b].pc = "poll"
  BY EndsAlone, UnchangedIsCalm DEF Poll, Alone, At, Inv, BranchInv
<1>2. Off(b)' /\ EngineInv(b)'
  <2>1. Off(b)
    BY <1>1, NewIsMine DEF OffPcs
  <2>2. QED
    BY <1>1, <2>1, StaysOff DEF BranchInv, Calm
<1>3. task'[b] = Idle /\ (row'[b] = RowIn("absent") \/ row'[b] = row[b])
  BY Writes DEF Poll
<1>4. row'[b].state \notin {"running", "sleeping"}
  BY <1>1, <1>3 DEF TaskInv, RowIn
<1>5. RowInv(b)'
  BY <1>2, <1>4 DEF RowInv
<1>6. BranchInv(b)'
  BY <1>2, <1>3, <1>5, Over
<1>7. QED
  BY <1>1, <1>6, CalmCall

\* Sleep and wake: the engine goes down, and up again on what the name
\* resolves to.
LEMMA SleepWakeInv ==
    ASSUME TypeOK, Inv, NEW b \in Branches, Sleep(b) \/ Wake(b)
    PROVE  Inv'
<1>1. /\ Alone(b) /\ Calm(b) /\ UNCHANGED <<backend, taken, vols, home, task>>
      /\ BranchInv(b) /\ RowInv(b) /\ task[b].pc = "idle"
      /\ row[b].state \in {"running", "sleeping"}
  BY EndsAlone, UnchangedIsCalm DEF Sleep, Wake, Alone, Free, Inv, BranchInv
<1>2. row'[b].state \in {"running", "sleeping"}
  <2>1. row'[b] = RowIn("running") \/ row'[b] = RowIn("sleeping")
    BY Writes DEF Sleep, Wake
  <2>2. QED
    BY <2>1 DEF RowIn
<1>3. OnIts(b)'
  <2>1. CASE Sleep(b)
    <3>1. engine'[b] = NoId
      BY <2>1, Writes DEF Sleep
    <3>2. QED
      BY <3>1 DEF OnIts
  <2>2. CASE Wake(b)
    <3>1. PICK v \in ResolveVolume(Own(b)) \cap Ids : SetEngine(b, v)
      BY <2>2 DEF Wake
    <3>2. engine'[b] = v
      BY <3>1, Writes
    <3>3. vols'[v].life = "available" /\ vols'[v].name = Own(b)
      BY <1>1, ResolvedIsMine
    <3>4. QED
      BY <3>2, <3>3 DEF OnIts
  <2>3. QED
    BY <2>1, <2>2
<1>4. RowInv(b)' /\ EngineInv(b)'
  BY <1>1, <1>2, <1>3 DEF RowInv, Holds, Newest, Live, FixedName, EngineInv
<1>5. BranchInv(b)'
  BY <1>1, <1>4, RowOnly
<1>6. QED
  BY <1>1, <1>5, CalmCall

-----------------------------------------------------------------------------
(***************************************************************************)
(* Steps without a call                                                    *)
(***************************************************************************)

\* A step of gc or of AWS, which writes no row, call or engine, keeps the
\* invariant if every volume bears it.
LEMMA AllBear ==
    ASSUME TypeOK, Inv, UNCHANGED <<backend, row, task, engine, home, left>>,
           taken \subseteq taken', StoreInv', \A c \in Branches, v \in Ids : Bears(c, v)
    PROVE  Inv'
<1>1. ASSUME NEW c \in Branches
      PROVE  BranchInv(c)'
  BY BranchBears DEF Inv
<1>2. QED
  BY <1>1 DEF Inv

\* gc takes volumes, and says so.
LEMMA GCInv ==
    ASSUME TypeOK, GCListsVolumes, Inv, GCRows \/ GCStep
    PROVE  Inv'
<1>1. UNCHANGED <<backend, row, task, engine, home, left>> /\ vols \in [Ids -> Volumes]
  BY Typed DEF GCRows, GCStep, GCList, GCDelete, GCEnd
<1>2. CASE UNCHANGED <<vols, taken>>
  <2>1. \A v \in Ids : Stays(v) /\ Keeps(v)
    BY <1>2 DEF Stays, Keeps
  <2>2. taken' \subseteq Ids
    BY <1>2 DEF TypeOK
  <2>3. StoreInv'
    BY <1>1, <1>2, <2>1, <2>2, StoreSettles DEF Inv
  <2>4. QED
    BY <1>1, <1>2, <2>1, <2>3, AllBear DEF Bears
<1>3. ASSUME NEW n \in gc.orphans, NEW v \in ResolveVolume(n), NEW ok \in BOOLEAN,
             DeleteAsync(v, ok), taken' = IF ok THEN taken \cup {v} ELSE taken
      PROVE  Inv'
  <2>1. ~Files /\ v \in Ids /\ vols[v].life = "available"
    BY <1>3, ResolveTyped, IdsAreNumbers DEF GCListsVolumes, Named
  <2>2. \/ ~ok /\ UNCHANGED vols
        \/ ok /\ vols' = Gone(v)
        \/ ok /\ ~FixedName /\ vols' = [vols EXCEPT ![v].life = "deleting"]
    BY <1>3, <2>1
       DEF DeleteAsync, ZfsDestroy, FsxDelete, ReflinkDelete, ApfsDelete, Files, FixedName
  <2>3. CASE ~ok
    BY <1>2, <1>3, <2>2, <2>3
  <2>4. CASE ok
    <3>1. \A u \in Ids : u # v => Stays(u) /\ Keeps(u)
      BY <1>1, <2>2, <2>4 DEF Stays, Keeps, Gone
    <3>2. Sinks(v)
      <4>1. CASE vols' = Gone(v)
        <5>1. vols'[v] = [Unused EXCEPT !.life = "gone"]
          BY <1>1, <2>1, <4>1 DEF Gone
        <5>2. vols'[v].life = "gone" /\ vols'[v].name = <<>>
          BY <5>1 DEF Unused
        <5>3. QED
          BY <2>1, <5>2 DEF Sinks, Used
      <4>2. CASE ~FixedName /\ vols' = [vols EXCEPT ![v].life = "deleting"]
        <5>1. vols'[v] = [vols[v] EXCEPT !.life = "deleting"] /\ vols[v] \in Volumes
          BY <1>1, <2>1, <4>2
        <5>2. vols'[v].life = "deleting" /\ vols'[v].name = vols[v].name
          BY <5>1 DEF Volumes
        <5>3. QED
          BY <2>1, <4>2, <5>2 DEF Sinks, Used
      <4>3. QED
        BY <2>2, <2>4, <4>1, <4>2
    <3>3. taken' = taken \cup {v} /\ taken \subseteq Ids
      BY <1>3, <2>4 DEF TypeOK
    <3>4. /\ taken' \subseteq Ids
          /\ \A u \in taken' : u \in taken \/ vols'[u].life \in {"failed", "deleting", "gone"}
      BY <2>1, <3>2, <3>3 DEF Sinks
    <3>5. StoreInv'
      BY <1>1, <3>1, <3>2, <3>4, StoreSettles DEF Inv
    <3>6. \A c \in Branches, u \in Ids : Bears(c, u)
      BY <3>1, <3>2, <3>3 DEF Bears
    <3>7. QED
      BY <1>1, <3>3, <3>5, <3>6, AllBear
  <2>5. QED
    BY <2>3, <2>4
<1>4. QED
  BY <1>2, <1>3 DEF GCRows, GCStep, GCList, GCDelete, GCEnd

\* AWS brings a clone up or gives a volume up.
LEMMA AwsInv ==
    ASSUME TypeOK, Inv, Aws
    PROVE  Inv'
<1>1. PICK v \in Ids : FsxProceeds(v)
  BY DEF Aws
<1>2. UNCHANGED <<backend, row, task, engine, home, taken, left>> /\ vols \in [Ids -> Volumes]
  BY <1>1, Typed DEF FsxProceeds
<1>3. vols[v] \in Volumes /\ vols[v].life \in {"creating", "deleting"}
  BY <1>1, <1>2 DEF FsxProceeds
<1>4. ~FixedName
  BY <1>3 DEF Inv, StoreInv, OneVolumePerName
<1>5. \/ vols[v].life = "creating" /\ vols' = [vols EXCEPT ![v].life = "available"]
      \/ vols' = [vols EXCEPT ![v].life = "failed"]
      \/ vols' = Gone(v)
  BY <1>1 DEF FsxProceeds
<1>6. \A u \in Ids : u # v => Stays(u) /\ Keeps(u)
  BY <1>2, <1>5 DEF Stays, Keeps, Gone
<1>7. Rises(v) \/ Sinks(v)
  <2>1. CASE vols[v].life = "creating" /\ vols' = [vols EXCEPT ![v].life = "available"]
    <3>1. vols'[v] = [vols[v] EXCEPT !.life = "available"]
      BY <1>2, <2>1
    <3>2. vols'[v].life = "available" /\ vols'[v].name = vols[v].name
      BY <1>3, <3>1 DEF Volumes
    <3>3. QED
      BY <2>1, <3>2 DEF Rises
  <2>2. CASE vols' = [vols EXCEPT ![v].life = "failed"]
    <3>1. vols'[v] = [vols[v] EXCEPT !.life = "failed"]
      BY <1>2, <2>2
    <3>2. vols'[v].life = "failed" /\ vols'[v].name = vols[v].name
      BY <1>3, <3>1 DEF Volumes
    <3>3. QED
      BY <1>3, <1>4, <3>2 DEF Sinks, Used
  <2>3. CASE vols' = Gone(v)
    <3>1. vols'[v] = [Unused EXCEPT !.life = "gone"]
      BY <1>2, <2>3 DEF Gone
    <3>2. vols'[v].life = "gone" /\ vols'[v].name = <<>>
      BY <3>1 DEF Unused
    <3>3. QED
      BY <1>3, <3>2 DEF Sinks, Used
  <2>4. QED
    BY <1>5, <2>1, <2>2, <2>3
<1>8. taken' \subseteq Ids /\ taken \subseteq taken' /\ \A u \in taken' : u \in taken
  BY <1>2 DEF TypeOK
<1>9. StoreInv'
  BY <1>2, <1>6, <1>7, <1>8, StoreSettles DEF Inv
<1>10. \A c \in Branches, u \in Ids : Bears(c, u)
  BY <1>3, <1>6, <1>7 DEF Bears
<1>11. QED
  BY <1>2, <1>8, <1>9, <1>10, AllBear

\* Reconcile: what ran and is still there stays; nothing comes up.
LEMMA RestartInv ==
    ASSUME TypeOK, Inv, Restart
    PROVE  Inv'
<1>1. UNCHANGED <<backend, vols, engine, taken, left>>
  BY DEF Restart
<1>2. StoreInv'
  BY <1>1 DEF Inv, StoreInv, IdsInOrder, NamesOfVolumes, OneVolumePerName, TakenForGood,
              Live, Dead, FixedName
<1>3. PICK f \in [Branches -> Ids \cup {NoId}] :
        /\ \A b \in Branches :
              IF Reconciled(b).state = "deleting" THEN f[b] \in ResolveVolume(Own(b))
                                                  ELSE f[b] = NoId
        /\ task' = [b \in Branches |->
              IF Reconciled(b).state = "deleting"
                THEN [Idle EXCEPT !.pc = "halt", !.new = f[b]] ELSE Idle]
  BY DEF Restart
<1>4. ASSUME NEW b \in Branches
      PROVE  BranchInv(b)'
  <2> DEFINE r == Reconciled(b)
  <2>1. BranchInv(b) /\ TaskInv(b) /\ RowInv(b) /\ EngineInv(b)
    BY DEF Inv, BranchInv
  <2>2. row'[b] = r
    BY DEF Restart
  <2>3. home'[b] = IF r.state \in {"running", "sleeping"} THEN home[b] ELSE NoId
    BY DEF Restart
  <2>4. EngineInv(b)'
    BY <1>1, <2>1 DEF EngineInv, OnIts
  <2>5. r.state \in {"running", "sleeping"} => row[b].state \in {"running", "sleeping"}
    BY Typed DEF Reconciled, RowIn, Rows
  <2>6. r.state = "absent" => Off(b)
    <3>1. r.state = "absent" => \/ row[b].state = "absent"
                                \/ ResolveVolume(Own(b)) = {}
      BY Typed DEF Reconciled, RowIn, Rows
    <3>2. QED
      BY <3>1, <2>1, UnresolvedIsOff DEF RowInv
  <2> HIDE DEF r
  <2>7. RowInv(b)'
    <3>1. Off(b) => Off(b)'
      BY <1>1 DEF Off
    <3>2. ASSUME r.state \in {"running", "sleeping"}
          PROVE  /\ home'[b] \in Ids /\ Holds(b, home[b])' /\ OnIts(b)'
                 /\ ~FixedName' => Newest(b, home[b])'
      <4>1. /\ home[b] \in Ids /\ Holds(b, home[b]) /\ OnIts(b)
            /\ ~FixedName => Newest(b, home[b])
        BY <2>1, <2>5, <3>2 DEF RowInv
      <4>2. home'[b] = home[b]
        BY <2>3, <3>2
      <4>3. QED
        BY <1>1, <4>1, <4>2 DEF Holds, OnIts, Newest, Live, FixedName
    <3>3. QED
      BY <2>2, <2>6, <3>1, <3>2 DEF RowInv
  <2>8. CASE r.state = "deleting"
    <3>1. task'[b] = [Idle EXCEPT !.pc = "halt", !.new = f[b]]
          /\ f[b] \in ResolveVolume(Own(b))
      BY <1>3, <2>8 DEF r
    <3>2. task'[b].pc = "halt" /\ task'[b].new = f[b] /\ task'[b].old = NoId
      BY <3>1 DEF Idle
    <3>3. row'[b].state = "deleting" /\ engine'[b] = engine[b]
      BY <1>1, <2>2, <2>8
    <3>4. ~Files => f[b] # NoId
      BY <3>1, ResolveTyped, IdsAreNumbers
    <3>5. QED
      BY <1>1, <2>1, <3>1, <3>2, <3>3, <3>4, Begins
  <2>9. CASE r.state # "deleting"
    <3>1. task'[b] = Idle
      BY <1>3, <2>9 DEF r
    <3>2. QED
      BY <2>4, <2>7, <3>1, Over
  <2>10. QED
    BY <2>8, <2>9
<1>5. QED
  BY <1>2, <1>4 DEF Inv

-----------------------------------------------------------------------------
(***************************************************************************)
(* The theorems                                                            *)
(***************************************************************************)

\* Every step of a call keeps the invariant.
LEMMA CallInv ==
    ASSUME TypeOK, Inv, SnapInv, NEW b \in Branches, CallStep(b)
    PROVE  Inv'
BY BeginInv, DeleteInv, SleepWakeInv, CloneInv, FsxWaitInv, FsxMountInv, CloneTreeInv,
   RestoreOldInv, ProvisionInv, SnapshotInitInv, CopyInitInv, BootInv, DropOldInv,
   MarkRunningInv, KillOldInv, DropStaleInv, StashOldInv, RollbackInv, CopyBackInv,
   HaltInv, DestroyInv, PollInv
DEF CallStep, Proceed

\* It holds before anything was made.
LEMMA InitInv ==
    Init => Inv
<1> SUFFICES ASSUME Init
             PROVE  Inv
  OBVIOUS
<1>1. \A v \in Ids : vols[v].life = "unused" /\ vols[v].name = <<>>
  BY DEF Init, Unused
<1>2. StoreInv
  BY <1>1 DEF StoreInv, IdsInOrder, NamesOfVolumes, OneVolumePerName, TakenForGood,
              Live, Init
<1>3. ASSUME NEW b \in Branches
      PROVE  BranchInv(b)
  <2>1. /\ row[b].state = "absent" /\ task[b].pc = "idle" /\ task[b].new = NoId
        /\ task[b].old = NoId /\ engine[b] = NoId /\ NoId \notin Ids
    BY <1>3, IdleTyped, IdsAreNumbers DEF Init, RowIn
  <2>2. "idle" \notin NewPcs \cup OffPcs \cup UpPcs
    BY DEF NewPcs, OffPcs, UpPcs
  <2>3. QED
    BY <2>1, <2>2 DEF BranchInv, TaskInv, RowInv, EngineInv, OwnNew, OwnOld, Off, OnIts
<1>4. QED
  BY <1>2, <1>3 DEF Inv

\* Every step keeps it: calls, gc, AWS, and the restart of sashikid.
LEMMA StepInv ==
    TypeOK /\ GCListsVolumes /\ Inv /\ SnapInv /\ [Next]_vars => Inv'
<1> SUFFICES ASSUME TypeOK, GCListsVolumes, Inv, SnapInv, [Next]_vars
             PROVE  Inv'
  OBVIOUS
<1>1. CASE \E b \in Branches : CallStep(b)
  BY <1>1, CallInv
<1>2. CASE GCRows \/ GCStep
  BY <1>2, GCInv
<1>3. CASE Aws
  BY <1>3, AwsInv
<1>4. CASE Restart
  BY <1>4, RestartInv
<1>5. CASE UNCHANGED vars
  <2>1. StoreInv'
    BY <1>5 DEF vars, Inv, StoreInv, IdsInOrder, NamesOfVolumes, OneVolumePerName,
                TakenForGood, Live, Dead, FixedName
  <2>2. \A c \in Branches, v \in Ids : Bears(c, v)
    BY <1>5 DEF vars, Bears, Stays
  <2>3. UNCHANGED <<backend, row, task, engine, home, left>> /\ taken \subseteq taken'
    BY <1>5 DEF vars
  <2>4. QED
    BY <2>1, <2>2, <2>3, AllBear
<1>6. QED
  BY <1>1, <1>2, <1>3, <1>4, <1>5 DEF Next, CallStep

-----------------------------------------------------------------------------
(***************************************************************************)
(* Where @init is, and where the engine is                                 *)
(***************************************************************************)

\* The volume gets no @init, and what has one is neither renamed nor ended.
Mild(v) == vols'[v].init = "none" \/ (vols[v].init # "none" /\ Keeps(v))

\* The volume is there under a name of b.
Placed(b, v) == FixedName /\ vols'[v].life = "available"
                          /\ vols'[v].name \in {Own(b), Stash(b)}

\* A call that had the old volume in hand still has it.
HoldsOld(b) == task'[b].pc \in AsidePcs /\ task'[b].old \in Ids
                  => task[b].pc \in AsidePcs /\ task'[b].old = task[b].old

\* Where no engine comes up and no volume of the branch gets an @init or
\* another name, the engine is where it was.
LEMMA InitStays ==
    ASSUME TypeOK, NEW c \in Branches, InitOn(c), StoreInv', BranchInv(c)',
           engine'[c] \in {NoId, engine[c]}, HoldsOld(c),
           \A v \in Ids : Mild(v) \/ \E b \in Branches \ {c} : Placed(b, v)
    PROVE  InitOn(c)'
<1>1. ASSUME NEW v \in Ids, vols'[v].init # "none",
             vols'[v].name \in {Own(c), Stash(c), <<>>}
      PROVE  vols[v].init # "none" /\ Keeps(v)
  <2>1. ASSUME NEW b \in Branches \ {c}, Placed(b, v)
        PROVE  FALSE
    BY <1>1, <2>1, NamesApart DEF Placed
  <2>2. QED
    BY <1>1, <2>1 DEF Mild
<1>2. ASSUME NEW v \in Ids, vols'[v].name = Own(c), vols'[v].init # "none"
      PROVE  engine'[c] \in {NoId, v}
  BY <1>1, <1>2 DEF InitOn, Keeps
<1>3. ASSUME task'[c].pc \in AsidePcs, task'[c].old \in Ids,
             vols'[task'[c].old].init # "none"
      PROVE  engine'[c] \in {NoId, task'[c].old}
  <2>1. vols'[task'[c].old].name \in {Own(c), Stash(c), <<>>}
    BY <1>3 DEF BranchInv, TaskInv, OwnOld
  <2>2. vols[task'[c].old].init # "none"
    BY <1>1, <1>3, <2>1
  <2>3. QED
    BY <1>3, <2>2 DEF InitOn, HoldsOld
<1>4. QED
  BY <1>2, <1>3 DEF InitOn

\* A call disturbs no other branch; what is left is its own.
LEMMA SnapCall ==
    ASSUME TypeOK, SnapInv, Inv', NEW b \in Branches, Alone(b),
           \A v \in Ids : Mild(v) \/ Placed(b, v), InitOn(b)'
    PROVE  SnapInv'
<1>1. InitsSettle'
  <2>1. FixedName' <=> FixedName
    BY DEF Alone, FixedName
  <2>2. ASSUME NEW v \in Ids, vols'[v].init # "none"
        PROVE  FixedName /\ vols'[v].life = "available"
    BY <2>2 DEF SnapInv, InitsSettle, Mild, Placed, Keeps
  <2>3. QED
    BY <2>1, <2>2 DEF InitsSettle
<1>2. ASSUME NEW c \in Branches, c # b
      PROVE  InitOn(c)'
  <2>1. engine'[c] = engine[c] /\ task'[c] = task[c]
    BY <1>2 DEF Alone, EngineAlone, TaskAlone
  <2>2. HoldsOld(c)
    BY <2>1 DEF HoldsOld
  <2>3. StoreInv' /\ BranchInv(c)' /\ InitOn(c)
    BY DEF Inv, SnapInv
  <2>4. QED
    BY <1>2, <2>1, <2>2, <2>3, InitStays
<1>3. QED
  BY <1>1, <1>2 DEF SnapInv

\* A call that starts no engine and gives no volume an @init or a name.
LEMMA QuietCall ==
    ASSUME TypeOK, SnapInv, Inv', NEW b \in Branches, Alone(b),
           \A v \in Ids : Mild(v), engine'[b] \in {NoId, engine[b]}, HoldsOld(b)
    PROVE  SnapInv'
<1>1. StoreInv' /\ BranchInv(b)' /\ InitOn(b)
  BY DEF Inv, SnapInv
<1>2. InitOn(b)'
  BY <1>1, InitStays
<1>3. QED
  BY <1>2, SnapCall

\* A call that starts the engine on the volume of its name, with no old one in
\* hand.
LEMMA RisingCall ==
    ASSUME TypeOK, SnapInv, Inv', NEW b \in Branches, Alone(b), UNCHANGED vols,
           engine'[b] \in Ids, vols[engine'[b]].life = "available",
           vols[engine'[b]].name = Own(b), task'[b].pc \notin AsidePcs
    PROVE  SnapInv'
<1>1. \A v \in Ids : Mild(v)
  BY DEF Mild, Keeps
<1>2. (FixedName' <=> FixedName) /\ OneVolumePerName'
  BY DEF Alone, FixedName, Inv, StoreInv
<1>3. ASSUME NEW v \in Ids, vols[v].name = Own(b), vols[v].init # "none"
      PROVE  engine'[b] = v
  <2>1. FixedName /\ vols[v].life = "available"
    BY <1>3 DEF SnapInv, InitsSettle
  <2>2. QED
    BY <1>2, <1>3, <2>1 DEF OneVolumePerName
<1>4. InitOn(b)'
  BY <1>3 DEF InitOn
<1>5. QED
  BY <1>1, <1>4, SnapCall

\* What a call does to the files and to the life of a volume is mild.
LEMMA WorkIsMild ==
    ASSUME TypeOK, InitsSettle, NEW v,
           \/ UNCHANGED vols
           \/ \E x : vols' = [vols EXCEPT ![v].data = x]
           \/ vols' = Gone(v)
           \/ ~FixedName /\ \E x : vols' = [vols EXCEPT ![v].life = x]
    PROVE  \A u \in Ids : Mild(u)
<1>1. vols \in [Ids -> Volumes]
  BY Typed
<1>2. \A u \in Ids : u # v => Mild(u)
  BY <1>1 DEF Mild, Keeps, Gone
<1>3. ASSUME v \in Ids
      PROVE  Mild(v)
  <2>1. vols[v] \in Volumes
    BY <1>1, <1>3
  <2>2. CASE UNCHANGED vols
    BY <2>2 DEF Mild, Keeps
  <2>3. CASE \E x : vols' = [vols EXCEPT ![v].data = x]
    <3>1. PICK x : vols' = [vols EXCEPT ![v].data = x]
      BY <2>3
    <3>2. vols'[v] = [vols[v] EXCEPT !.data = x]
      BY <1>1, <1>3, <3>1
    <3>3. QED
      BY <2>1, <3>2 DEF Mild, Keeps, Volumes
  <2>4. CASE vols' = Gone(v)
    <3>1. vols'[v] = [Unused EXCEPT !.life = "gone"]
      BY <1>1, <1>3, <2>4 DEF Gone
    <3>2. QED
      BY <3>1 DEF Mild, Unused
  <2>5. CASE ~FixedName /\ \E x : vols' = [vols EXCEPT ![v].life = x]
    <3>1. PICK x : vols' = [vols EXCEPT ![v].life = x]
      BY <2>5
    <3>2. vols'[v] = [vols[v] EXCEPT !.life = x]
      BY <1>1, <1>3, <3>1
    <3>3. vols[v].init = "none"
      BY <1>3, <2>5 DEF InitsSettle
    <3>4. QED
      BY <2>1, <3>2, <3>3 DEF Mild, Volumes
  <2>6. QED
    BY <2>2, <2>3, <2>4, <2>5
<1>4. QED
  BY <1>2, <1>3

\* So is a deletion, carried out or not,
LEMMA DeleteIsMild ==
    ASSUME TypeOK, InitsSettle, NEW v, NEW ok, DeleteAsync(v, ok)
    PROVE  \A u \in Ids : Mild(u)
<1>1. RemoveAll(v, ok) => \/ UNCHANGED vols \/ vols' = Gone(v)
                          \/ \E x : vols' = [vols EXCEPT ![v].data = x]
  BY DEF RemoveAll
<1>2. ZfsDestroy(v, ok) => UNCHANGED vols \/ vols' = Gone(v)
  BY DEF ZfsDestroy
<1>3. FsxDelete(v, ok) => \/ UNCHANGED vols
                          \/ ~FixedName /\ \E x : vols' = [vols EXCEPT ![v].life = x]
  BY DEF FsxDelete, FixedName
<1>4. ReflinkDelete(v, ok) \/ ApfsDelete(v, ok) => RemoveAll(v, ok)
  BY DEF ReflinkDelete, ApfsDelete
<1>5. QED
  BY <1>1, <1>2, <1>3, <1>4, WorkIsMild DEF DeleteAsync

\* and a new volume, which has no @init yet.
LEMMA MadeIsMild ==
    ASSUME TypeOK, CanMake, NEW b, NEW life, NEW data, Made(b, life, data)
    PROVE  \A u \in Ids : Mild(u)
<1>1. vols \in [Ids -> Volumes] /\ NextId \in Ids
  BY Typed, NextIdIsLeast
<1> DEFINE m == NextId
<1>2. vols' = [vols EXCEPT ![m] = [life |-> life, name |-> Own(b), data |-> data,
                                   init |-> "none"]]
  BY DEF Made
<1> HIDE DEF m
<1>3. vols'[m].init = "none" /\ \A u \in Ids : u # m => vols'[u] = vols[u]
  BY <1>1, <1>2 DEF m
<1>4. QED
  BY <1>3 DEF Mild, Keeps

\* Where a call has gone on, failed or ended, it holds no old volume it did
\* not hold before.
LEMMA OldInHand ==
    ASSUME TypeOK, NEW b \in Branches
    PROVE  /\ Release(b) \/ FailOp(b) \/ UNCHANGED task => HoldsOld(b)
           /\ \A pc : Goto(b, pc) /\ (pc \in AsidePcs => task[b].pc \in AsidePcs)
                         => HoldsOld(b)
           /\ CloneFailed(b) /\ task[b].pc \in AsidePcs \cup {"wait", "mount"}
                  /\ (FixedName => task[b].pc \in AsidePcs) => HoldsOld(b)
<1>1. task[b] \in Tasks /\ NoId \notin Ids
  BY Typed, IdsAreNumbers
<1>2. task'[b] = Idle \/ UNCHANGED task => HoldsOld(b)
  BY <1>1, IdleTyped DEF HoldsOld
<1>3. ASSUME NEW pc, task'[b] = [task[b] EXCEPT !.pc = pc],
             pc \in AsidePcs => task[b].pc \in AsidePcs
      PROVE  HoldsOld(b)
  <2>1. task'[b].pc = pc /\ task'[b].old = task[b].old
    BY <1>1, <1>3 DEF Tasks
  <2>2. QED
    BY <1>3, <2>1 DEF HoldsOld
<1>4. Release(b) \/ FailOp(b) => task'[b] = Idle
  BY Writes
<1>5. \A pc : Goto(b, pc) => task'[b] = [task[b] EXCEPT !.pc = pc]
  BY Writes
<1>6. CloneFailed(b) => \/ FailOp(b)
                        \/ FixedName /\ task'[b] = [task[b] EXCEPT !.pc = "restore"]
  BY CloneFailedWrites
<1>7. QED
  BY <1>2, <1>3, <1>4, <1>5, <1>6

\* The calls that begin, wait, fill, boot up to their end, or destroy, and start
\* no engine.
LEMMA BeginSnap ==
    ASSUME TypeOK, SnapInv, Inv', NEW b \in Branches,
           \/ Create(b) \/ Recreate(b) \/ Reset(b) \/ RetryCreate(b) \/ Delete(b)
    PROVE  SnapInv'
<1>1. Alone(b) /\ UNCHANGED <<vols, engine>>
  BY BeginsAlone DEF Create, Recreate, Reset, RetryCreate, Delete
<1>2. \A v \in Ids : Mild(v)
  BY <1>1 DEF Mild, Keeps
<1>3. engine'[b] = engine[b]
  BY <1>1
<1>4. HoldsOld(b)
  <2>1. NoId \notin Ids
    BY IdsAreNumbers
  <2>2. \A t : t.old = NoId /\ task' = [task EXCEPT ![b] = t] => HoldsOld(b)
    <3> SUFFICES ASSUME NEW t, t.old = NoId, task' = [task EXCEPT ![b] = t]
                 PROVE  HoldsOld(b)
      OBVIOUS
    <3>1. task'[b] = t
      BY Writes
    <3>2. QED
      BY <2>1, <3>1 DEF HoldsOld
  <2>3. \A op : RecreateFrom(b, op) => HoldsOld(b)
    <3> SUFFICES ASSUME NEW op, RecreateFrom(b, op)
                 PROVE  HoldsOld(b)
      OBVIOUS
    <3> DEFINE t == [Idle EXCEPT !.pc = "kill", !.op = op, !.wasError = row[b].state = "error"]
    <3>1. t.old = NoId
      BY DEF Idle
    <3>2. task' = [task EXCEPT ![b] = t]
      BY DEF RecreateFrom
    <3> HIDE DEF t
    <3>3. QED
      BY <2>2, <3>1, <3>2
  <2>4. CASE Create(b)
    <3> DEFINE t == [Idle EXCEPT !.pc = "clone", !.op = "create"]
    <3>1. t.old = NoId
      BY DEF Idle
    <3>2. task' = [task EXCEPT ![b] = t]
      BY <2>4 DEF Create
    <3> HIDE DEF t
    <3>3. QED
      BY <2>2, <3>1, <3>2
  <2>5. CASE Recreate(b) \/ RetryCreate(b)
    BY <2>3, <2>5 DEF Recreate, RetryCreate
  <2>6. CASE Reset(b)
    <3>1. CASE \E op : RecreateFrom(b, op)
      BY <2>3, <3>1
    <3>2. ASSUME NEW v, task' = [task EXCEPT ![b] =
                               [Idle EXCEPT !.pc = "halt", !.op = "reset", !.new = v]]
          PROVE  HoldsOld(b)
      <4> DEFINE t == [Idle EXCEPT !.pc = "halt", !.op = "reset", !.new = v]
      <4>1. t.old = NoId
        BY DEF Idle
      <4>2. task' = [task EXCEPT ![b] = t]
        BY <3>2
      <4> HIDE DEF t
      <4>3. QED
        BY <2>2, <4>1, <4>2
    <3>3. QED
      BY <2>6, <3>1, <3>2 DEF Reset
  <2>7. CASE Delete(b)
    <3>1. ASSUME NEW v, task' = [task EXCEPT ![b] = [Idle EXCEPT !.pc = "halt", !.new = v]]
          PROVE  HoldsOld(b)
      <4> DEFINE t == [Idle EXCEPT !.pc = "halt", !.new = v]
      <4>1. t.old = NoId
        BY DEF Idle
      <4>2. task' = [task EXCEPT ![b] = t]
        BY <3>1
      <4> HIDE DEF t
      <4>3. QED
        BY <2>2, <4>1, <4>2
    <3>2. QED
      BY <2>7, <3>1, OldInHand DEF Delete
  <2>8. QED
    BY <2>4, <2>5, <2>6, <2>7
<1>5. QED
  BY <1>1, <1>2, <1>3, <1>4, QuietCall

\* The steps that make a volume start nothing.
LEMMA MakeSnap ==
    ASSUME TypeOK, Inv, SnapInv, Inv', NEW b \in Branches,
           Clone(b) \/ FsxWait(b) \/ FsxMount(b) \/ CloneTree(b)
    PROVE  SnapInv'
<1>1. Alone(b) /\ UNCHANGED engine /\ InitsSettle /\ TaskInv(b)
  BY MakesAlone DEF Clone, FsxWait, FsxMount, CloneTree, SnapInv, Inv, BranchInv
<1>2. engine'[b] = engine[b]
  BY <1>1
<1>3. {"clone", "copy"} \subseteq AsidePcs /\ {"wait", "mount", "provision"} \cap AsidePcs = {}
  BY DEF AsidePcs
<1>4. CASE Clone(b)
  <2>1. task[b].pc = "clone" /\ CanMake
    BY <1>4 DEF Clone, At
  <2>2. \A v \in Ids : Mild(v)
    <3>1. \/ UNCHANGED vols
          \/ Made(b, "available", "whole") \/ Made(b, "creating", "whole")
          \/ Made(b, "available", "partial")
      BY <1>4 DEF Clone, ZfsClone, FsxClone, ReflinkClone, ApfsClone, MakeDir
    <3>2. QED
      BY <1>1, <2>1, <3>1, MadeIsMild, WorkIsMild
  <2>3. HoldsOld(b)
    <3>1. CloneFailed(b) => HoldsOld(b)
      BY <1>3, <2>1, OldInHand
    <3>2. ASSUME NEW pc, MadeBy(b, pc)
          PROVE  HoldsOld(b)
      <4> DEFINE m == NextId
      <4>1. task \in [Branches -> Tasks] /\ task[b] \in Tasks
        BY Typed
      <4>2. task' = [task EXCEPT ![b].pc = pc, ![b].new = m]
        BY <3>2 DEF MadeBy
      <4> HIDE DEF m
      <4>3. task'[b].old = task[b].old
        BY <4>1, <4>2 DEF Tasks
      <4>4. QED
        BY <1>3, <2>1, <4>3 DEF HoldsOld
    <3>3. CloneFailed(b) \/ \E pc : MadeBy(b, pc)
      BY <1>4 DEF Clone, ZfsClone, FsxClone, ReflinkClone, ApfsClone, MakeDir
    <3>4. QED
      BY <3>1, <3>2, <3>3
  <2>4. QED
    BY <1>1, <1>2, <2>2, <2>3, QuietCall
<1>5. CASE FsxWait(b)
  <2>1. task[b].pc = "wait" /\ UNCHANGED vols /\ ~FixedName
    BY <1>1, <1>5 DEF FsxWait, At, TaskInv
  <2>2. HoldsOld(b)
    BY <1>3, <1>5, <2>1, OldInHand DEF FsxWait
  <2>3. QED
    BY <1>1, <1>2, <2>1, <2>2, WorkIsMild, QuietCall
<1>6. CASE FsxMount(b)
  <2>1. task[b].pc = "mount" /\ ~FixedName
    BY <1>1, <1>6 DEF FsxMount, At, TaskInv
  <2>2. HoldsOld(b)
    BY <1>3, <1>6, <2>1, OldInHand DEF FsxMount
  <2>3. \/ UNCHANGED vols
        \/ \E x : vols' = [vols EXCEPT ![task[b].new].life = x]
    BY <1>6 DEF FsxMount
  <2>4. QED
    BY <1>1, <1>2, <2>1, <2>2, <2>3, WorkIsMild, QuietCall
<1>7. CASE CloneTree(b)
  <2>1. task[b].pc = "copy"
    BY <1>7 DEF CloneTree, At
  <2>2. HoldsOld(b)
    BY <1>3, <1>7, <2>1, OldInHand DEF CloneTree
  <2>3. \/ \E x : vols' = [vols EXCEPT ![task[b].new].data = x]
        \/ vols' = Gone(task[b].new)
    BY <1>7 DEF CloneTree
  <2>4. QED
    BY <1>1, <1>2, <2>2, <2>3, WorkIsMild, QuietCall
<1>8. QED
  BY <1>4, <1>5, <1>6, <1>7

\* @init is taken while the engine is down, of a volume that is there.
LEMMA TakeInitSnap ==
    ASSUME TypeOK, Inv, SnapInv, Inv', NEW b \in Branches, SnapshotInit(b) \/ CopyInit(b)
    PROVE  SnapInv'
<1> DEFINE n == task[b].new
<1>1. Alone(b) /\ UNCHANGED engine /\ InitsSettle
  BY ProvisionsAlone DEF SnapshotInit, CopyInit, SnapInv
<1>2. engine'[b] = NoId /\ n \in Ids
  BY <1>1, NewIsMine DEF SnapshotInit, CopyInit, At, Inv, BranchInv, TaskInv, NewPcs
<1>3. InitOn(b)'
  BY <1>2 DEF InitOn
<1>4. CASE UNCHANGED vols
  BY <1>1, <1>3, <1>4, WorkIsMild, SnapCall
<1>5. CASE \E x : InitTo(n, x) /\ FixedName /\ vols[n].life = "available"
  <2>1. PICK x : vols' = [vols EXCEPT ![n].init = x]
    BY <1>5 DEF InitTo
  <2>2. vols \in [Ids -> Volumes] /\ vols[n] \in Volumes /\ vols[n].name = Own(b)
    BY <1>2, <1>5, Typed, LiveNewIsOwn
  <2>3. vols'[n] = [vols[n] EXCEPT !.init = x]
    BY <1>2, <2>1, <2>2
  <2>4. Placed(b, n)
    BY <1>5, <2>2, <2>3 DEF Placed, Volumes
  <2>5. \A v \in Ids : v # n => Mild(v)
    BY <2>1, <2>2 DEF Mild, Keeps
  <2>6. QED
    BY <1>1, <1>3, <2>4, <2>5, SnapCall
<1>6. CASE SnapshotInit(b)
  BY <1>4, <1>5, <1>6
     DEF SnapshotInit, ZfsInit, FsxInit, ReflinkInit, ApfsInit, FixedName
<1>7. CASE CopyInit(b)
  <2>1. FixedName
    BY <1>7, Kinds DEF CopyInit, At, Inv, BranchInv, TaskInv
  <2>2. QED
    BY <1>4, <1>5, <1>7, <2>1 DEF CopyInit
<1>8. QED
  BY <1>6, <1>7

\* An engine comes up on the new volume, which has the name of its branch.
LEMMA StartSnap ==
    ASSUME TypeOK, Inv, SnapInv, Inv', NEW b \in Branches, Provision(b) \/ Boot(b)
    PROVE  SnapInv'
<1> DEFINE n == task[b].new
<1>1. Alone(b) /\ UNCHANGED vols /\ InitsSettle
  BY ProvisionsAlone DEF Provision, Boot, SnapInv
<1>2. \A v \in Ids : Mild(v)
  BY <1>1 DEF Mild, Keeps
<1>3. n \in Ids
  BY NewIsMine DEF Provision, Boot, At, Inv, NewPcs
<1>4. /\ {"init", "boot", "dropOld", "done", "idle"} \cap AsidePcs = {}
      /\ Idle.pc = "idle"
  BY IdleTyped DEF AsidePcs
<1>5. /\ task[b] \in Tasks
      /\ \A pc \in {"init", "dropOld", "done"} : Goto(b, pc) => task'[b].pc \notin AsidePcs
      /\ FailOp(b) => task'[b].pc \notin AsidePcs
  <2>1. task[b] \in Tasks
    BY Typed
  <2>2. ASSUME NEW pc \in {"init", "dropOld", "done"}, Goto(b, pc)
        PROVE  task'[b].pc \notin AsidePcs
    <3>1. task'[b] = [task[b] EXCEPT !.pc = pc]
      BY <2>2, Writes
    <3>2. task'[b].pc = pc
      BY <2>1, <3>1 DEF Tasks
    <3>3. QED
      BY <1>4, <3>2
  <2>3. FailOp(b) => task'[b].pc \notin AsidePcs
    BY <1>4, Writes
  <2>4. QED
    BY <2>1, <2>2, <2>3
<1>6. task'[b].pc \notin AsidePcs
  <2>1. CASE Provision(b)
    BY <1>5, <2>1 DEF Provision
  <2>2. CASE Boot(b)
    BY <1>5, <2>2 DEF Boot
  <2>3. QED
    BY <2>1, <2>2
<1>7. HoldsOld(b)
  BY <1>6 DEF HoldsOld
<1>8. \/ engine'[b] \in {NoId, engine[b]}
      \/ engine'[b] = n /\ vols[n].life = "available"
  <2>1. CASE Provision(b)
    <3>1. ASSUME NEW e \in {NoId, n, engine[b]}, e = n => vols[e].life = "available",
                 SetEngine(b, e)
          PROVE  \/ engine'[b] \in {NoId, engine[b]}
                 \/ engine'[b] = n /\ vols[n].life = "available"
      BY <3>1, Writes
    <3>2. SetEngine(b, NoId) => engine'[b] = NoId
      BY Writes
    <3>3. QED
      BY <2>1, <3>1, <3>2 DEF Provision
  <2>2. CASE Boot(b)
    <3>1. ASSUME NEW e \in {n, engine[b]} \ {NoId}, e # engine[b] => Boots(e),
                 SetEngine(b, e)
          PROVE  \/ engine'[b] \in {NoId, engine[b]}
                 \/ engine'[b] = n /\ vols[n].life = "available"
      BY <3>1, Writes DEF Boots
    <3>2. QED
      BY <2>2, <3>1 DEF Boot
  <2>3. QED
    BY <2>1, <2>2
<1>9. CASE engine'[b] \in {NoId, engine[b]}
  BY <1>1, <1>2, <1>7, <1>9, QuietCall
<1>10. CASE engine'[b] = n /\ vols[n].life = "available"
  <2>1. vols[n].name = Own(b)
    BY <1>3, <1>10, LiveNewIsOwn
  <2> HIDE DEF n
  <2>2. QED
    BY <1>1, <1>3, <1>6, <1>10, <2>1, RisingCall
<1>11. QED
  BY <1>8, <1>9, <1>10

\* What the branch has under its name is moved aside with its engine, if that
\* was not ended.
LEMMA KillSnap ==
    ASSUME TypeOK, Inv, SnapInv, Inv', NEW b \in Branches, KillOld(b)
    PROVE  SnapInv'
<1>1. Alone(b) /\ UNCHANGED vols /\ InitsSettle /\ InitOn(b) /\ task[b].pc = "kill"
  BY ReplacesAlone DEF KillOld, At, SnapInv
<1>2. \A v \in Ids : Mild(v)
  BY <1>1 DEF Mild, Keeps
<1>3. CASE Goto(b, "stale") /\ UNCHANGED engine
  <2>1. HoldsOld(b)
    BY <1>1, <1>3, OldInHand DEF AsidePcs
  <2>2. engine'[b] = engine[b]
    BY <1>3
  <2>3. QED
    BY <1>1, <1>2, <2>1, <2>2, QuietCall
<1>4. ASSUME NEW v \in ResolveVolume(Own(b)),
             task' = [task EXCEPT ![b].pc = "stale", ![b].hasOld = TRUE, ![b].old = v],
             EndEngine(b)
      PROVE  SnapInv'
  <2>1. task \in [Branches -> Tasks] /\ task[b] \in Tasks
    BY Typed
  <2>2. task'[b].old = v
    BY <1>4, <2>1 DEF Tasks
  <2>3. engine'[b] \in {NoId, engine[b]}
    BY <1>4, EndEngineWrites
  <2>4. v \in Ids => vols[v].name = Own(b)
    BY ResolvedIsMine
  <2>5. InitOn(b)'
    BY <1>1, <2>2, <2>3, <2>4 DEF InitOn
  <2>6. QED
    BY <1>1, <1>2, <2>5, SnapCall
<1>5. QED
  BY <1>3, <1>4 DEF KillOld

\* The old volume changes its name, and the engine stays with it.
LEMMA RenameSnap ==
    ASSUME TypeOK, Inv, SnapInv, Inv', NEW b \in Branches, StashOld(b) \/ RestoreOld(b)
    PROVE  SnapInv'
<1> DEFINE v == task[b].old
<1>1. /\ Alone(b) /\ InitsSettle /\ InitOn(b)
      /\ task[b].pc \in {"stash", "restore"} /\ {"stash", "restore", "clone"} \subseteq AsidePcs
  BY ReplacesAlone DEF StashOld, RestoreOld, At, SnapInv, AsidePcs
<1>2. FailOp(b) => HoldsOld(b)
  BY OldInHand
<1>3. CASE UNCHANGED <<vols, engine>> /\ FailOp(b)
  <2>1. \A u \in Ids : Mild(u)
    BY <1>3 DEF Mild, Keeps
  <2>2. engine'[b] = engine[b]
    BY <1>3
  <2>3. QED
    BY <1>1, <1>2, <1>3, <2>1, <2>2, QuietCall
<1>4. ASSUME NEW n \in {Own(b), Stash(b)}, Renames(v, n), Rename(v, n)
      PROVE  /\ v \in Ids /\ vols'[v].life = "available" /\ vols'[v].name = n
             /\ vols'[v].init = vols[v].init
             /\ \A u \in Ids : u # v => vols'[u] = vols[u]
             /\ \A u \in Ids : u # v /\ vols[u].name = n => vols[u].init = "none"
             /\ \A u \in Ids : Mild(u) \/ Placed(b, u)
  <2>1. vols \in [Ids -> Volumes] /\ v \in Ids /\ vols[v] \in Volumes
    BY <1>4, Typed DEF Renames
  <2>2. vols'[v] = [vols[v] EXCEPT !.name = n]
    BY <1>4, <2>1 DEF Rename
  <2>3. /\ vols'[v].life = "available" /\ vols'[v].name = n
        /\ vols'[v].init = vols[v].init
    BY <1>4, <2>1, <2>2 DEF Renames, Volumes
  <2>4. \A u \in Ids : u # v => vols'[u] = vols[u]
    BY <1>4, <2>1 DEF Rename
  <2>5. \A u \in Ids : u # v => Mild(u)
    BY <2>4 DEF Mild, Keeps
  <2>6. Mild(v) \/ Placed(b, v)
    BY <1>1, <2>1, <2>3 DEF Mild, Placed, InitsSettle
  <2>7. \A u \in Ids : vols[u].name = n => vols[u].init = "none"
    BY <1>1, <1>4 DEF InitsSettle, Renames, Named
  <2>8. QED
    BY <2>1, <2>3, <2>4, <2>5, <2>6, <2>7
<1>5. CASE Renames(v, Stash(b)) /\ Rename(v, Stash(b)) /\ Goto(b, "clone") /\ UNCHANGED engine
  <2>1. /\ v \in Ids /\ vols'[v].name = Stash(b) /\ vols'[v].init = vols[v].init
        /\ \A u \in Ids : u # v => vols'[u] = vols[u]
        /\ \A u \in Ids : Mild(u) \/ Placed(b, u)
    BY <1>4, <1>5
  <2>2. HoldsOld(b)
    BY <1>1, <1>5, OldInHand
  <2>3. engine'[b] = engine[b] /\ Stash(b) # Own(b)
    BY <1>5, NamesApart
  <2>4. \A u \in Ids : vols'[u].name = Own(b) /\ vols'[u].init # "none"
                         => engine'[b] \in {NoId, u}
    BY <1>1, <2>1, <2>3 DEF InitOn
  <2>5. \A u \in Ids : vols'[u].init # "none" => vols[u].init # "none"
    BY <2>1
  <2>6. InitOn(b)'
    BY <1>1, <2>2, <2>3, <2>4, <2>5 DEF InitOn, HoldsOld
  <2>7. QED
    BY <1>1, <2>1, <2>6, SnapCall
<1>6. CASE /\ Renames(v, Own(b)) /\ Rename(v, Own(b))
           /\ \E e \in {engine[b], v} : SetEngine(b, e)
           /\ FailOp(b)
  <2>1. /\ v \in Ids /\ vols'[v].name = Own(b) /\ vols'[v].init = vols[v].init
        /\ \A u \in Ids : u # v => vols'[u] = vols[u]
        /\ \A u \in Ids : u # v /\ vols[u].name = Own(b) => vols[u].init = "none"
        /\ \A u \in Ids : Mild(u) \/ Placed(b, u)
    BY <1>4, <1>6
  <2>2. engine'[b] \in {engine[b], v}
    BY <1>6, Writes
  <2>3. vols[v].init # "none" => engine[b] \in {NoId, v}
    BY <1>1, <2>1 DEF InitOn
  <2>4. task'[b].pc = "idle"
    BY <1>6, Writes, IdleTyped
  <2>5. \A u \in Ids : vols'[u].name = Own(b) /\ vols'[u].init # "none"
                         => engine'[b] \in {NoId, u}
    BY <2>1, <2>2, <2>3
  <2>6. InitOn(b)'
    BY <2>4, <2>5 DEF InitOn, AsidePcs
  <2>7. QED
    BY <1>1, <2>1, <2>6, SnapCall
<1>7. QED
  BY <1>3, <1>5, <1>6 DEF StashOld, RestoreOld

\* The rest of a recreate and of a reset starts nothing, and puts files back.
LEMMA ReplaceSnap ==
    ASSUME TypeOK, Inv, SnapInv, Inv', NEW b \in Branches,
           DropStale(b) \/ DropOld(b) \/ MarkRunning(b) \/ Rollback(b) \/ CopyBack(b)
    PROVE  SnapInv'
<1>1. /\ Alone(b) /\ UNCHANGED engine /\ InitsSettle
  BY ReplacesAlone, ProvisionsAlone
     DEF DropStale, DropOld, MarkRunning, Rollback, CopyBack, SnapInv
<1>2. engine'[b] = engine[b]
  BY <1>1
<1>3. /\ {"stale", "stash", "clone"} \subseteq AsidePcs
      /\ {"done", "boot", "copyBack"} \cap AsidePcs = {}
  BY DEF AsidePcs
<1>4. CASE DropStale(b)
  <2>1. \A v \in Ids : Mild(v)
    BY <1>1, <1>4, DeleteIsMild, WorkIsMild DEF DropStale
  <2>2. HoldsOld(b)
    BY <1>3, <1>4, OldInHand DEF DropStale, At
  <2>3. QED
    BY <1>1, <1>2, <2>1, <2>2, QuietCall
<1>5. CASE DropOld(b)
  <2>1. \A v \in Ids : Mild(v)
    BY <1>1, <1>5, DeleteIsMild DEF DropOld
  <2>2. HoldsOld(b)
    BY <1>3, <1>5, OldInHand DEF DropOld
  <2>3. QED
    BY <1>1, <1>2, <2>1, <2>2, QuietCall
<1>6. CASE MarkRunning(b)
  <2>1. UNCHANGED vols /\ HoldsOld(b)
    BY <1>6, OldInHand DEF MarkRunning
  <2>2. QED
    BY <1>1, <1>2, <2>1, WorkIsMild, QuietCall
<1>7. CASE Rollback(b) \/ CopyBack(b)
  <2>1. UNCHANGED vols \/ \E x : vols' = [vols EXCEPT ![task[b].new].data = x]
    <3>1. PutBack(b) => \E x : vols' = [vols EXCEPT ![task[b].new].data = x]
      BY DEF PutBack
    <3>2. QED
      BY <1>7, <3>1
         DEF Rollback, CopyBack, ZfsRollback, ReflinkRollback, ApfsRollback, RemoveData
  <2>2. \/ FailOp(b) \/ Goto(b, "boot") \/ Goto(b, "copyBack")
    BY <1>7
       DEF Rollback, CopyBack, ZfsRollback, ReflinkRollback, ApfsRollback, RemoveData
  <2>3. HoldsOld(b)
    BY <1>3, <2>2, OldInHand
  <2>4. QED
    BY <1>1, <1>2, <2>1, <2>3, WorkIsMild, QuietCall
<1>8. QED
  BY <1>4, <1>5, <1>6, <1>7

\* A deletion ends its engine or leaves it, sleep ends it, and a branch wakes on
\* the volume of its name.
LEMMA EndSnap ==
    ASSUME TypeOK, Inv, SnapInv, Inv', NEW b \in Branches,
           Halt(b) \/ Destroy(b) \/ Poll(b) \/ Sleep(b) \/ Wake(b)
    PROVE  SnapInv'
<1>1. Alone(b) /\ InitsSettle
  BY EndsAlone DEF SnapInv
<1>2. {"rollback", "destroy", "poll"} \cap AsidePcs = {}
  BY DEF AsidePcs
<1>3. CASE Halt(b)
  <2>1. UNCHANGED vols /\ engine'[b] \in {NoId, engine[b]}
    BY <1>3, EndEngineWrites DEF Halt
  <2>2. HoldsOld(b)
    BY <1>2, <1>3, OldInHand DEF Halt
  <2>3. QED
    BY <1>1, <2>1, <2>2, WorkIsMild, QuietCall
<1>4. CASE Destroy(b)
  <2>1. (\A v \in Ids : Mild(v)) /\ engine'[b] = engine[b]
    BY <1>1, <1>4, DeleteIsMild DEF Destroy
  <2>2. HoldsOld(b)
    BY <1>2, <1>4, OldInHand DEF Destroy
  <2>3. QED
    BY <1>1, <2>1, <2>2, QuietCall
<1>5. CASE Poll(b)
  <2>1. UNCHANGED vols /\ engine'[b] = engine[b] /\ HoldsOld(b)
    BY <1>5, OldInHand DEF Poll
  <2>2. QED
    BY <1>1, <2>1, WorkIsMild, QuietCall
<1>6. CASE Sleep(b)
  <2>1. UNCHANGED vols /\ engine'[b] = NoId /\ HoldsOld(b)
    BY <1>6, OldInHand, Writes DEF Sleep
  <2>2. QED
    BY <1>1, <2>1, WorkIsMild, QuietCall
<1>7. CASE Wake(b)
  <2>1. PICK v \in ResolveVolume(Own(b)) \cap Ids : SetEngine(b, v)
    BY <1>7 DEF Wake
  <2>2. UNCHANGED <<vols, task>> /\ task[b].pc = "idle"
    BY <1>7 DEF Wake, Free
  <2>3. engine'[b] = v /\ v \in Ids /\ vols[v].life = "available" /\ vols[v].name = Own(b)
    BY <2>1, Writes, ResolvedIsMine
  <2>4. task'[b].pc \notin AsidePcs
    BY <2>2 DEF AsidePcs
  <2>5. QED
    BY <1>1, <2>2, <2>3, <2>4, RisingCall
<1>8. QED
  BY <1>3, <1>4, <1>5, <1>6, <1>7

\* A step that is no call.
LEMMA OtherSnap ==
    ASSUME TypeOK, SnapInv, Inv', UNCHANGED <<backend, engine>>,
           \A b \in Branches : HoldsOld(b), \A v \in Ids : Mild(v)
    PROVE  SnapInv'
<1>1. InitsSettle'
  BY DEF SnapInv, InitsSettle, Mild, Keeps, FixedName
<1>2. ASSUME NEW b \in Branches
      PROVE  InitOn(b)'
  <2>1. StoreInv' /\ BranchInv(b)' /\ InitOn(b) /\ engine'[b] = engine[b]
    BY DEF Inv, SnapInv
  <2>2. QED
    BY <2>1, InitStays
<1>3. QED
  BY <1>1, <1>2 DEF SnapInv

\* There is no @init before the first volume.
LEMMA InitSnap ==
    Init => SnapInv
<1> SUFFICES ASSUME Init
             PROVE  SnapInv
  OBVIOUS
<1>1. \A v \in Ids : vols[v].init = "none"
  BY DEF Init, Unused
<1>2. \A b \in Branches : task[b].pc = "idle"
  BY IdleTyped DEF Init
<1>3. QED
  BY <1>1, <1>2 DEF SnapInv, InitsSettle, InitOn, AsidePcs

\* Every step keeps this part of the invariant, too.
LEMMA StepSnap ==
    TypeOK /\ Inv /\ SnapInv /\ [Next]_vars /\ Inv' => SnapInv'
<1> SUFFICES ASSUME TypeOK, Inv, SnapInv, [Next]_vars, Inv'
             PROVE  SnapInv'
  OBVIOUS
<1>1. ASSUME NEW b \in Branches, CallStep(b)
      PROVE  SnapInv'
  BY <1>1, BeginSnap, MakeSnap, TakeInitSnap, StartSnap, KillSnap, RenameSnap,
     ReplaceSnap, EndSnap
  DEF CallStep, Proceed
<1>2. InitsSettle /\ (UNCHANGED task => \A b \in Branches : HoldsOld(b))
  BY OldInHand DEF SnapInv
<1>3. CASE GCRows \/ GCStep
  <2>1. UNCHANGED <<backend, engine, task>>
    BY <1>3 DEF GCRows, GCStep, GCList, GCDelete, GCEnd
  <2>2. \A v \in Ids : Mild(v)
    BY <1>2, <1>3, DeleteIsMild, WorkIsMild DEF GCRows, GCStep, GCList, GCDelete, GCEnd
  <2>3. QED
    BY <1>2, <2>1, <2>2, OtherSnap
<1>4. CASE Aws
  <2>1. PICK v \in Ids : FsxProceeds(v)
    BY <1>4 DEF Aws
  <2>2. UNCHANGED <<backend, engine, task>>
    BY <2>1 DEF FsxProceeds
  <2>3. ~FixedName
    BY <2>1 DEF FsxProceeds, Inv, StoreInv, OneVolumePerName
  <2>4. (\E x : vols' = [vols EXCEPT ![v].life = x]) \/ vols' = Gone(v)
    BY <2>1 DEF FsxProceeds
  <2>5. \A u \in Ids : Mild(u)
    BY <1>2, <2>3, <2>4, WorkIsMild
  <2>6. QED
    BY <1>2, <2>2, <2>5, OtherSnap
<1>5. CASE Restart
  <2>1. UNCHANGED <<backend, engine, vols>>
    BY <1>5 DEF Restart
  <2>2. ASSUME NEW b \in Branches
        PROVE  HoldsOld(b)
    <3>1. ASSUME NEW f
          PROVE  /\ [Idle EXCEPT !.pc = "halt", !.new = f].pc \notin AsidePcs
                 /\ Idle.pc \notin AsidePcs
      BY DEF Idle, AsidePcs
    <3>2. PICK f : task' = [c \in Branches |->
                IF Reconciled(c).state = "deleting"
                  THEN [Idle EXCEPT !.pc = "halt", !.new = f[c]] ELSE Idle]
      BY <1>5 DEF Restart
    <3>3. task'[b].pc \notin AsidePcs
      BY <3>1, <3>2
    <3>4. QED
      BY <3>3 DEF HoldsOld
  <2>3. QED
    BY <1>2, <2>1, <2>2, WorkIsMild, OtherSnap
<1>6. CASE UNCHANGED vars
  BY <1>2, <1>6, WorkIsMild, OtherSnap DEF vars
<1>7. QED
  BY <1>1, <1>3, <1>4, <1>5, <1>6 DEF Next, CallStep

\* The invariant holds of every reachable state.
LEMMA Invariant == Spec => [](TypeOK /\ Inv)
<1>1. Init => TypeOK /\ GCListsVolumes /\ Inv /\ SnapInv
  BY InitTyped, InitInv, InitSnap
<1>2. TypeOK /\ GCListsVolumes /\ Inv /\ SnapInv /\ [Next]_vars
          => (TypeOK /\ GCListsVolumes /\ Inv /\ SnapInv)'
  BY StepTyped, StepInv, StepSnap
<1>3. QED
  BY <1>1, <1>2, PTL DEF Spec

\* The name of a branch that runs or sleeps stands for one volume, the one its
\* row was set to running for, whatever clones were given up and whatever was
\* put aside on the way.
LEMMA HomeIsResolved ==
    ASSUME TypeOK, Inv
    PROVE  WakesOnItsData
<1> SUFFICES ASSUME NEW b \in Branches, row[b].state \in {"running", "sleeping"},
                    home[b] \notin taken
             PROVE  /\ ResolveVolume(Own(b)) = {home[b]}
                    /\ vols[home[b]].data \in {"whole", "mixed"}
  BY DEF WakesOnItsData
<1> DEFINE h == home[b]
           N == Named(Own(b))
<1>1. /\ h \in Ids /\ vols[h].life = "available" /\ vols[h].name = Own(b)
      /\ vols[h].data \in {"whole", "mixed"} /\ (~FixedName => Newest(b, h))
  BY DEF Inv, BranchInv, RowInv, Holds, Filled
<1>2. N \subseteq Ids /\ h \in N /\ Ids \subseteq Nat
  BY <1>1, IdsAreNumbers DEF Named
<1>3. CASE FixedName
  <2>1. \A v \in N : v = h
    BY <1>1, <1>3 DEF Inv, StoreInv, OneVolumePerName, Named
  <2>2. N = {h}
    BY <1>2, <2>1
  <2> HIDE DEF h, N
  <2>3. ResolveVolume(Own(b)) = N
    BY <1>2, <1>3, Kinds
       DEF ResolveVolume, ZfsResolve, FilesResolve, ApfsResolve, FixedName, N
  <2>4. QED
    BY <1>1, <2>2, <2>3 DEF h
<1>4. CASE ~FixedName
  <2>1. \A v \in N : v <= h
    BY <1>1, <1>4 DEF Newest, Live, Named
  <2>2. {v \in N : \A u \in N : u <= v} = {h}
    <3> HIDE DEF h, N
    <3>1. \A v \in N : v \in Nat /\ h \in Nat
      BY <1>2
    <3>2. \A v \in N : (\A u \in N : u <= v) <=> v = h
      BY <1>2, <2>1, <3>1
    <3>3. QED
      BY <1>2, <3>2
  <2>3. ResolveVolume(Own(b)) = {v \in N : \A u \in N : u <= v}
    BY <1>4 DEF ResolveVolume, FsxResolve, FixedName
  <2>4. QED
    BY <1>1, <2>2, <2>3
<1>5. QED
  BY <1>3, <1>4

\* On every backend a branch that runs or sleeps resolves to the whole volume
\* on which it last became running: not to an older generation, to a clone
\* that was given up and came up late, or to a stash.  Only gc takes it away.
THEOREM BranchesWakeOnTheirData == Spec => []WakesOnItsData
<1>1. TypeOK /\ Inv => WakesOnItsData
  BY HomeIsResolved
<1>2. QED
  BY <1>1, Invariant, PTL

\* No engine runs on a volume that is being deleted, that has been put aside,
\* or that is another branch's, through failed calls, retries and restarts of
\* sashikid; gc excepted.
THEOREM EnginesHaveVolumes == Spec => []EngineHasVolume
<1>1. Inv => EngineHasVolume
  BY DEF Inv, BranchInv, EngineInv, RowInv, OnIts, EngineHasVolume
<1>2. QED
  BY <1>1, Invariant, PTL

===========================================================================
