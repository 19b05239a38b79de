------------------------- MODULE BaselineLifecycle -------------------------
(***************************************************************************)
(* Baselines: the snapshots that new branches are cloned from, the rows    *)
(* that say how they came about, and the pointer to the current one.       *)
(* Builds, refreshes, validations, promotions and collections run at the   *)
(* same time, each on a goroutine of its own (a task).  They meet in       *)
(* baselineMu (the pointer and the collection of rows), validateMu (the    *)
(* one volume _validate, on which candidates are booted), refreshRunning   *)
(* (the base itself) and in single statements on state.db that take no     *)
(* lock.                                                                   *)
(*                                                                         *)
(* Any external command may fail at any time, and sashikid may stop.       *)
(***************************************************************************)
EXTENDS Naturals

CONSTANTS
    Snaps,            \* bound: snapshots that can ever be taken
    Default,          \* the baseline of the configuration file
    Tasks,            \* bound: calls under way at a time
    Branches,         \* names of branches
    NoSnap,
    RequireMasked,    \* the publish policy of the configuration
    RequireValidated

ASSUME BaselineAssumption ==
    /\ Default \in Snaps
    /\ NoSnap \notin Snaps
    /\ "free" \notin Tasks
    /\ RequireMasked \in BOOLEAN
    /\ RequireValidated \in BOOLEAN

VARIABLES
    snaps,      \* the snapshots in the storage
    row,        \* baselines table: Absent, or what it says of a snapshot
    current,    \* the row with is_current, if any
    branch,     \* creates and branches: how far, and cloned from what
    task,       \* the calls under way
    baselineMu, \* who holds it
    validateMu,
    refreshing, \* refreshRunning
    sentinel,   \* does the masked sentinel file exist?
    validator,  \* the volume _validate and its engine
    born,       \* history: every snapshot that was ever taken
    truth,      \* history: was its data masked, was it booted and checked?
    stray       \* history: a stop or a failed kill left the engine running

tables == <<row, current>>
locks == <<baselineMu, validateMu, refreshing>>
history == <<born, truth, stray>>
vars == <<snaps, tables, branch, task, locks, sentinel, validator, history>>

Absent == [masked |-> FALSE, validated |-> FALSE, here |-> FALSE]
Says(m, v) == [masked |-> m, validated |-> v, here |-> TRUE]
Registered(s) == row[s].here
Rows == [masked: BOOLEAN, validated: BOOLEAN, here: BOOLEAN]

Builds == {"refresh", "build"}
Promotions == {"promote", "promoteUnchecked"}
Kinds == Builds \cup Promotions \cup {"none", "validate", "collect"}
Pcs == {"idle", "build", "register", "lock", "clone", "boot", "hook", "clean",
        "mark", "publish", "destroy", "drop"}
TaskRecords == [pc: Pcs, kind: Kinds, snap: Snaps \cup {NoSnap}, masked: BOOLEAN,
                ok: BOOLEAN, left: SUBSET Snaps]
Idle == [pc |-> "idle", kind |-> "none", snap |-> NoSnap, masked |-> FALSE,
         ok |-> FALSE, left |-> {}]

BranchRecords == [step: {"none", "chosen", "listed", "cloned"},
                  origin: Snaps \cup {NoSnap}]
NoBranch == [step |-> "none", origin |-> NoSnap]

\* currentBaseline: the pointer, else the configuration.
CurrentBaseline == IF current # NoSnap THEN current ELSE Default

\* BaselineRefCounts counts rows of branches; zfs itself counts clones.
Referenced(s) == \E b \in Branches : branch[b].step \in {"listed", "cloned"} /\ branch[b].origin = s
HasClone(s) == validator.vol = s \/ \E b \in Branches : branch[b].step = "cloned" /\ branch[b].origin = s

At(t, pc) == task[t].pc = pc
Go(t, pc) == task' = [task EXCEPT ![t].pc = pc]
SetRow(s, r) == row' = [row EXCEPT ![s] = r]
Fresh == Snaps \ born

\* The call returns; a build or a refresh resets refreshRunning.
Return(t) ==
    /\ task' = [task EXCEPT ![t] = Idle]
    /\ refreshing' = IF task[t].kind \in Builds THEN FALSE ELSE refreshing

PolicyMet(m, v) == (RequireMasked => m) /\ (RequireValidated => v)

-----------------------------------------------------------------------------
(***************************************************************************)
(* Build and refresh                                                       *)
(***************************************************************************)

\* Variant: a sentinel of an earlier build is not removed.
StartBuildKeepsSentinel(t, k) ==
    /\ At(t, "idle") /\ ~refreshing
    /\ refreshing' = TRUE
    /\ task' = [task EXCEPT ![t] = [Idle EXCEPT !.pc = "build", !.kind = k]]
    /\ UNCHANGED <<snaps, tables, branch, baselineMu, validateMu, sentinel, validator, history>>

\* BuildBaseline or RefreshBaseline, one at a time; the sentinel goes first.
StartBuild(t, k) ==
    /\ At(t, "idle") /\ ~refreshing
    /\ refreshing' = TRUE
    /\ sentinel' = FALSE
    /\ task' = [task EXCEPT ![t] = [Idle EXCEPT !.pc = "build", !.kind = k]]
    /\ UNCHANGED <<snaps, tables, branch, baselineMu, validateMu, validator, history>>

\* The script ran, the base is quiesced and snapshotted.  A script that masks
\* leaves the sentinel.
TakeSnapshot(t) ==
    /\ At(t, "build")
    /\ \E s \in Fresh, m \in BOOLEAN :
         /\ sentinel' = (sentinel \/ m)
         /\ snaps' = snaps \cup {s}
         /\ born' = born \cup {s}
         /\ truth' = [truth EXCEPT ![s] = [masked |-> m, booted |-> FALSE]]
         /\ task' = [task EXCEPT ![t].pc = "register", ![t].snap = s, ![t].masked = sentinel']
    /\ UNCHANGED <<tables, branch, locks, validator, stray>>

\* Variant: an early return that forgets refreshRunning.
BuildFailsBusy(t) ==
    /\ At(t, "build")
    /\ task' = [task EXCEPT ![t] = Idle]
    /\ UNCHANGED <<snaps, tables, branch, locks, sentinel, validator, history>>

\* The script, the quiesce check or the snapshot failed; the script may have
\* come as far as the sentinel.
BuildFails(t) ==
    /\ At(t, "build")
    /\ Return(t)
    /\ sentinel' \in {sentinel, TRUE}
    /\ UNCHANGED <<snaps, tables, branch, baselineMu, validateMu, validator, history>>

\* RegisterBaseline of the candidate: under baselineMu when promoting, without
\* it when building.
Register(t) ==
    /\ At(t, "register")
    /\ task[t].kind \in Promotions => baselineMu = "free"
    /\ SetRow(task[t].snap, Says(task[t].masked, FALSE))
    /\ IF task[t].kind = "build"
         THEN Return(t)
         ELSE /\ Go(t, IF task[t].kind = "promoteUnchecked" THEN "publish" ELSE "lock")
              /\ UNCHANGED refreshing
    /\ UNCHANGED <<snaps, current, branch, baselineMu, validateMu, sentinel, validator, history>>

-----------------------------------------------------------------------------
(***************************************************************************)
(* Promote: the snapshot of a stopped branch, with the operator's word for *)
(* its masking; and ValidateBaseline.                                      *)
(***************************************************************************)

StartPromote(t, k) ==
    /\ At(t, "idle")
    /\ k = "promoteUnchecked" => ~RequireValidated
    /\ \E s \in Fresh, m \in BOOLEAN :
         /\ RequireMasked => m
         /\ snaps' = snaps \cup {s}
         /\ born' = born \cup {s}
         /\ truth' = [truth EXCEPT ![s] = [masked |-> m, booted |-> FALSE]]
         /\ task' = [task EXCEPT ![t] = [Idle EXCEPT !.pc = "register", !.kind = k,
                                                      !.snap = s, !.masked = m]]
    /\ UNCHANGED <<tables, branch, locks, sentinel, validator, stray>>

\* The row is read here and written back, with validated set, at the end.
StartValidate(t, s) ==
    /\ At(t, "idle")
    /\ Registered(s)
    /\ task' = [task EXCEPT ![t] = [Idle EXCEPT !.pc = "lock", !.kind = "validate",
                                                !.snap = s, !.masked = row[s].masked]]
    /\ UNCHANGED <<snaps, tables, branch, locks, sentinel, validator, history>>

-----------------------------------------------------------------------------
(***************************************************************************)
(* validateCandidate                                                       *)
(***************************************************************************)

NoValidator == [vol |-> NoSnap, up |-> FALSE]

\* Kill of the engine, then DeleteAsync of the volume, their errors ignored: any
\* of the two may be left, also the engine alone, where a volume can be deleted
\* under it.
Sweep ==
    /\ validator' \in {NoValidator, [validator EXCEPT !.up = FALSE], validator,
                       [validator EXCEPT !.vol = NoSnap]}
    /\ stray' = validator'.up

\* Variant: every call works on _validate at once.
LockUnshared(t) ==
    /\ At(t, "lock")
    /\ validateMu' = t
    /\ Sweep
    /\ Go(t, "clone")
    /\ UNCHANGED <<snaps, tables, branch, baselineMu, refreshing, sentinel, born, truth>>

\* validateMu, and away with what an earlier validation left behind.
Lock(t) ==
    /\ At(t, "lock")
    /\ validateMu = "free"
    /\ validateMu' = t
    /\ Sweep
    /\ Go(t, "clone")
    /\ UNCHANGED <<snaps, tables, branch, baselineMu, refreshing, sentinel, born, truth>>

CloneCandidate(t) ==
    /\ At(t, "clone")
    /\ validator.vol = NoSnap
    /\ task[t].snap \in snaps
    /\ validator' = [validator EXCEPT !.vol = task[t].snap]
    /\ Go(t, "boot")
    /\ UNCHANGED <<snaps, tables, branch, locks, sentinel, history>>

\* No memory, or no clone: nothing to clean.
CloneFails(t) ==
    /\ At(t, "clone")
    /\ Return(t)
    /\ validateMu' = "free"
    /\ UNCHANGED <<snaps, tables, branch, baselineMu, sentinel, validator, history>>

\* Start and WaitReady; an engine that is not ready may be running.  Where one
\* has outlived its volume, it stays the one that answers.
Boot(t) ==
    /\ At(t, "boot")
    /\ \/ validator' = [validator EXCEPT !.up = TRUE] /\ Go(t, "hook")
       \/ validator' \in {validator, [validator EXCEPT !.up = TRUE]} /\ Go(t, "clean")
    /\ UNCHANGED <<snaps, tables, branch, locks, sentinel, history>>

\* on-baseline-validate looks at whatever answers as _validate.  History counts
\* a check for the volume, also where an engine that a failed kill has left
\* answered in the place of one that was booted on it.
Hook(t) ==
    /\ At(t, "hook")
    /\ \E passed \in BOOLEAN :
         /\ task' = [task EXCEPT ![t].pc = "clean", ![t].ok = passed]
         /\ truth' = IF passed /\ validator.up
                     THEN [truth EXCEPT ![validator.vol].booted = TRUE] ELSE truth
    /\ UNCHANGED <<snaps, tables, branch, locks, sentinel, validator, born, stray>>

\* Where the call goes on from the deferred cleanup.
Validated(t) ==
    IF task[t].ok
      THEN /\ Go(t, IF task[t].kind \in Promotions THEN "publish" ELSE "mark")
           /\ UNCHANGED refreshing
      ELSE Return(t)

\* Variant: the cleanup after a failure uses the context that has timed out.
CleanCancelled(t) ==
    /\ At(t, "clean")
    /\ validateMu' = "free"
    /\ IF task[t].ok THEN Sweep ELSE UNCHANGED <<validator, stray>>
    /\ Validated(t)
    /\ UNCHANGED <<snaps, tables, branch, baselineMu, sentinel, born, truth>>

Clean(t) ==
    /\ At(t, "clean")
    /\ validateMu' = "free"
    /\ Sweep
    /\ Validated(t)
    /\ UNCHANGED <<snaps, tables, branch, baselineMu, sentinel, born, truth>>

\* The row of a validated candidate is written again, whether or not it is still
\* there.  A refresh goes on to the publish policy.
Mark(t) ==
    /\ At(t, "mark")
    /\ SetRow(task[t].snap, Says(task[t].masked, TRUE))
    /\ IF task[t].kind = "refresh" /\ PolicyMet(task[t].masked, TRUE)
         THEN Go(t, "publish") /\ UNCHANGED refreshing
         ELSE Return(t)
    /\ UNCHANGED <<snaps, current, branch, baselineMu, validateMu, sentinel, validator, history>>

-----------------------------------------------------------------------------
(***************************************************************************)
(* The pointer                                                             *)
(***************************************************************************)

\* DB.SetCurrentBaseline inserts the row it does not find.
SetCurrent(s, r) ==
    /\ current' = s
    /\ SetRow(s, IF r.here THEN r ELSE Says(FALSE, FALSE))

\* The end of a refresh.
PublishRefresh(t) ==
    /\ At(t, "publish") /\ task[t].kind = "refresh"
    /\ baselineMu = "free"
    /\ SetCurrent(task[t].snap, row[task[t].snap])
    /\ Return(t)
    /\ UNCHANGED <<snaps, branch, baselineMu, validateMu, sentinel, validator, history>>

\* The end of a promote: a candidate whose row is gone is not published.
PublishPromoted(t) ==
    /\ At(t, "publish") /\ task[t].kind \in Promotions
    /\ baselineMu = "free"
    /\ IF Registered(task[t].snap)
         THEN SetCurrent(task[t].snap, IF task[t].ok THEN Says(task[t].masked, TRUE)
                                                     ELSE row[task[t].snap])
         ELSE UNCHANGED tables
    /\ Return(t)
    /\ UNCHANGED <<snaps, branch, baselineMu, validateMu, sentinel, validator, history>>

\* Variant: set is the way round the policy.
SetBaselineUnchecked(s) ==
    /\ baselineMu = "free"
    /\ Registered(s)
    /\ SetCurrent(s, row[s])
    /\ UNCHANGED <<snaps, branch, task, locks, sentinel, validator, history>>

\* Variant: set does not wait for a collection.
SetBaselineUnlocked(s) ==
    /\ Registered(s)
    /\ PolicyMet(row[s].masked, row[s].validated)
    /\ SetCurrent(s, row[s])
    /\ UNCHANGED <<snaps, branch, task, locks, sentinel, validator, history>>

SetBaseline(s) ==
    /\ baselineMu = "free"
    /\ Registered(s)
    /\ PolicyMet(row[s].masked, row[s].validated)
    /\ SetCurrent(s, row[s])
    /\ UNCHANGED <<snaps, branch, task, locks, sentinel, validator, history>>

-----------------------------------------------------------------------------
(***************************************************************************)
(* Collection                                                              *)
(***************************************************************************)

\* GCBaselines or DeleteBaseline, baselineMu held until the end: what may go is
\* decided once, retention and keep_last may keep any of it.
StartCollect(t) ==
    /\ At(t, "idle")
    /\ baselineMu = "free"
    /\ \E doomed \in SUBSET {s \in Snaps : Registered(s)} :
         /\ doomed # {}
         /\ \A s \in doomed : s # CurrentBaseline /\ ~Referenced(s)
         /\ task' = [task EXCEPT ![t] = [Idle EXCEPT !.pc = "destroy", !.kind = "collect",
                                                     !.left = doomed]]
    /\ baselineMu' = t
    /\ UNCHANGED <<snaps, tables, branch, validateMu, refreshing, sentinel, validator, history>>

\* DeleteBaselineSnapshot: zfs refuses a snapshot that has clones or is gone.
DestroySnapshot(t) ==
    /\ At(t, "destroy")
    /\ \E s \in task[t].left :
         /\ s \in snaps /\ ~HasClone(s)
         /\ snaps' = snaps \ {s}
         /\ task' = [task EXCEPT ![t].pc = "drop", ![t].snap = s]
    /\ UNCHANGED <<tables, branch, locks, sentinel, validator, history>>

\* An error keeps the row, also when it came too late to keep the snapshot:
\* zfs destroy is killed with the request that waits for it.
DestroyFails(t) ==
    /\ At(t, "destroy")
    /\ \E s \in task[t].left :
         /\ task' = [task EXCEPT ![t].left = @ \ {s}]
         /\ snaps' \in {snaps, IF HasClone(s) THEN snaps ELSE snaps \ {s}}
    /\ UNCHANGED <<tables, branch, locks, sentinel, validator, history>>

\* Variant: the table forgets the key.
DropRowShrinks(t) ==
    /\ At(t, "drop")
    /\ row' = [s \in Snaps \ {task[t].snap} |-> row[s]]
    /\ task' = [task EXCEPT ![t].pc = "destroy", ![t].left = @ \ {task[t].snap}, ![t].snap = NoSnap]
    /\ UNCHANGED <<snaps, current, branch, locks, sentinel, validator, history>>

DropRow(t) ==
    /\ At(t, "drop")
    /\ SetRow(task[t].snap, Absent)
    /\ current' = IF current = task[t].snap THEN NoSnap ELSE current
    /\ task' = [task EXCEPT ![t].pc = "destroy", ![t].left = @ \ {task[t].snap}, ![t].snap = NoSnap]
    /\ UNCHANGED <<snaps, branch, locks, sentinel, validator, history>>

CollectEnds(t) ==
    /\ At(t, "destroy")
    /\ task[t].left = {}
    /\ baselineMu' = "free"
    /\ Return(t)
    /\ UNCHANGED <<snaps, tables, branch, validateMu, sentinel, validator, history>>

-----------------------------------------------------------------------------
(***************************************************************************)
(* Branches, as far as baselines are concerned                             *)
(***************************************************************************)

BranchTo(b, step, s) ==
    /\ branch' = [branch EXCEPT ![b] = [step |-> step, origin |-> s]]
    /\ UNCHANGED <<snaps, tables, task, locks, sentinel, validator, history>>

\* CreateWithMetaFrom reads the pointer, or looks up the baseline it is given.
ChooseOrigin(b) ==
    /\ branch[b].step = "none"
    /\ \E s \in Snaps : (s = CurrentBaseline \/ Registered(s)) /\ BranchTo(b, "chosen", s)

InsertBranch(b) == branch[b].step = "chosen" /\ BranchTo(b, "listed", branch[b].origin)

\* The first clone, or that of a retry.
CloneBranch(b) ==
    /\ branch[b].step = "listed" /\ branch[b].origin \in snaps
    /\ BranchTo(b, "cloned", branch[b].origin)

DeleteBranch(b) == branch[b].step \in {"listed", "cloned"} /\ BranchTo(b, "none", NoSnap)

-----------------------------------------------------------------------------
\* sashikid stops and starts again; engines, datasets and files stay.
Crash ==
    /\ task' = [t \in Tasks |-> Idle]
    /\ baselineMu' = "free" /\ validateMu' = "free" /\ refreshing' = FALSE
    /\ branch' = [b \in Branches |-> IF branch[b].step = "chosen" THEN NoBranch ELSE branch[b]]
    /\ stray' = validator.up
    /\ UNCHANGED <<snaps, tables, sentinel, validator, born, truth>>

\* init has registered and published its import, or the configuration names it.
Init ==
    /\ snaps = {Default}
    /\ \/ current = NoSnap /\ row = [s \in Snaps |-> Absent]
       \/ /\ current = Default
          /\ row = [s \in Snaps |-> IF s = Default THEN Says(FALSE, FALSE) ELSE Absent]
    /\ branch = [b \in Branches |-> NoBranch]
    /\ task = [t \in Tasks |-> Idle]
    /\ baselineMu = "free" /\ validateMu = "free" /\ refreshing = FALSE
    /\ sentinel = FALSE
    /\ validator = NoValidator
    /\ born = {Default}
    /\ truth = [s \in Snaps |-> [masked |-> FALSE, booted |-> FALSE]]
    /\ stray = FALSE

Start(t) ==
    \/ \E k \in Builds : StartBuild(t, k)
    \/ \E k \in Promotions : StartPromote(t, k)
    \/ \E s \in Snaps : StartValidate(t, s)
    \/ StartCollect(t)

\* The steps that wait for a mutex.
Waits(t) == \/ Register(t) \/ Lock(t) \/ PublishRefresh(t) \/ PublishPromoted(t)

Runs(t) ==
    \/ TakeSnapshot(t) \/ BuildFails(t)
    \/ CloneCandidate(t) \/ CloneFails(t) \/ Boot(t) \/ Hook(t) \/ Clean(t) \/ Mark(t)
    \/ DestroySnapshot(t) \/ DestroyFails(t) \/ DropRow(t) \/ CollectEnds(t)

Branching(b) == ChooseOrigin(b) \/ InsertBranch(b) \/ CloneBranch(b) \/ DeleteBranch(b)

Next ==
    \/ \E t \in Tasks : Start(t) \/ Waits(t) \/ Runs(t)
    \/ \E s \in Snaps : SetBaseline(s)
    \/ \E b \in Branches : Branching(b)
    \/ Crash

Spec == Init /\ [][Next]_vars

\* Commands end, each by itself or by its timeout (the script of BuildBaseline
\* has none: that it ends is an assumption).  sync.Mutex passes a waiter over
\* only for a while.  Nobody has to call anything.
FairSpec ==
    /\ Spec
    /\ \A t \in Tasks : WF_vars(Runs(t)) /\ SF_vars(Waits(t))

-----------------------------------------------------------------------------
(***************************************************************************)
(* Properties                                                              *)
(***************************************************************************)

\* Type correctness of the tables, the locks and the calls under way.
TypeOK ==
    /\ snaps \in SUBSET Snaps
    /\ row \in [Snaps -> Rows]
    /\ current \in Snaps \cup {NoSnap}
    /\ branch \in [Branches -> BranchRecords]
    /\ task \in [Tasks -> TaskRecords]
    /\ baselineMu \in Tasks \cup {"free"}
    /\ validateMu \in Tasks \cup {"free"}
    /\ refreshing \in BOOLEAN
    /\ sentinel \in BOOLEAN
    /\ validator \in [vol: Snaps \cup {NoSnap}, up: BOOLEAN]
    /\ born \in SUBSET Snaps
    /\ truth \in [Snaps -> [masked: BOOLEAN, booted: BOOLEAN]]
    /\ stray \in BOOLEAN

\* GC and delete: whoever moves the pointer meanwhile, neither the snapshot nor
\* the row of the current baseline is taken away.
CurrentKept ==
    [][/\ CurrentBaseline \in snaps => CurrentBaseline \in snaps'
       /\ current # NoSnap => current' # NoSnap /\ Registered(current)']_vars

\* Refresh, promote and set: whatever becomes current satisfies the policy in
\* fact, not only by a row that somebody else may have written.
PublishPolicy ==
    [][current' \notin {current, NoSnap} =>
           PolicyMet(truth[current'].masked, truth[current'].booted)]_vars

\* A row never claims what did not happen to its snapshot: masked by that very
\* build, and checked while _validate was a clone of that very snapshot.
RowsTellTheTruth ==
    \A s \in Snaps : /\ row[s].masked => truth[s].masked
                     /\ row[s].validated => truth[s].booted

\* The engine of a candidate, which may hold unmasked data, runs only under a
\* validation, unless sashikid was stopped or a kill failed.
NoStrayValidator == validator.up => validateMu # "free" \/ stray

(***************************************************************************)
(* The inductive invariant                                                 *)
(***************************************************************************)

\* Tasks that have, or are given, a snapshot; those that work on _validate.
HasSnap(t) == task[t].pc \notin {"idle", "build", "destroy"}
Validates(t) == task[t].pc \in {"clone", "boot", "hook", "clean"}
Collects(t) == task[t].pc \in {"destroy", "drop"}

KindFits(t) ==
    /\ task[t].pc = "idle" => task[t].kind = "none"
    /\ task[t].pc = "build" => task[t].kind \in Builds
    /\ task[t].pc = "register" => task[t].kind \in Builds \cup Promotions
    /\ task[t].pc \in {"lock", "clone", "boot", "hook", "clean"} =>
         task[t].kind \in {"refresh", "validate", "promote"}
    /\ task[t].pc = "mark" => task[t].kind \in {"refresh", "validate"}
    /\ task[t].pc = "publish" => task[t].kind \in {"refresh"} \cup Promotions

\* What a task carries is true of its snapshot.
CarriesTruth(t) ==
    IF HasSnap(t)
      THEN /\ task[t].snap \in born
           /\ task[t].masked => truth[task[t].snap].masked
           /\ task[t].ok => truth[task[t].snap].booted
      ELSE ~task[t].masked /\ ~task[t].ok

\* What it will publish satisfies the policy.
MayPublish(t) ==
    /\ task[t].kind \in Promotions => (RequireMasked => task[t].masked)
    /\ task[t].kind = "promoteUnchecked" => ~RequireValidated
    /\ task[t].pc = "mark" => task[t].ok
    /\ task[t].pc = "publish" /\ task[t].kind # "promoteUnchecked" => task[t].ok
    /\ task[t].pc = "publish" /\ task[t].kind = "refresh" => PolicyMet(task[t].masked, TRUE)

\* One build at a time, and none over the sentinel of another.
BuildsFit ==
    /\ \A t \in Tasks : task[t].kind \in Builds => refreshing
    /\ \A t, u \in Tasks : task[t].kind \in Builds /\ task[u].kind \in Builds => t = u
    /\ \A t \in Tasks : task[t].pc = "build" => ~sentinel

\* _validate belongs to the holder of validateMu.
ValidatorFits ==
    /\ \A t \in Tasks : Validates(t) => validateMu = t
    /\ \A t \in Tasks : task[t].pc \in {"boot", "hook"} => validator.vol = task[t].snap
    /\ \A t \in Tasks : task[t].pc = "clone" => (validator.up => stray)
    /\ \A t \in Tasks : task[t].pc = "hook" => validator.up
    /\ validator.vol \in born \cup {NoSnap}

\* What a collection takes is not current as long as it lasts.
CollectFits ==
    /\ \A t \in Tasks : Collects(t) => /\ baselineMu = t
                                       /\ CurrentBaseline \notin task[t].left
    /\ \A t \in Tasks : task[t].pc = "drop" => task[t].snap \in task[t].left

\* Rows and pointer are about snapshots that were taken.
TablesFit ==
    /\ Default \in born /\ snaps \subseteq born
    /\ \A s \in Snaps : Registered(s) => s \in born
    /\ \A s \in Snaps : ~Registered(s) => row[s] = Absent
    /\ current # NoSnap => Registered(current)

BaselineInv ==
    /\ TypeOK
    /\ \A t \in Tasks : KindFits(t) /\ CarriesTruth(t) /\ MayPublish(t)
    /\ BuildsFit
    /\ ValidatorFits
    /\ CollectFits
    /\ TablesFit
    /\ RowsTellTheTruth
    /\ NoStrayValidator

-----------------------------------------------------------------------------
\* A refused second refresh is refused only for a time.
RefreshEnds == refreshing ~> ~refreshing

\* Set and promote say of every publisher: what becomes current is a registered
\* baseline, not one that was deleted while it was being validated.
PublishedIsRegistered ==
    [][current' \notin {current, NoSnap} => Registered(current')]_vars

=============================================================================
