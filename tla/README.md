# A verification development for sashiki

sashiki gives every pull request its own database: `sashikid` clones a
baseline copy-on-write, starts a mysqld or postgres on the clone, routes
connections to it by branch name and puts it to sleep or deletes it when nobody
uses it. This directory holds TLA+ models of the parts where that can go wrong,
their TLC configurations, and proofs checked by TLAPS.

All paths below are relative to the repository.

## 1. Inventory

| Component | State it keeps | Operations | Talks to |
|---|---|---|---|
| Manager, branch lifecycle (`internal/workspace/manager.go`, `reaper.go` Sleep, `baseline.go` PromoteBranch) | one lock per branch name; everything else is in state.db, the datasets and the engine units | Create, Reset, Recreate, Delete, Wake, Sleep, Promote | state.db, storage, engine, hooks |
| Error model (`errors.go`) | the failure columns of a branch row | failOp, classify, Retry, retryCreate | Manager |
| Reconcile, doctor, orphan GC (`reconcile.go`) | none | Reconcile at start; inspect and GCOrphans while serving | state.db, storage, engine |
| Admission (`manager.go` admitMemory, allocPort; `capacity.go`) | `admitMu` | max_branches, port, max_running, memory, watermark | state.db |
| Baselines (`baseline.go`, `refresh.go`) | baselines table and current pointer, `baselineMu`, `validateMu`, `refreshRunning`, the shared `_validate` volume | register, validate, publish, set, GC, delete, promote, refresh | state.db, storage, engine |
| Operation runner (`internal/ops/ops.go`) | `exclusive` reservations, wait group, operations table | StartExclusive, Start, RunSync, Drain, Wait | state.db, REST API |
| Reaper, connection poller, drain (`reaper.go`, `connpoll.go`, `drain.go`) | last connection counts and failure counts | Reap, poll, Drain | Manager, engine, proxy |
| state.db (`internal/state/state.go`) | branches, baselines, operations, tokens, hook runs | one SQL statement (or transaction) per call | everyone |
| Storage (`internal/storage/*`) | the datasets; on FSx several generations of one name, on reflink and apfs directories | Clone, Rename, SnapshotInit, Rollback, ResolveVolume, ListBranchVolumes, DeleteAsync/Poll | zfs, FSx API, files |
| Engines (`internal/engine/*`) | systemd units or pid files | Start, WaitReady, Stop, Kill, IsRunning, ConnCount | systemd, mysqld, postgres |
| Proxies (`internal/proxy`, `internal/pgproxy`) and `internal/authlimit` | connection counts per branch, failures per source, in-flight slots | authenticate, route, lazy create, wake, relay | Manager |
| REST API (`internal/api`) | none | decode, start an operation, render | Manager, operation runner |
| Loader (`internal/baseline`) and quiesce check (`refresh.go`) | the base's data directory, `_migrations`, a server on the base | start or reclaim a server, apply and record files, sync the app user, shut down, check | mysqld, postgres, systemd |
| CLI, host side (`cmd/sashiki` init, baseline import) | pools, datasets, AppArmor profile, sudoers, configuration; the base | init and its repetition after an upgrade; import of files, directories, streams | zfs, mysqld, postgres, the daemon's configuration |
| Root helper (`cmd/sashiki-root-helper`, `internal/roothelper`) | `root-helper.yaml` | lets a command through or not | sudoers |
| Hooks, config, secrets, oplog | none worth a state machine | | |

How they interact: an HTTP request, a proxy connection or a reaper tick runs on
a goroutine of its own and calls the Manager, which serialises calls per branch
name (`lock`) and otherwise relies on short critical sections (`admitMu`,
`baselineMu`, `validateMu`). A call is a sequence of external commands (zfs,
systemctl, hook scripts) with a row update between some of them. sashikid can
stop between any two; the engines and the datasets live on; the next start runs
Reconcile before anything is served.

What is hard here: calls of different branches interleave at every command;
every command can fail, some half way; a stop at any step leaves row, datasets
and engine in whatever combination the step produced; retry decides on a row it
read before it has the lock; promote makes one branch's dataset the origin of
others.

What makes each component correct:

- lifecycle: a running or sleeping branch can always be reset; no transitional
  row is ever stranded; no dataset or engine is lost from the list; old data is
  destroyed only when its replacement is complete; a registered baseline is
  never destroyed with its branch; `@init` is never taken of a dirty datadir.
- admission: no two branches share a port; limits hold whoever asks at once.
- baselines: the current baseline exists, satisfies the publish policy, and is
  never collected; the candidate that is marked validated is the one that was
  booted.
- operation runner: one exclusive operation per target; every operation ends;
  a finished operation no longer blocks the next one.
- reaper, poller: a branch in use is not stopped; a due one finally is.
- proxies, limiter: connection limits hold; a failing source is delayed and
  cannot get round it by trying in parallel; a slot is always returned; nobody
  is piped into a branch he did not name.
- storage: a branch that runs or sleeps finds its own volume, and all of it; no
  call takes the volume from under an engine, unless its Stop or Kill failed and
  the error was dropped; what belongs to no branch is collected.
- base: a snapshot is taken of data at rest, and has all that was asked for.
- init: run again, it never takes from a working sashikid what it has; the
  AppArmor profile it writes is never one that the next reboot turns off.

## 2. Modules and plan

| Module | What it models |
|---|---|
| `BranchLifecycle` | the calls on a branch on ebs-zfs, one action per external command, failures, engine deaths, stops of sashikid, Reconcile, Retry |
| `BranchContract`, `BranchRefinement` | what a client of the API may count on, and the mapping by which `BranchLifecycle` implements it |
| `OpsRunner` | exclusive, plain and synchronous operations: handlers, goroutines, rows, Drain, stop and recovery |
| `BaselineLifecycle` | build, refresh, validate, promote, set, delete, GC with their mutexes, against creates and stops |
| `AuthLimiter` | failures per source, their delay and expiry, slots in flight |
| `ProxySessions` | a connection through either proxy: verification, look-up, lazy create, wake, slot, dial, touch, pipe, end; the calls of others as its environment |
| `IdleReaper` | the reaper's and the poller's passes beside those sessions |
| `VolumeStore` | what the four backends do to volumes in create, reset, recreate, delete, retry, wake, gc --orphans and a restart |
| `BaseData` | the data of the base: loads, imports, streams, refreshes, the servers they start and leave, the snapshots they take |
| `HostInit` | init on a Linux host, run again after failures and upgrades, up to the first import |
| `MC...` | the instances TLC checks |
| `..._type_proofs`, `..._proofs` | theorems about the module they are named after |

Which composes which: `IdleReaper` extends `ProxySessions`, which extends
`AuthLimiter` (limiter, proxy, manager and background passes in one system);
`HostInit` extends `BaseData` (a host is prepared, then its base filled and
renewed); `BranchRefinement` extends `BranchLifecycle` and instantiates
`BranchContract`.

The three groups around a branch overlap in what they mean and share no
variable. `BranchLifecycle` has the calls command by command on one backend;
`VolumeStore` has the same calls with every step that touches no volume merged,
and all backends; `ProxySessions` has them as single steps under the branch
lock, which is what a session can tell apart, and with it `Wake` and lazy create
in two steps, since the row is visible before the engine is ready.
`BranchLifecycle` knows of a promoted baseline only whether it is registered
(`reg`), and retires it in one step (`RetireBaseline`); `BaselineLifecycle` has
the same delete step by step and knows of a branch only its row, its origin and
its clone. `BaselineLifecycle` takes what a snapshot contains as given;
`BaseData` is about what it contains, and knows of the table only which snapshot
is current.

Left to do, in this order:

1. Admission step by step (`admitMu`, ListBranches, allocPort, admitMemory,
   insert) from create, wake and recreate; today it is one critical section.
2. Process-mode engines: pid files, a start against a live or stale pid.
3. FSx snapshots of the base, and doctor as a reader of a moving system.

## 3. How the models correspond to the code

**BranchLifecycle.** `row[b]` is the row of state.db reduced to state,
failed_operation and failed stage; `vol[b]` and `stash[b]` are the datasets
`<name>` and `<name>-recreating` with what matters of them (was the datadir
closed cleanly, is there an `@init`, is there a promoted snapshot, each "clean"
or "dirty"); `eng[b]` is the systemd unit. `task[b]` is the call that holds
`Manager.lock(name)`: its `pc` is the next external command. One action is one
external command with the row updates that follow it up to the next command;
where the command can fail the action has a failing disjunct that records what
the code records (`failOp`, or nothing). Retry reads the row without the lock,
so it is two actions (`RetryReads`, `RetryCreate`) with anything in between.
`Crash` drops every `task` and leaves everything durable; `Reconcile...` is one
action per row, before anything is served. Where the code drops the error of
`Kill` or `Stop` (`manager.go:461`, `:547`, `:668`) the engine may survive it
(`KillSurvived`, and likewise in `Destroy`): a rollback then puts files back under a
running engine, and the rename and the destroy of a dataset in use fail.

**BranchContract.** `phase` is the state as far as a client acts upon it
("replacing": a reset or recreate of a usable branch; "settling": the branch is
being made, or made again after an error), `data` says whether a volume with its
`@init` exists under the name, set aside, or not at all, `pinned` whether a
registered baseline depends on it. `PhaseOf` and `DataOf` read these from row,
datasets and call. A call that was cut off does not say any more whether it set
out from a usable branch, so a stop turns "replacing" into "settling"
(`Interrupt`): the contract promises the old data only while sashikid lives.

**OpsRunner.** `handler[c]` is where the HTTP handler of operation c is in
`StartExclusive`, `Start` or `RunSync`; `worker[c]` is its goroutine;
`exclusive`, `inflight` are the map and the wait group; `op[c]` its row. `mode`
follows main from the recovery of rows through serving, `Shutdown` (which can
give up after 5 s: `late`) and `Drain` to the exit. An id is used again when its
row has been pruned and its threads are gone, so behaviours are unbounded.

**BaselineLifecycle.** `snaps` is the storage, `row` and `current` the baselines
table, `validator` the volume `_validate` with its engine, `sentinel` the masked
sentinel file. The sweep before a validation, like the cleanup after it, drops
the errors of its kill and of its deletion one by one: an engine can stay
without its volume (`NoSnap`) and answer for the next candidate. A task is one
call of the API; `pc` names what it does next. `locks` are `baselineMu`,
`validateMu` and `refreshRunning`. A mutex that is taken and released around one
statement is a guard (`baselineMu = "free"`); one that is held across commands
is a variable that is set. `truth` and `born` are history: what really happened
to a snapshot, which the rows are compared with. `stray` excuses an engine that
a stop or a failed kill left. When promoting, the word of the operator
(`--masked`) is taken as the truth; when building, the sentinel is.

**AuthLimiter, ProxySessions.** `fails[k]` is an entry of the limiter with its
count (capped where the delay no longer grows) and age, `inflight[k]` the
verifications of a source; time is counted in base delays. `sess[c]` is one
client's connection; its `pc` names the next call of `authTerminate`, and `wait`
what is left of the delay. Both proxies are one module: where they differ there
are two actions (`ConnectMySQL`, `ConnectPostgres`, `VerifyMySQL`,
`VerifyPostgres`, `AnswerMySQL`, and `ForwardKey` with `ForwardStartup`: the key
is registered when it comes by, and bytes are copied after ReadyForQuery and
after an ErrorResponse alike, with a key or without). A row is state, port, idle
time and what is left of the lease. The end of a row is the end of its engine
(`DeleteBody`), which is more than the code does: a volume that is not found
drops the row alone (`manager.go:655`), and a Stop that fails is ignored
(`:668`). A survivor keeps its port bound, so that no engine of another branch
becomes ready on it, and no row that says running leads there. `conns` and
`cancels` are the fields of the servers, `lastTouch` the manager's throttle of
`last_conn_at`. Where admission refuses a lazy create or a wake the session ends
with nothing changed. `Cut` is what the end of an engine does to its
connections: the session stays until its client goes, because `pipe` waits for
both directions. `gone`, `old`, `freeFails` are history: was the branch deleted
after the look-up, was the connection there when the reaper listed, how many
failures were verified without a delay.

**IdleReaper.** `reap.list` is what `ListBranches` returned, with the ages of that
moment; each `ReapLook` decides on one listed row, `ReapCount` asks the engine,
`ReapStop` and `ReapDelete` wait for the branch lock and act on whatever the
name stands for by then. `poll.ports` are the ports still to be counted, `seen` is
`Manager.pollConns`, which `EndPoll` replaces as a whole.

**VolumeStore.** `vols[v]` is a volume ever made, with its name, its life
(creating, available, failed, deleting, gone) and how much of data and `@init`
it has; ids grow with the time of creation, which is how FSx picks the newest.
Each method of `storage.Storage` is an operator with one case per backend
(`ResolveVolume`, `Clone`, `DeleteAsync`, `Rollback`, `ListBranchVolumes`, ...).
`Aws` makes or deletes a volume when it likes. The copying backends are files: a
clone or a removal can fail with part of it done. `engine` is the volume on
which the engine of the branch's name runs. Where the error of Stop or Kill is
dropped (`KillOld`, `Halt`) it may survive (`Outlives`, remembered in `left`);
what that means depends on the backend: zfs refuses to unmount, rename or
destroy a dataset in use (`Busy`) but rolls it back, the others delete and
rename under the engine. The next start finds the unit active, and systemd does
nothing, or, in process mode, finds the port in use and fails. A rollback or a
copy under an engine leaves `mixed` data. A survivor is followed until the name
gets a new engine. `gc` is the pass of `GCOrphans`: rows, then the list, then
one deletion after the other. `home` and `taken` are history: the volume on
which the branch last became running, and what gc has destroyed.

**BaseData.** A command (`cli`) is the sequence of its steps, as the function
that runs it has them (`ZfsMysqlImport`, `LocalPostgresImport`, `ImportStream`,
...); each step does its work, fails, or is stopped in it. `daemon` is a refresh,
through the engine, a server of its own (`spawn`), or a script. `server[k]` is the
server on one socket; a stopped command leaves it up. `data` says which files are
loaded, applied, recorded in `_migrations`, or torn (applied half way), whose
password the app user has, whether `auto.cnf` is there and whether the last
server closed in order. `mixed` marks a command and a refresh that worked at the
same time, `blind` a quiesce check that could not look.

**HostInit.** Each step of init is an action that is skipped if its work is
done, fails, or is stopped half way; `setup` is the init under way, `host` the
pools, datasets, AppArmor profile, sudoers, root-helper and sashiki
configuration it leaves. It begins on a bare host, with a pool on the device or
without, or on one that an earlier release has set up (`Earlier`, 0.3.0 to
0.13.1): the AppArmor profile is there (`inherited`), the link that keeps the
stock one off is not, and the root helper is there from 0.12.0 on. The step that
would make the link is skipped without a word when the text of the profile is
that of today (`init.go:261`), so both outcomes are there; `DisableStock` is
what `docs/UPGRADING.md:9` tells the operator to do. `Forms` are the commands
the backends give, `Permits` what the host's sudoers and helper let through,
`LegacyRefuses` the four forms for which the sudoers of a host without
`root_helper` have no line.

## 4. Runs

Passing:

| Run | Instance | Shows |
|---|---|---|
| `lifecycle` | one branch, two failing commands, one engine death, two stops (61,757 states) | a dataset or engine always has a row; a running or sleeping branch, or one wake may restart, can be reset; no transitional row without a call; a promoted snapshot is never destroyed with its branch; `@init` is clean; a failed clone restores the old data; old data goes only when the new is complete; transitions end; all of it implements `BranchContract` |
| `lifecycle_pair` | two branches under max_running 1, one failure (half-done ones too), one stop, symmetry (375,750 states) | the inductive invariant of the proofs; no admitted call raises the count above the limit |
| `ops` | two exclusive operations on one target, a plain and a synchronous one, one failed write or panic, any number of stops (89,677 states) | one exclusive operation per target; a refusal always has work behind it that is not reported finished; finished means over; a clean exit leaves nothing at work; reservations and operations end |
| `baseline` | the imported baseline and one more snapshot, two calls at a time, one branch, both policies on, any number of failures and stops (741,490 states) | rows are true of their snapshots; the current baseline is not collected; the policy is observed in fact; no validation engine without its holder; a refresh ends |
| `access` | five instances in one (379,454 states): three clients of one address guessing passwords; one branch with idle periods; one with a lease; one that is promoted; two names that share the ports | slots are exact, and no cancel key outlives its session; parallel guessing does not get round the delay; the password comes first; nobody is piped into another branch; idleness cuts nobody who was connected; leases end and idle engines stop |
| `volumes` | one branch on each of four backends, three volumes, two failing commands, one stop (1,187,349 states) | a usable branch has the right volume and all of it; no call takes the volume of an engine, but of one that outlived a Stop or Kill; orphans that can be listed are collected |
| `base` | seven installations (ebs-zfs or directories, both engines, as root or not), two data files one after the other, two migrations, two snapshots, two faults, three inits, hosts of earlier releases (1,359,655 states) | init never takes from sashikid what it has; no AppArmor profile of this init without the link; snapshots are of data at rest, and whole |

Violations, each of a sentence in the repository:

| Run | What the code does | Where it says otherwise |
|---|---|---|
| `sleeping_means_stopped` | promoting a sleeping branch starts its engine and leaves the row `sleeping` | `docs/SPEC.md:81` |
| `running_limit` | reset starts the engine of a sleeping branch without admission | `manager.go:121` |
| `interrupted_recreate_retry` | a recreate stopped between rename and clone is reported as recoverable by retry, which never succeeds | `reconcile.go:71`, `:78` |
| `published_is_registered` | a refresh publishes a candidate that was deleted meanwhile | `baseline.go:124`, `:143` |
| `gc_spares_branches` | gc --orphans destroys the volume of a branch created between its reading of the rows and its listing | `reconcile.go:138`, `:34` |

**Bounds.** A branch's calls exclude each other, so the races inside a branch
are those of one call with Retry, Reconcile, an engine that dies and a stop: one
branch shows them. Two failures reach a failure in a retry of a failure; two
stops reach a stop during recovery. What branches share is the count of engines,
for which two suffice. In `ops` two operations on a target and one on none cover
every pair; ids are re-used, so nothing bounds the length of a behaviour. In
`baseline` two calls cover each pair of builder, validator, publisher and
collector; the second snapshot is the candidate, the first the current one. In
`access` three clients are one more than the two slots in flight, with a
threshold of one and delays of one and two units: the third waits, the limiter
saturates and forgets; two branches and two ports let a port be released and
taken again while a session is on its way to it; periods of one and two units let
the reaper's list, the poller's numbers and the row disagree. Three volumes are
the branch's, a stale generation and a new one. In `base` a single loading thread
with two files makes the loop of the loader wait for a file before it starts the
next; two snapshots are the one in use and its replacement; a fault is an
error, a stop, a server that dies or is left behind, an edited file, or a refresh
at the same time as an import. An init is run again only before the first import:
afterwards the host does not change any more, and its variables are dropped
(`HandOver`), which keeps the two halves from multiplying. The proofs remove
these bounds where there are proofs.

**Fairness.** A call, once started, takes its next step, because it is a
goroutine and every command it waits for has a timeout or returns
(`WF(Proceed)`, `WF(Work)`, `WF(Runs)`). The script of `BuildBaseline` has no
timeout; that it ends is an assumption. A step that waits for a mutex is
strongly fair, since `sync.Mutex` hands over to a waiter that has starved for a
millisecond: the reaper at a branch lock (`SF(ReaperStep)`) is such a waiter. Time
passes, the poller's pass goes on, and who holds a branch lock gives it back
because `WaitReady` times out (`WF` of `Tick`, `PollerStep`, `Provisioned`). AWS
gets on with what it was told, and a pass of gc that has begun goes on
(`WF(Aws)`, `WF(GCStep)`); that anybody runs gc is no assumption but a premise of
`OrphansCollected`. Reconcile and main are loops of the main goroutine. No
request, connection, signal, failure, stop or restart is ever fair: nobody has to
do anything. `base` has no liveness property: an operator may leave a command
where it failed.

**Refinement.** `lifecycle` checks `ImplementsContract`: the safety part as a
step-by-step simulation, and `Settles`, which the contract states as a leads-to
and not as fairness of its own actions, because TLC does not evaluate ENABLED
under a mapping.

Deadlock is checked where the system cannot stop. It can in `access` (without
passes nothing is left to do), `volumes` and `base` (bounds used up), and in the
violation runs on baselines and gc.

## 5. Proofs

For every set of branches, operations, targets, snapshots, clients, calls, volumes,
files and pools, and for every limit, period and policy, from the named
assumptions on the constants only (`LimitsAssumption`, `BoundsAssumption`,
`BaselineAssumption`, `LimiterAssumption`, `SessionsAssumption`,
`StoreAssumption`, `BaseAssumption`, `HostAssumption`). The assumptions say of what
kind a constant is, and keep apart what the code cannot confuse: a pool always has
a name (`NoPool` is none), and a file of `source_dir`, which is a number because
migrations are sorted, is no file of a dump. TLC evaluates them on every run.

| Module | Theorems |
|---|---|
| `BranchLifecycle_type_proofs`, `BranchLifecycle_proofs` | `TypeCorrect`, `LifecycleInvariant`, `Resettability`, `NothingStranded`, `PromotedSnapshots`, `CleanInit`, `VolumesCovered` (if reading a mountpoint never fails spuriously), `OldDataSafe`, `RestoredAfterFailedClone`, `AdmissionHolds` |
| `BranchRefinement_proofs` | `ContractKept` (under the same condition) |
| `OpsRunner_proofs` | `RunnerInvariant`, `TypeCorrect`, `Exclusion`, `RefusalsJustified`, `FinishedOver`, `CleanExits` |
| `BaselineLifecycle_proofs` | `BaselineInvariant`, `TypeCorrect`, `TruthfulRows`, `ValidatorOwned`, `CurrentSafe`, `PolicyObserved` |
| `IdleReaper_proofs` | `TypeCorrect`, `SlotAccounting`, `DelayHolds`, `RightBranch`, `PasswordFirst`, `SparesConnected` |
| `VolumeStore_proofs` | `TypeCorrect`, `BranchesWakeOnTheirData`, `EnginesHaveVolumes` |
| `HostInit_proofs` | `InitSparesDaemon`, `SnapshotsTakenAtRest`, `SnapshotsTakenWhole` |

*LifecycleInv.* That a running branch has an `@init` is not inductive: it needs
what each call knows at each of its steps. `CallFits` ties path, step and row
together, `VolumeFits` says which dataset the step finds, `PromotionFits` that no
call replaces a branch that backs a baseline, `SettledFits` that Reconcile settles
each row it has visited, `CleanFits` when the datadir is clean. A step of branch b
leaves every other branch alone, so the invariant is proved branch by branch.
`RestoreFits` adds which failures have been spent when a stash is still needed;
a second failure, of the restoring rename, is what the property leaves out.
`AdmissionHolds` rests on the same locality: a step of b adds at most b to the
counted branches (`CountedFinite`), no step of a call under way counts a branch that
was not counted when the call began (`ProceedCounts`, where CallFits says which
states those are), and of the calls that begin only reset does not ask
(`CallAdmits`).

*ContractKept.* Every step falls into one of a few shapes (`GoesOn`, `StaysReady`,
`EndsInError`, `WorksOnData`, ...), each a lemma about what it does to phase and
data of its own branch; one lemma per action says which shape it has, using
LifecycleInv for what the call finds. The local step is then lifted to the
functions over all branches (`StepLifted`), and a stop is `Interrupt`.

*RunnerInv.* `ThreadsFit` relates handler, goroutine, row and wait group of one
operation; `HolderReserved` says that what is at work has the reservation. The
late tail of `StartExclusive` is why `BusyMeansHeld` speaks of some holder of the
target and not of the id in the map.

*BaselineInv.* What a call carries (its snapshot, `masked`, `ok`) stays true of
the snapshot because a snapshot is taken once and history only grows
(`CarriesTruth`); `_validate` shows the snapshot of the holder of `validateMu`
(`ValidatorFits`); what a collection has decided to take is not current as long as
it holds `baselineMu` (`CollectFits`); one build at a time makes the sentinel that
of the build (`BuildsFit`). `CurrentKept` and `PublishPolicy` are action
properties that follow from it in one step.

*The invariant of `IdleReaper_proofs`* has four parts. `SlotsExact` is inductive by
itself: one session moves at a time, and `Hops` says for each step from where to
where, so a counter changes exactly when its set does; what cuts or marks
sessions moves none of them (`Remains`). `DelayFits`: below the threshold the
failures verified at once are no more than the count; above it nobody new gets
through undelayed, and who still will (`FreeNow`) had read the penalty before and
holds a slot, so that the sum never exceeds `Threshold + MaxInFly`. `Routes`: a
row with a state has a port, no two rows the same, and what sleeps or is absent
has neither engine nor connection; hence a look-up that is still valid leads to
the branch's port, and only its engine listens there. Its lock part (`LockFits`)
is needed because an engine that becomes ready writes the row without reading it.
`PassFits`: what the reaper's list says of a branch with an old connection is
still true of its port and never "sleeping"; the count at that port is therefore
the count of its connections, and a decision for idleness excludes an old one,
which nothing before the next pass can bring back.

*The invariant of `VolumeStore_proofs`.* That a branch's name resolves to the
volume it runs on says nothing of what may come up under that name later: on fsx
a clone that was given up can become available after the next one was made, and
on the others a stash can be renamed back. `StoreInv` is about the volumes
alone: ids are used in order, what is live has a name, off fsx no name stands
for two volumes. `TaskInv` says what a call holds: what it makes and what it
puts aside are volumes of its own branch and never the same one, what it makes
is on fsx the newest live generation of the name (`Newest`), and from `dropOld`
on the engine is on it. `RowInv` carries that over to `home` once the row says
running, and `EngineInv` is the second theorem: an engine on anything but its
branch's own volume has outlived a Stop or Kill (`left`), and is not on zfs.
Such an engine is `Off` (nobody counts on it), and a row comes to say running
only behind `boot`, where the engine is on the new volume or there is none.
`SnapInv` says on which volume a survivor can be when a reset puts `@init` back
under it: on that one and no other, so that what it spoils is not somebody
else's. gc is in the way of all of it and is excused in each part alike, by its
mark in `taken`, which `TakenForGood` says is final. Most steps disturb no
volume but their own branch's (`Calm`), and what others hold stays held
(`CalmKeeps`); the steps without a call are settled volume by volume
(`AllBear`). TLC checked the invariant at the bounds of `volumes`, and with two
branches and two volumes, before it was proved.

*The invariant of `HostInit_proofs`* (IInv, checked by TLC at the bounds of `base`).
Of the host: while it is settled, its sudoers and its helper are those its
configuration asks for, and an init under way is one for the pool of that
configuration (`SettledInv`); an init that is past the helper and the sudoers has
left them for its own pool (`Progress`), which is why a later init, which passes
through states with a new helper and old sudoers, takes nothing away;
`EarlierHost` says that a host of an earlier release begins settled. The link is
made before the profile is written, in one step of init: a profile that is not
inherited therefore comes with the link or with the warning. Of the base:
a server runs only on data that were made (`DataInv`), a command and a refresh
that overlap both know (`Overlap`). An import that nobody came in the way of has at
each step loaded, or has in a thread's hands, or still to do, all it was asked
for, or remembers the error (`ImportInv`); behind its stop the server is down, the
data closed in order and the user set. `DevInv` and `LoaderInv` say the same of the
init of a mac and of a refresh, `ScriptInv` what the check after a script has
seen. `ShotsInv` says that whatever a command, a refresh or the table has in its
hands is a snapshot that was made whole. The two action properties follow in one
step (`ShotFinds`); until `HandOver` the base is untouched, and behind it the host
stays as it is.

Only model-checked: the liveness properties (`TransitionsEnd`, `TargetFreed` and
`OperationsEnd`, `RefreshEnds`, `LeaseEnds`, `IdleStops`, `OrphansCollected`,
and `Settles` of the contract), which need fairness and ENABLED: every invariant
and every action property of a passing run has its theorem. The five violations
are TLC's counterexamples, for which one instance suffices. No proof rests on
induction over data (that a set of ids has a least member is taken from the
well-founded order of the naturals), and no module declares a RECURSIVE
operator.

## 6. What is not modelled

- Errors of state.db: the code mostly ignores them (`_ = m.db.SetState`), and a
  database that cannot be written stops the service as a whole.
- Memory and storage watermarks in admission: they only refuse.
- Promote holds the branch's lock through the validation; in `BranchLifecycle`
  the lock is released after the restart. That only allows more behaviours.
- Recreate in `BaselineLifecycle`: a branch's clone may come and go, which is
  what a collection sees of it.
- Packets, SCRAM and saslprep: computations on bytes; what their failure means to
  a session is modelled. TLS, oplog and metrics are I/O.
- REST rendering and queries, the client's subcommands that print, config
  parsing and validation, secret references, tokens: data, no control.
- Argument syntax within a form the root helper accepts; hook environments.
- FSx snapshots of the base and tags; pid files of process mode; capacity and
  doctor, which only read; several processes on one state.db.

Known to be exposed, and not yet covered by a property:

- branches: `retryCreate` rebuilds an error row that a failed reset left
  (`errors.go:109`); a resolve that fails for a moment makes Delete drop the row
  of a live dataset (`manager.go:655`); a reset of a branch whose create failed
  before `@init` (`manager.go:467`); engines `admitMemory` does not count
  (`manager.go:861`); `classify` looks for "hook" before the stage
  (`errors.go:28`); a create reads the pointer before a collection that cannot
  see it yet (`manager.go:334`); on reflink and apfs `ResolveVolume` succeeds
  for what is not there, so that a create that failed at clone cannot be retried
  (`manager.go:541`) and an interrupted reset is taken for a recreate
  (`reconcile.go:79`).
- engines that outlive a Stop or Kill (`manager.go:461`, `:547`, `:668`): a
  reset leaves mixed files on which the branch then runs, and on fsx, reflink
  and apfs the volume is deleted or renamed under the engine. `EngineHasVolume`
  bounds this (the engine is not that of a branch that runs or sleeps),
  `WakesOnItsData` admits the mixed files.
- operations: the id in a refusal can be empty or that of a finished operation
  (`ops.go:71`).
- reaper: a lease renewed between list and delete does not save its branch
  (`reaper.go:74`).
- baselines: a `_validate` engine that survives the kill of the sweep while its
  volume is deleted (`refresh.go:337`) answers for the next candidate, and the
  check counts for that candidate though it saw other data; the row stays when a
  stop follows the destroyed snapshot (`workspace/baseline.go:222`);
  ValidateBaseline writes back a row that was deleted (`refresh.go:325`); a stop
  between snapshot and registration (`refresh.go:246`); a build script without a
  timeout (`refresh.go:219`).
- base: a migration applied but not recorded is applied again
  (`internal/baseline/baseline.go:272`); an import and a refresh at the same
  time; `import-stream --force` destroys the base before its source is open
  (`baseline_stream.go:170`); the quiesce check sees nothing where BasePath
  fails, and nothing of postgres (`refresh.go:422`, `:466`).
- storage: a FAILED volume on FSx is never collected, and FSx volumes are not
  mounted again after a reboot.
- host: a host of init 0.13.1 or before keeps its profile without the link, and
  an init that finds the text of the profile unchanged says nothing of it
  (`init.go:261`; `docs/UPGRADING.md:9`, #376): `InitPermitsDaemon` speaks of
  the profiles this init writes. A host without `root_helper` is refused `set
  refquota` (`zfs.go:158`), `destroy` of a promoted snapshot (`:198`), `zpool
  status -x` (`:285`) and `rm-base-auto-cnf` (`refresh.go:411`), so that a
  create with a quota, the deletion of a promoted baseline and a refresh of
  mysql fail there; a host of 0.2.0 (preview) is not modelled. `app_pass` stays
  with root when init is stopped before its chown (`init.go:423`);
  `docs/UPGRADING.md:127` says that an init before `root_helper` is set keeps
  the old sudoers, `:132` that it narrows them.

## 7. Running

    tlc -config MCBaselineLifecycle.cfg MCBaselineLifecycle
    tlapm BaselineLifecycle_proofs.tla

and likewise for the other configurations and for the seven other proof modules;
`volumes`, `baseline`, `base` and `access` take one to four minutes each,
`BranchRefinement_proofs`, `IdleReaper_proofs`, `VolumeStore_proofs` and
`HostInit_proofs` one to five.

Definitions called `Variant` in a comment (`LockUnshared`, `FailOpForgets`, ...)
are not part of any specification. Each is a plausible mistake in one action;
with it in the action's place a property of the run fails, which is how the
properties were tried out.
