----------------------------- MODULE OpsRunner -----------------------------
(***************************************************************************)
(* ops.Runner: every mutating API call becomes an operation with a row in  *)
(* state.db.  An asynchronous one runs on a goroutine of its own while its *)
(* handler answers 202; an exclusive one first reserves its target.  The   *)
(* module also covers what surrounds the runner in main: the shutdown of   *)
(* the HTTP server, Drain, and RecoverInterruptedOperations at the start.  *)
(*                                                                         *)
(* Two threads work on an operation: handler[c] is the request that called *)
(* Start, StartExclusive or RunSync, worker[c] the goroutine.  Between two *)
(* steps of either, everyone else may run.                                 *)
(***************************************************************************)
EXTENDS Naturals

CONSTANTS
    Ops,        \* operation ids; one is used again only after its row is pruned
    Targets,    \* branch names
    KindOf,     \* how each operation is started
    TargetOf,   \* the branch it is about
    FaultKinds, \* the failures of this instance
    MaxFaults   \* bound: how many of them in a behaviour

\* createRow, finishRow, recoverRows: that write of operation rows fails.
\* syncPanic: the work panics on the handler's goroutine, where net/http
\* recovers it.
AllFaults == {"createRow", "finishRow", "recoverRows", "syncPanic"}

\* StartExclusive, Start or RunSync.
Kinds == {"exclusive", "plain", "sync"}

ASSUME BoundsAssumption ==
    /\ KindOf \in [Ops -> Kinds]
    /\ TargetOf \in [Ops -> Targets]
    /\ MaxFaults \in Nat
    /\ FaultKinds \subseteq AllFaults
    /\ Ops \cap {"free", "reserved"} = {}

VARIABLES
    handler,    \* where the request of each operation is
    worker,     \* where its goroutine is
    exclusive,  \* Runner.exclusive: free, reserved without an id, or an id
    inflight,   \* Runner.wg: operations added and not done
    op,         \* the rows of the operations table
    mode,       \* what main is doing
    late,       \* did srv.Shutdown give up on a request?
    faults

memory == <<handler, worker, exclusive, inflight>>
vars == <<memory, op, mode, late, faults>>

HandlerSteps == {"none", "create", "unreserve", "tail", "run"}
WorkerSteps  == {"none", "running", "ended", "released"}
RowStates    == {"absent", "running", "finished"}
Modes        == {"starting", "serving", "closing", "draining", "drained", "dead"}

Serves == mode \in {"serving", "closing", "draining"}
HandlerAt(c, s) == Serves /\ handler[c] = s
WorkerAt(c, s)  == Serves /\ worker[c] = s
HandlerTo(c, s) == handler' = [handler EXCEPT ![c] = s]
WorkerTo(c, s)  == worker' = [worker EXCEPT ![c] = s]
SetOp(c, s)     == op' = [op EXCEPT ![c] = s]
Free(t)         == exclusive' = [exclusive EXCEPT ![t] = "free"]
Fault(k)        == k \in FaultKinds /\ faults < MaxFaults /\ faults' = faults + 1

-----------------------------------------------------------------------------
(***************************************************************************)
(* The handler                                                             *)
(***************************************************************************)

\* Variant: the target is looked at first and reserved with its id later.
ReserveLate(t) == exclusive[t] = "free" /\ UNCHANGED exclusive

\* The lookup and the reservation, under mu.  A busy target is refused with
\* ErrInProgress, which changes nothing.
Reserve(t) ==
    /\ exclusive[t] = "free"
    /\ exclusive' = [exclusive EXCEPT ![t] = "reserved"]

Request(c) ==
    /\ mode = "serving"
    /\ handler[c] = "none" /\ worker[c] = "none" /\ op[c] = "absent"
    /\ IF KindOf[c] = "exclusive" THEN Reserve(TargetOf[c]) ELSE UNCHANGED exclusive
    /\ HandlerTo(c, "create")
    /\ UNCHANGED <<worker, inflight, op, mode, late, faults>>

\* Variant: the goroutine adds itself to the wait group.
AddLate(c) == UNCHANGED inflight
AddInflight(c) == inflight' = inflight \cup {c}

\* CreateOperation, wg.Add and the start of the goroutine, or of the work.
CreateOperation(c) ==
    /\ HandlerAt(c, "create")
    /\ SetOp(c, "running")
    /\ IF KindOf[c] = "sync"
         THEN HandlerTo(c, "run") /\ UNCHANGED <<worker, inflight>>
         ELSE HandlerTo(c, "tail") /\ WorkerTo(c, "running") /\ AddInflight(c)
    /\ UNCHANGED <<exclusive, mode, late, faults>>

CreateOperationFails(c) ==
    /\ HandlerAt(c, "create")
    /\ Fault("createRow")
    /\ HandlerTo(c, IF KindOf[c] = "exclusive" THEN "unreserve" ELSE "none")
    /\ UNCHANGED <<worker, exclusive, inflight, op, mode, late>>

Unreserve(c) ==
    /\ HandlerAt(c, "unreserve")
    /\ Free(TargetOf[c])
    /\ HandlerTo(c, "none")
    /\ UNCHANGED <<worker, inflight, op, mode, late, faults>>

\* Variant: the id is recorded whether or not the target is still reserved.
TailRecordsAlways(c) ==
    /\ HandlerAt(c, "tail")
    /\ exclusive' = IF KindOf[c] = "exclusive"
                    THEN [exclusive EXCEPT ![TargetOf[c]] = c]
                    ELSE exclusive
    /\ HandlerTo(c, "none")
    /\ UNCHANGED <<worker, inflight, op, mode, late, faults>>

\* The end of StartExclusive: record the id if the target is still reserved,
\* by this operation or by the next one.
Tail(c) ==
    /\ HandlerAt(c, "tail")
    /\ exclusive' = IF KindOf[c] = "exclusive" /\ exclusive[TargetOf[c]] # "free"
                    THEN [exclusive EXCEPT ![TargetOf[c]] = c]
                    ELSE exclusive
    /\ HandlerTo(c, "none")
    /\ UNCHANGED <<worker, inflight, op, mode, late, faults>>

\* RunSync: the work and FinishOperation on the handler's goroutine.
RunSync(c) ==
    /\ HandlerAt(c, "run")
    /\ HandlerTo(c, "none")
    /\ \/ SetOp(c, "finished") /\ UNCHANGED faults
       \/ (Fault("finishRow") \/ Fault("syncPanic")) /\ UNCHANGED op
    /\ UNCHANGED <<worker, exclusive, inflight, mode, late>>

-----------------------------------------------------------------------------
(***************************************************************************)
(* The goroutine                                                           *)
(***************************************************************************)

\* The work returns; an error and a recovered panic end it like a success.
WorkEnds(c) ==
    /\ WorkerAt(c, "running")
    /\ WorkerTo(c, "ended")
    /\ UNCHANGED <<handler, exclusive, inflight, op, mode, late, faults>>

\* Variant: onDone is not called.
ReleaseForgets(c) ==
    /\ WorkerAt(c, "ended")
    /\ WorkerTo(c, "released")
    /\ UNCHANGED <<handler, exclusive, inflight, op, mode, late, faults>>

\* onDone, before the row says completed.
Release(c) ==
    /\ WorkerAt(c, "ended")
    /\ WorkerTo(c, "released")
    /\ IF KindOf[c] = "exclusive" THEN Free(TargetOf[c]) ELSE UNCHANGED exclusive
    /\ UNCHANGED <<handler, inflight, op, mode, late, faults>>

\* Variant: the row takes over the step of the goroutine.
FinishRecordsStep(c) ==
    /\ WorkerAt(c, "released")
    /\ WorkerTo(c, "none")
    /\ inflight' = inflight \ {c}
    /\ SetOp(c, worker[c])
    /\ UNCHANGED <<handler, exclusive, mode, late, faults>>

\* FinishOperation, its error ignored, and wg.Done.
Finish(c) ==
    /\ WorkerAt(c, "released")
    /\ WorkerTo(c, "none")
    /\ inflight' = inflight \ {c}
    /\ \/ SetOp(c, "finished") /\ UNCHANGED faults
       \/ Fault("finishRow") /\ UNCHANGED op
    /\ UNCHANGED <<handler, exclusive, mode, late>>

\* PruneOperations: the reaper drops rows that finished long ago.
Prune(c) ==
    /\ mode = "serving"
    /\ op[c] = "finished"
    /\ SetOp(c, "absent")
    /\ UNCHANGED <<memory, mode, late, faults>>

-----------------------------------------------------------------------------
(***************************************************************************)
(* main                                                                    *)
(***************************************************************************)

\* SIGTERM: srv.Shutdown takes no request any more and waits for the others.
Terminate ==
    /\ mode = "serving"
    /\ mode' = "closing"
    /\ UNCHANGED <<memory, op, late, faults>>

ShutdownDone ==
    /\ mode = "closing"
    /\ \A c \in Ops : handler[c] = "none"
    /\ mode' = "draining"
    /\ UNCHANGED <<memory, op, late, faults>>

ShutdownTimesOut ==
    /\ mode = "closing"
    /\ \E c \in Ops : handler[c] # "none"
    /\ mode' = "draining"
    /\ late' = TRUE
    /\ UNCHANGED <<memory, op, faults>>

\* Drain returned true, and main returns.
Drained ==
    /\ mode = "draining"
    /\ inflight = {}
    /\ mode' = "drained"
    /\ UNCHANGED <<memory, op, late, faults>>

DrainTimesOut ==
    /\ mode = "draining"
    /\ inflight # {}
    /\ mode' = "dead"
    /\ UNCHANGED <<memory, op, late, faults>>

Kill ==
    /\ Serves
    /\ mode' = "dead"
    /\ UNCHANGED <<memory, op, late, faults>>

\* sashikid is started again: nothing of the old process is left.
Restart ==
    /\ mode \in {"drained", "dead"}
    /\ mode' = "starting"
    /\ late' = FALSE
    /\ handler' = [c \in Ops |-> "none"]
    /\ worker' = [c \in Ops |-> "none"]
    /\ exclusive' = [t \in Targets |-> "free"]
    /\ inflight' = {}
    /\ UNCHANGED <<op, faults>>

\* Variant: only main's own start is logged.
RecoverNothing ==
    /\ mode = "starting"
    /\ mode' = "serving"
    /\ UNCHANGED <<memory, op, late, faults>>

\* Variant: rows are recovered while requests are being served.
RecoverWhileServing ==
    /\ mode \in {"starting", "serving"}
    /\ mode' = "serving"
    /\ op' = [c \in Ops |-> IF op[c] = "running" THEN "finished" ELSE op[c]]
    /\ UNCHANGED <<memory, late, faults>>

\* RecoverInterruptedOperations, before the first request; its error is logged.
Recover ==
    /\ mode = "starting"
    /\ mode' = "serving"
    /\ \/ /\ op' = [c \in Ops |-> IF op[c] = "running" THEN "finished" ELSE op[c]]
          /\ UNCHANGED faults
       \/ Fault("recoverRows") /\ UNCHANGED op
    /\ UNCHANGED <<memory, late>>

-----------------------------------------------------------------------------
Init ==
    /\ handler = [c \in Ops |-> "none"]
    /\ worker = [c \in Ops |-> "none"]
    /\ exclusive = [t \in Targets |-> "free"]
    /\ inflight = {}
    /\ op = [c \in Ops |-> "absent"]
    /\ mode = "starting"
    /\ late = FALSE
    /\ faults = 0

Handle(c) == \/ CreateOperation(c) \/ CreateOperationFails(c) \/ Unreserve(c)
             \/ Tail(c) \/ RunSync(c)
Work(c)   == WorkEnds(c) \/ Release(c) \/ Finish(c)
Main      == \/ ShutdownDone \/ ShutdownTimesOut \/ Drained \/ DrainTimesOut
             \/ Recover

Next ==
    \/ \E c \in Ops : Request(c) \/ Handle(c) \/ Work(c) \/ Prune(c)
    \/ Main
    \/ Terminate \/ Kill \/ Restart

Spec == Init /\ [][Next]_vars

\* Handlers and goroutines are scheduled, main's waits have timeouts, and the
\* work ends: the operations on branches bound every external command by a
\* timeout.  (The script of a baseline build is started without one, so of the
\* builds this is an assumption.)  Nobody has to send a request or a signal, or
\* to start sashikid again.
FairSpec ==
    /\ Spec
    /\ \A c \in Ops : WF_vars(Handle(c)) /\ WF_vars(Work(c))
    /\ WF_vars(Main)

-----------------------------------------------------------------------------
(***************************************************************************)
(* Properties                                                              *)
(***************************************************************************)

\* Type correctness of the runner's fields and of the operations table.
TypeOK ==
    /\ handler \in [Ops -> HandlerSteps]
    /\ worker \in [Ops -> WorkerSteps]
    /\ exclusive \in [Targets -> Ops \cup {"free", "reserved"}]
    /\ inflight \in SUBSET Ops
    /\ op \in [Ops -> RowStates]
    /\ mode \in Modes
    /\ late \in BOOLEAN
    /\ faults \in 0..MaxFaults

\* The reservation of c lasts from Reserve to Unreserve or Release.
Holds(c) ==
    /\ KindOf[c] = "exclusive"
    /\ handler[c] \in {"create", "unreserve"} \/ worker[c] \in {"running", "ended"}

\* StartExclusive: whatever other handlers and goroutines do between the lookup
\* and the start, at most one exclusive operation is at work on a target.
ExclusiveWork ==
    \A c, d \in Ops : Holds(c) /\ Holds(d) /\ TargetOf[c] = TargetOf[d] => c = d

\* A target is refused with 409 only while an operation that has not been
\* reported as finished is at work on it: a client that saw its operation
\* finished can send the next one, although a handler may still be in the tail
\* of StartExclusive and write its own, finished, id there.
BusyMeansHeld ==
    \A t \in Targets :
        exclusive[t] # "free" =>
            \E c \in Ops : Holds(c) /\ TargetOf[c] = t /\ op[c] # "finished"

\* A row that says finished is about work that is over, in this process or in
\* one that is gone: Recover never ends an operation that is still at work.
FinishedIsOver ==
    \A c \in Ops :
        op[c] = "finished" => handler[c] # "run" /\ worker[c] \in {"none", "released"}

\* If the HTTP server could shut down in time and Drain returned true, main
\* returns with no operation at work, and with none recorded as running.
CleanExit ==
    mode = "drained" /\ ~late =>
        \A c \in Ops : /\ handler[c] = "none" /\ worker[c] = "none"
                       /\ op[c] = "running" => faults > 0

(***************************************************************************)
(* The inductive invariant                                                 *)
(***************************************************************************)

\* How the two threads of an operation, its row and the wait group go together.
ThreadsFit(c) ==
    /\ handler[c] \in {"create", "unreserve"} => worker[c] = "none" /\ op[c] = "absent"
    /\ handler[c] = "unreserve" => KindOf[c] = "exclusive"
    /\ handler[c] = "run" => KindOf[c] = "sync" /\ op[c] = "running"
    /\ handler[c] = "tail" => KindOf[c] # "sync"
    /\ worker[c] # "none" => KindOf[c] # "sync" /\ op[c] = "running"
    /\ worker[c] # "none" <=> c \in inflight

\* A row that says running is at work, or its last write failed, or a process
\* that is gone left it.
RowFits(c) ==
    op[c] = "running" /\ mode \notin {"starting", "dead"} =>
        worker[c] # "none" \/ handler[c] = "run" \/ faults > 0

\* What is over at each step of main.
MainFits ==
    /\ mode = "starting" => \A c \in Ops : handler[c] = "none" /\ worker[c] = "none"
    /\ mode \in {"draining", "drained"} /\ ~late => \A c \in Ops : handler[c] = "none"
    /\ mode = "drained" => inflight = {}

HolderReserved == \A c \in Ops : Holds(c) => exclusive[TargetOf[c]] # "free"

RunnerInv ==
    /\ TypeOK
    /\ \A c \in Ops : ThreadsFit(c) /\ RowFits(c)
    /\ MainFits
    /\ HolderReserved
    /\ ExclusiveWork
    /\ BusyMeansHeld

-----------------------------------------------------------------------------
Over == mode \in {"drained", "dead"}

\* Every reservation is given back while sashikid runs.
TargetFreed == \A t \in Targets : exclusive[t] # "free" ~> exclusive[t] = "free" \/ Over

\* Every operation ends for those who wait for it while sashikid runs, those of
\* the process before it included.  The row of work that panicked or could not
\* be recorded may say running until the next start, but nothing is at work for
\* it any more.
OperationsEnd ==
    \A c \in Ops :
        op[c] = "running" ~>
            \/ op[c] # "running"
            \/ Over
            \/ faults > 0 /\ handler[c] = "none" /\ worker[c] = "none"

=============================================================================
