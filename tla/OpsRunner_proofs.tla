-------------------------- MODULE OpsRunner_proofs --------------------------
(***************************************************************************)
(* Theorems about OpsRunner, for every set of operations and targets.      *)
(*                                                                         *)
(* RunnerInv is inductive.  Its parts are kept step by step in a lemma     *)
(* each, in the order in which they need each other: types, the two        *)
(* threads of one operation, main, and then the reservations, where        *)
(* uniqueness of the holder (ExclusiveWork) is what lets Unreserve and     *)
(* Release free a target without freeing it for somebody else's work.      *)
(***************************************************************************)
EXTENDS OpsRunner, TLAPS

\* Every step keeps the runner's fields and the rows well typed.
LEMMA TypeStep == TypeOK /\ [Next]_vars => TypeOK'
<1> SUFFICES ASSUME TypeOK, [Next]_vars PROVE TypeOK'
  OBVIOUS
<1> USE BoundsAssumption DEF TypeOK, HandlerSteps, WorkerSteps, RowStates, Modes, Kinds, AllFaults, vars, memory
<1>1. ASSUME NEW c \in Ops, Request(c) PROVE TypeOK'
  BY <1>1 DEF Request, Reserve, HandlerTo
<1>2. ASSUME NEW c \in Ops, CreateOperation(c) PROVE TypeOK'
  BY <1>2 DEF CreateOperation, HandlerAt, HandlerTo, WorkerTo, SetOp, AddInflight, Serves
<1>3. ASSUME NEW c \in Ops, CreateOperationFails(c) PROVE TypeOK'
  BY <1>3 DEF CreateOperationFails, HandlerAt, HandlerTo, Fault, Serves
<1>4. ASSUME NEW c \in Ops, Unreserve(c) PROVE TypeOK'
  BY <1>4 DEF Unreserve, HandlerAt, HandlerTo, Free, Serves
<1>5. ASSUME NEW c \in Ops, Tail(c) PROVE TypeOK'
  BY <1>5 DEF Tail, HandlerAt, HandlerTo, Serves
<1>6. ASSUME NEW c \in Ops, RunSync(c) PROVE TypeOK'
  BY <1>6 DEF RunSync, HandlerAt, HandlerTo, SetOp, Fault, Serves
<1>7. ASSUME NEW c \in Ops, WorkEnds(c) PROVE TypeOK'
  BY <1>7 DEF WorkEnds, WorkerAt, WorkerTo, Serves
<1>8. ASSUME NEW c \in Ops, Release(c) PROVE TypeOK'
  BY <1>8 DEF Release, WorkerAt, WorkerTo, Free, Serves
<1>9. ASSUME NEW c \in Ops, Finish(c) PROVE TypeOK'
  BY <1>9 DEF Finish, WorkerAt, WorkerTo, SetOp, Fault, Serves
<1>10. ASSUME NEW c \in Ops, Prune(c) PROVE TypeOK'
  BY <1>10 DEF Prune, SetOp
<1>11. CASE ShutdownDone
  BY <1>11 DEF ShutdownDone
<1>12. CASE ShutdownTimesOut
  BY <1>12 DEF ShutdownTimesOut
<1>13. CASE Drained
  BY <1>13 DEF Drained
<1>14. CASE DrainTimesOut
  BY <1>14 DEF DrainTimesOut
<1>15. CASE Restart
  BY <1>15 DEF Restart
<1>16. CASE Recover
  BY <1>16 DEF Recover, Fault
<1>17. CASE Terminate
  BY <1>17 DEF Terminate
<1>18. CASE Kill
  BY <1>18 DEF Kill, Serves
<1>19. CASE UNCHANGED vars
  BY <1>19
<1> QED
  BY <1>1, <1>2, <1>3, <1>4, <1>5, <1>6, <1>7, <1>8, <1>9, <1>10,
     <1>11, <1>12, <1>13, <1>14, <1>15, <1>16, <1>17, <1>18, <1>19
     DEF Next, Handle, Work, Main

\* The handler, the goroutine, the row and the wait group of an operation go together.
LEMMA ThreadsStep == RunnerInv /\ [Next]_vars => (\A e \in Ops : ThreadsFit(e))'
<1> SUFFICES ASSUME RunnerInv, [Next]_vars PROVE (\A e \in Ops : ThreadsFit(e))'
  OBVIOUS
<1> USE BoundsAssumption DEF RunnerInv, ThreadsFit, TypeOK, MainFits, vars, memory
<1>1. ASSUME NEW c \in Ops, Request(c) PROVE (\A e \in Ops : ThreadsFit(e))'
  BY <1>1 DEF Request, Reserve, HandlerTo
<1>2. ASSUME NEW c \in Ops, CreateOperation(c) PROVE (\A e \in Ops : ThreadsFit(e))'
  BY <1>2 DEF CreateOperation, HandlerAt, HandlerTo, WorkerTo, SetOp, AddInflight, Serves
<1>3. ASSUME NEW c \in Ops, CreateOperationFails(c) PROVE (\A e \in Ops : ThreadsFit(e))'
  BY <1>3 DEF CreateOperationFails, HandlerAt, HandlerTo, Fault, Serves
<1>4. ASSUME NEW c \in Ops, Unreserve(c) PROVE (\A e \in Ops : ThreadsFit(e))'
  BY <1>4 DEF Unreserve, HandlerAt, HandlerTo, Free, Serves
<1>5. ASSUME NEW c \in Ops, Tail(c) PROVE (\A e \in Ops : ThreadsFit(e))'
  BY <1>5 DEF Tail, HandlerAt, HandlerTo, Serves
<1>6. ASSUME NEW c \in Ops, RunSync(c) PROVE (\A e \in Ops : ThreadsFit(e))'
  BY <1>6 DEF RunSync, HandlerAt, HandlerTo, SetOp, Fault, Serves
<1>7. ASSUME NEW c \in Ops, WorkEnds(c) PROVE (\A e \in Ops : ThreadsFit(e))'
  BY <1>7 DEF WorkEnds, WorkerAt, WorkerTo, Serves
<1>8. ASSUME NEW c \in Ops, Release(c) PROVE (\A e \in Ops : ThreadsFit(e))'
  BY <1>8 DEF Release, WorkerAt, WorkerTo, Free, Serves
<1>9. ASSUME NEW c \in Ops, Finish(c) PROVE (\A e \in Ops : ThreadsFit(e))'
  BY <1>9 DEF Finish, WorkerAt, WorkerTo, SetOp, Fault, Serves
<1>10. ASSUME NEW c \in Ops, Prune(c) PROVE (\A e \in Ops : ThreadsFit(e))'
  BY <1>10 DEF Prune, SetOp
<1>11. CASE ShutdownDone
  BY <1>11 DEF ShutdownDone
<1>12. CASE ShutdownTimesOut
  BY <1>12 DEF ShutdownTimesOut
<1>13. CASE Drained
  BY <1>13 DEF Drained
<1>14. CASE DrainTimesOut
  BY <1>14 DEF DrainTimesOut
<1>15. CASE Restart
  BY <1>15 DEF Restart
<1>16. CASE Recover
  BY <1>16 DEF Recover, Fault
<1>17. CASE Terminate
  BY <1>17 DEF Terminate
<1>18. CASE Kill
  BY <1>18 DEF Kill, Serves
<1>19. CASE UNCHANGED vars
  BY <1>19
<1> QED
  BY <1>1, <1>2, <1>3, <1>4, <1>5, <1>6, <1>7, <1>8, <1>9, <1>10,
     <1>11, <1>12, <1>13, <1>14, <1>15, <1>16, <1>17, <1>18, <1>19
     DEF Next, Handle, Work, Main

\* A row says running only while there is work, after a failed write, or between two processes.
LEMMA RowStep == RunnerInv /\ [Next]_vars => (\A e \in Ops : RowFits(e))'
<1> SUFFICES ASSUME RunnerInv, [Next]_vars PROVE (\A e \in Ops : RowFits(e))'
  OBVIOUS
<1> USE BoundsAssumption DEF RunnerInv, ThreadsFit, RowFits, TypeOK, MainFits, vars, memory
<1>1. ASSUME NEW c \in Ops, Request(c) PROVE (\A e \in Ops : RowFits(e))'
  BY <1>1 DEF Request, Reserve, HandlerTo
<1>2. ASSUME NEW c \in Ops, CreateOperation(c) PROVE (\A e \in Ops : RowFits(e))'
  BY <1>2 DEF CreateOperation, HandlerAt, HandlerTo, WorkerTo, SetOp, AddInflight, Serves
<1>3. ASSUME NEW c \in Ops, CreateOperationFails(c) PROVE (\A e \in Ops : RowFits(e))'
  BY <1>3 DEF CreateOperationFails, HandlerAt, HandlerTo, Fault, Serves
<1>4. ASSUME NEW c \in Ops, Unreserve(c) PROVE (\A e \in Ops : RowFits(e))'
  BY <1>4 DEF Unreserve, HandlerAt, HandlerTo, Free, Serves
<1>5. ASSUME NEW c \in Ops, Tail(c) PROVE (\A e \in Ops : RowFits(e))'
  BY <1>5 DEF Tail, HandlerAt, HandlerTo, Serves
<1>6. ASSUME NEW c \in Ops, RunSync(c) PROVE (\A e \in Ops : RowFits(e))'
  BY <1>6 DEF RunSync, HandlerAt, HandlerTo, SetOp, Fault, Serves
<1>7. ASSUME NEW c \in Ops, WorkEnds(c) PROVE (\A e \in Ops : RowFits(e))'
  BY <1>7 DEF WorkEnds, WorkerAt, WorkerTo, Serves
<1>8. ASSUME NEW c \in Ops, Release(c) PROVE (\A e \in Ops : RowFits(e))'
  BY <1>8 DEF Release, WorkerAt, WorkerTo, Free, Serves
<1>9. ASSUME NEW c \in Ops, Finish(c) PROVE (\A e \in Ops : RowFits(e))'
  BY <1>9 DEF Finish, WorkerAt, WorkerTo, SetOp, Fault, Serves
<1>10. ASSUME NEW c \in Ops, Prune(c) PROVE (\A e \in Ops : RowFits(e))'
  BY <1>10 DEF Prune, SetOp
<1>11. CASE ShutdownDone
  BY <1>11 DEF ShutdownDone
<1>12. CASE ShutdownTimesOut
  BY <1>12 DEF ShutdownTimesOut
<1>13. CASE Drained
  BY <1>13 DEF Drained
<1>14. CASE DrainTimesOut
  BY <1>14 DEF DrainTimesOut
<1>15. CASE Restart
  BY <1>15 DEF Restart
<1>16. CASE Recover
  BY <1>16 DEF Recover, Fault
<1>17. CASE Terminate
  BY <1>17 DEF Terminate
<1>18. CASE Kill
  BY <1>18 DEF Kill, Serves
<1>19. CASE UNCHANGED vars
  BY <1>19
<1> QED
  BY <1>1, <1>2, <1>3, <1>4, <1>5, <1>6, <1>7, <1>8, <1>9, <1>10,
     <1>11, <1>12, <1>13, <1>14, <1>15, <1>16, <1>17, <1>18, <1>19
     DEF Next, Handle, Work, Main

\* What is over at each step of main stays over.
LEMMA MainStep == RunnerInv /\ [Next]_vars => MainFits'
<1> SUFFICES ASSUME RunnerInv, [Next]_vars PROVE MainFits'
  OBVIOUS
<1> USE BoundsAssumption DEF RunnerInv, ThreadsFit, TypeOK, MainFits, vars, memory
<1>1. ASSUME NEW c \in Ops, Request(c) PROVE MainFits'
  BY <1>1 DEF Request, Reserve, HandlerTo
<1>2. ASSUME NEW c \in Ops, CreateOperation(c) PROVE MainFits'
  BY <1>2 DEF CreateOperation, HandlerAt, HandlerTo, WorkerTo, SetOp, AddInflight, Serves
<1>3. ASSUME NEW c \in Ops, CreateOperationFails(c) PROVE MainFits'
  BY <1>3 DEF CreateOperationFails, HandlerAt, HandlerTo, Fault, Serves
<1>4. ASSUME NEW c \in Ops, Unreserve(c) PROVE MainFits'
  BY <1>4 DEF Unreserve, HandlerAt, HandlerTo, Free, Serves
<1>5. ASSUME NEW c \in Ops, Tail(c) PROVE MainFits'
  BY <1>5 DEF Tail, HandlerAt, HandlerTo, Serves
<1>6. ASSUME NEW c \in Ops, RunSync(c) PROVE MainFits'
  BY <1>6 DEF RunSync, HandlerAt, HandlerTo, SetOp, Fault, Serves
<1>7. ASSUME NEW c \in Ops, WorkEnds(c) PROVE MainFits'
  BY <1>7 DEF WorkEnds, WorkerAt, WorkerTo, Serves
<1>8. ASSUME NEW c \in Ops, Release(c) PROVE MainFits'
  BY <1>8 DEF Release, WorkerAt, WorkerTo, Free, Serves
<1>9. ASSUME NEW c \in Ops, Finish(c) PROVE MainFits'
  BY <1>9 DEF Finish, WorkerAt, WorkerTo, SetOp, Fault, Serves
<1>10. ASSUME NEW c \in Ops, Prune(c) PROVE MainFits'
  BY <1>10 DEF Prune, SetOp
<1>11. CASE ShutdownDone
  BY <1>11 DEF ShutdownDone
<1>12. CASE ShutdownTimesOut
  BY <1>12 DEF ShutdownTimesOut
<1>13. CASE Drained
  BY <1>13 DEF Drained
<1>14. CASE DrainTimesOut
  BY <1>14 DEF DrainTimesOut
<1>15. CASE Restart
  BY <1>15 DEF Restart
<1>16. CASE Recover
  BY <1>16 DEF Recover, Fault
<1>17. CASE Terminate
  BY <1>17 DEF Terminate
<1>18. CASE Kill
  BY <1>18 DEF Kill, Serves
<1>19. CASE UNCHANGED vars
  BY <1>19
<1> QED
  BY <1>1, <1>2, <1>3, <1>4, <1>5, <1>6, <1>7, <1>8, <1>9, <1>10,
     <1>11, <1>12, <1>13, <1>14, <1>15, <1>16, <1>17, <1>18, <1>19
     DEF Next, Handle, Work, Main

\* The target of an exclusive operation at work is never free.
LEMMA ReservedStep == RunnerInv /\ [Next]_vars => HolderReserved'
<1> SUFFICES ASSUME RunnerInv, [Next]_vars PROVE HolderReserved'
  OBVIOUS
<1> USE BoundsAssumption DEF RunnerInv, ThreadsFit, TypeOK, MainFits, Holds, HolderReserved, ExclusiveWork, vars, memory
<1>1. ASSUME NEW c \in Ops, Request(c) PROVE HolderReserved'
  BY <1>1 DEF Request, Reserve, HandlerTo
<1>2. ASSUME NEW c \in Ops, CreateOperation(c) PROVE HolderReserved'
  BY <1>2 DEF CreateOperation, HandlerAt, HandlerTo, WorkerTo, SetOp, AddInflight, Serves
<1>3. ASSUME NEW c \in Ops, CreateOperationFails(c) PROVE HolderReserved'
  BY <1>3 DEF CreateOperationFails, HandlerAt, HandlerTo, Fault, Serves
<1>4. ASSUME NEW c \in Ops, Unreserve(c) PROVE HolderReserved'
  BY <1>4 DEF Unreserve, HandlerAt, HandlerTo, Free, Serves
<1>5. ASSUME NEW c \in Ops, Tail(c) PROVE HolderReserved'
  BY <1>5 DEF Tail, HandlerAt, HandlerTo, Serves
<1>6. ASSUME NEW c \in Ops, RunSync(c) PROVE HolderReserved'
  BY <1>6 DEF RunSync, HandlerAt, HandlerTo, SetOp, Fault, Serves
<1>7. ASSUME NEW c \in Ops, WorkEnds(c) PROVE HolderReserved'
  BY <1>7 DEF WorkEnds, WorkerAt, WorkerTo, Serves
<1>8. ASSUME NEW c \in Ops, Release(c) PROVE HolderReserved'
  <2>1. ~Holds(c)'
    BY <1>8 DEF Release, WorkerAt, WorkerTo, Serves
  <2>2. ASSUME NEW e \in Ops, e # c, Holds(e)' PROVE exclusive'[TargetOf[e]] # "free"
    <3>1. Holds(e)
      BY <1>8, <2>2 DEF Release, WorkerAt, WorkerTo, Serves
    <3>2. exclusive[TargetOf[e]] # "free"
      BY <3>1
    <3>3. KindOf[c] = "exclusive" => Holds(c) /\ TargetOf[e] # TargetOf[c]
      BY <1>8, <2>2, <3>1 DEF Release, WorkerAt, Serves
    <3> QED
      BY <1>8, <2>2, <3>2, <3>3 DEF Release, Free
  <2> QED
    BY <2>1, <2>2
<1>9. ASSUME NEW c \in Ops, Finish(c) PROVE HolderReserved'
  BY <1>9 DEF Finish, WorkerAt, WorkerTo, SetOp, Fault, Serves
<1>10. ASSUME NEW c \in Ops, Prune(c) PROVE HolderReserved'
  BY <1>10 DEF Prune, SetOp
<1>11. CASE ShutdownDone
  BY <1>11 DEF ShutdownDone
<1>12. CASE ShutdownTimesOut
  BY <1>12 DEF ShutdownTimesOut
<1>13. CASE Drained
  BY <1>13 DEF Drained
<1>14. CASE DrainTimesOut
  BY <1>14 DEF DrainTimesOut
<1>15. CASE Restart
  BY <1>15 DEF Restart
<1>16. CASE Recover
  BY <1>16 DEF Recover, Fault
<1>17. CASE Terminate
  BY <1>17 DEF Terminate
<1>18. CASE Kill
  BY <1>18 DEF Kill, Serves
<1>19. CASE UNCHANGED vars
  BY <1>19
<1> QED
  BY <1>1, <1>2, <1>3, <1>4, <1>5, <1>6, <1>7, <1>8, <1>9, <1>10,
     <1>11, <1>12, <1>13, <1>14, <1>15, <1>16, <1>17, <1>18, <1>19
     DEF Next, Handle, Work, Main

\* A second exclusive operation on a target starts only when the first has let go.
LEMMA ExclusiveStep == RunnerInv /\ [Next]_vars => ExclusiveWork'
<1> SUFFICES ASSUME RunnerInv, [Next]_vars PROVE ExclusiveWork'
  OBVIOUS
<1> USE BoundsAssumption DEF RunnerInv, ThreadsFit, TypeOK, MainFits, Holds, HolderReserved, ExclusiveWork, vars, memory
<1>1. ASSUME NEW c \in Ops, Request(c) PROVE ExclusiveWork'
  BY <1>1 DEF Request, Reserve, HandlerTo
<1>2. ASSUME NEW c \in Ops, CreateOperation(c) PROVE ExclusiveWork'
  BY <1>2 DEF CreateOperation, HandlerAt, HandlerTo, WorkerTo, SetOp, AddInflight, Serves
<1>3. ASSUME NEW c \in Ops, CreateOperationFails(c) PROVE ExclusiveWork'
  BY <1>3 DEF CreateOperationFails, HandlerAt, HandlerTo, Fault, Serves
<1>4. ASSUME NEW c \in Ops, Unreserve(c) PROVE ExclusiveWork'
  BY <1>4 DEF Unreserve, HandlerAt, HandlerTo, Free, Serves
<1>5. ASSUME NEW c \in Ops, Tail(c) PROVE ExclusiveWork'
  BY <1>5 DEF Tail, HandlerAt, HandlerTo, Serves
<1>6. ASSUME NEW c \in Ops, RunSync(c) PROVE ExclusiveWork'
  BY <1>6 DEF RunSync, HandlerAt, HandlerTo, SetOp, Fault, Serves
<1>7. ASSUME NEW c \in Ops, WorkEnds(c) PROVE ExclusiveWork'
  BY <1>7 DEF WorkEnds, WorkerAt, WorkerTo, Serves
<1>8. ASSUME NEW c \in Ops, Release(c) PROVE ExclusiveWork'
  BY <1>8 DEF Release, WorkerAt, WorkerTo, Free, Serves
<1>9. ASSUME NEW c \in Ops, Finish(c) PROVE ExclusiveWork'
  BY <1>9 DEF Finish, WorkerAt, WorkerTo, SetOp, Fault, Serves
<1>10. ASSUME NEW c \in Ops, Prune(c) PROVE ExclusiveWork'
  BY <1>10 DEF Prune, SetOp
<1>11. CASE ShutdownDone
  BY <1>11 DEF ShutdownDone
<1>12. CASE ShutdownTimesOut
  BY <1>12 DEF ShutdownTimesOut
<1>13. CASE Drained
  BY <1>13 DEF Drained
<1>14. CASE DrainTimesOut
  BY <1>14 DEF DrainTimesOut
<1>15. CASE Restart
  BY <1>15 DEF Restart
<1>16. CASE Recover
  BY <1>16 DEF Recover, Fault
<1>17. CASE Terminate
  BY <1>17 DEF Terminate
<1>18. CASE Kill
  BY <1>18 DEF Kill, Serves
<1>19. CASE UNCHANGED vars
  BY <1>19
<1> QED
  BY <1>1, <1>2, <1>3, <1>4, <1>5, <1>6, <1>7, <1>8, <1>9, <1>10,
     <1>11, <1>12, <1>13, <1>14, <1>15, <1>16, <1>17, <1>18, <1>19
     DEF Next, Handle, Work, Main

\* A target that is not free has an exclusive operation at work.
LEMMA BusyStep == RunnerInv /\ [Next]_vars => BusyMeansHeld'
<1> SUFFICES ASSUME RunnerInv, [Next]_vars PROVE BusyMeansHeld'
  OBVIOUS
<1> USE BoundsAssumption DEF RunnerInv, ThreadsFit, TypeOK, MainFits, Holds, HolderReserved, ExclusiveWork, vars, memory, BusyMeansHeld
<1>1. ASSUME NEW c \in Ops, Request(c) PROVE BusyMeansHeld'
  BY <1>1 DEF Request, Reserve, HandlerTo
<1>2. ASSUME NEW c \in Ops, CreateOperation(c) PROVE BusyMeansHeld'
  BY <1>2 DEF CreateOperation, HandlerAt, HandlerTo, WorkerTo, SetOp, AddInflight, Serves
<1>3. ASSUME NEW c \in Ops, CreateOperationFails(c) PROVE BusyMeansHeld'
  BY <1>3 DEF CreateOperationFails, HandlerAt, HandlerTo, Fault, Serves
<1>4. ASSUME NEW c \in Ops, Unreserve(c) PROVE BusyMeansHeld'
  BY <1>4 DEF Unreserve, HandlerAt, HandlerTo, Free, Serves
<1>5. ASSUME NEW c \in Ops, Tail(c) PROVE BusyMeansHeld'
  BY <1>5 DEF Tail, HandlerAt, HandlerTo, Serves
<1>6. ASSUME NEW c \in Ops, RunSync(c) PROVE BusyMeansHeld'
  BY <1>6 DEF RunSync, HandlerAt, HandlerTo, SetOp, Fault, Serves
<1>7. ASSUME NEW c \in Ops, WorkEnds(c) PROVE BusyMeansHeld'
  BY <1>7 DEF WorkEnds, WorkerAt, WorkerTo, Serves
<1>8. ASSUME NEW c \in Ops, Release(c) PROVE BusyMeansHeld'
  BY <1>8 DEF Release, WorkerAt, WorkerTo, Free, Serves
<1>9. ASSUME NEW c \in Ops, Finish(c) PROVE BusyMeansHeld'
  BY <1>9 DEF Finish, WorkerAt, WorkerTo, SetOp, Fault, Serves
<1>10. ASSUME NEW c \in Ops, Prune(c) PROVE BusyMeansHeld'
  BY <1>10 DEF Prune, SetOp
<1>11. CASE ShutdownDone
  BY <1>11 DEF ShutdownDone
<1>12. CASE ShutdownTimesOut
  BY <1>12 DEF ShutdownTimesOut
<1>13. CASE Drained
  BY <1>13 DEF Drained
<1>14. CASE DrainTimesOut
  BY <1>14 DEF DrainTimesOut
<1>15. CASE Restart
  BY <1>15 DEF Restart
<1>16. CASE Recover
  BY <1>16 DEF Recover, Fault
<1>17. CASE Terminate
  BY <1>17 DEF Terminate
<1>18. CASE Kill
  BY <1>18 DEF Kill, Serves
<1>19. CASE UNCHANGED vars
  BY <1>19
<1> QED
  BY <1>1, <1>2, <1>3, <1>4, <1>5, <1>6, <1>7, <1>8, <1>9, <1>10,
     <1>11, <1>12, <1>13, <1>14, <1>15, <1>16, <1>17, <1>18, <1>19
     DEF Next, Handle, Work, Main

\* The invariant holds at the start.
LEMMA InvInit == Init => RunnerInv
<1> SUFFICES ASSUME Init PROVE RunnerInv
  OBVIOUS
<1> USE BoundsAssumption DEF Init
<1>1. TypeOK
  <2>1. faults \in 0..MaxFaults
    OBVIOUS
  <2>2. exclusive \in [Targets -> Ops \cup {"free", "reserved"}]
    OBVIOUS
  <2> QED
    BY <2>1, <2>2 DEF TypeOK, HandlerSteps, WorkerSteps, RowStates, Modes
<1>2. \A c \in Ops : ThreadsFit(c) /\ RowFits(c) /\ ~Holds(c)
  BY DEF ThreadsFit, RowFits, Holds
<1>3. MainFits
  BY DEF MainFits
<1>4. BusyMeansHeld
  BY DEF BusyMeansHeld
<1> QED
  BY <1>1, <1>2, <1>3, <1>4 DEF RunnerInv, HolderReserved, ExclusiveWork

\* Every step keeps the invariant: the lemmas above together.
LEMMA InvStep == RunnerInv /\ [Next]_vars => RunnerInv'
<1> SUFFICES ASSUME RunnerInv, [Next]_vars PROVE RunnerInv'
  OBVIOUS
<1>1. TypeOK'
  BY TypeStep DEF RunnerInv
<1>2. (\A c \in Ops : ThreadsFit(c))' /\ (\A c \in Ops : RowFits(c))'
  BY ThreadsStep, RowStep
<1>3. MainFits' /\ HolderReserved' /\ ExclusiveWork' /\ BusyMeansHeld'
  BY MainStep, ReservedStep, ExclusiveStep, BusyStep
<1> QED
  BY <1>1, <1>2, <1>3 DEF RunnerInv

\* The inductive invariant of the runner holds in every reachable state, for
\* any operations, targets and failures.
THEOREM RunnerInvariant == Spec => []RunnerInv
  BY InvInit, InvStep, PTL DEF Spec

\* The fields of Runner and the operations table are well typed.
THEOREM TypeCorrect == Spec => []TypeOK
<1>1. RunnerInv => TypeOK
  BY DEF RunnerInv
<1> QED
  BY <1>1, RunnerInvariant, PTL

\* StartExclusive: one exclusive operation at a time is at work on a target.
THEOREM Exclusion == Spec => []ExclusiveWork
<1>1. RunnerInv => ExclusiveWork
  BY DEF RunnerInv
<1> QED
  BY <1>1, RunnerInvariant, PTL

\* A target is refused only because of work that has not been reported finished.
THEOREM RefusalsJustified == Spec => []BusyMeansHeld
<1>1. RunnerInv => BusyMeansHeld
  BY DEF RunnerInv
<1> QED
  BY <1>1, RunnerInvariant, PTL

\* A finished row is about work that is over.
THEOREM FinishedOver == Spec => []FinishedIsOver
<1>1. RunnerInv => FinishedIsOver
  BY DEF RunnerInv, FinishedIsOver, ThreadsFit
<1> QED
  BY <1>1, RunnerInvariant, PTL

\* Shutdown in time and Drain returning true leave nothing at work.
THEOREM CleanExits == Spec => []CleanExit
<1>1. RunnerInv => CleanExit
  BY DEF RunnerInv, CleanExit, MainFits, ThreadsFit, RowFits
<1> QED
  BY <1>1, RunnerInvariant, PTL

=============================================================================
