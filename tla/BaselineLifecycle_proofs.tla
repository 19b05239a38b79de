----------------------- MODULE BaselineLifecycle_proofs -----------------------
(***************************************************************************)
(* Theorems about BaselineLifecycle, for any snapshots, calls and branches *)
(* and either publish policy.                                              *)
(*                                                                         *)
(* BaselineInv is inductive.  Each of its parts has a lemma with one step  *)
(* per action.  What a call carries (its snapshot, masked, ok) stays true  *)
(* because a snapshot is taken once; _validate shows the right snapshot    *)
(* because of validateMu; what a collection has decided to take cannot     *)
(* become current because of baselineMu.                                   *)
(***************************************************************************)
EXTENDS BaselineLifecycle, TLAPS

\* The names of steps and kinds, so that the enumerations stay closed.
LEMMA Named ==
    /\ {"idle", "build", "register", "lock", "clone", "boot", "hook", "clean",
        "mark", "publish", "destroy", "drop"} \subseteq Pcs
    /\ Builds \subseteq Kinds /\ Promotions \subseteq Kinds
    /\ "none" \in Kinds /\ "validate" \in Kinds /\ "collect" \in Kinds
  BY DEF Pcs, Kinds

\* No call under way.
LEMMA IdleTyped == Idle \in TaskRecords
  BY Named, BaselineAssumption DEF Idle, TaskRecords

\* What a call is after Go: its step has changed, and nothing else.
Moved(t, p) ==
    /\ task' \in [Tasks -> TaskRecords]
    /\ task'[t].pc = p
    /\ task'[t].kind = task[t].kind
    /\ task'[t].snap = task[t].snap
    /\ task'[t].masked = task[t].masked
    /\ task'[t].ok = task[t].ok
    /\ task'[t].left = task[t].left
    /\ \A u \in Tasks : u # t => task'[u] = task[u]

\* And after Return: nothing is left of it.
Returned(t) ==
    /\ task' \in [Tasks -> TaskRecords]
    /\ task'[t].pc = "idle"
    /\ task'[t].kind = "none"
    /\ task'[t].snap = NoSnap
    /\ ~task'[t].masked
    /\ ~task'[t].ok
    /\ task'[t].left = {}
    /\ \A u \in Tasks : u # t => task'[u] = task[u]
    /\ refreshing' = IF task[t].kind \in Builds THEN FALSE ELSE refreshing

\* Go does what Moved says.
LEMMA GoEffect ==
  ASSUME task \in [Tasks -> TaskRecords], NEW t \in Tasks, NEW p \in Pcs, Go(t, p)
  PROVE  Moved(t, p)
<1>1. [task[t] EXCEPT !.pc = p] \in TaskRecords
  BY DEF TaskRecords
<1>2. task' \in [Tasks -> TaskRecords]
  BY <1>1 DEF Go
<1>3. task'[t] = [task[t] EXCEPT !.pc = p] /\ \A u \in Tasks : u # t => task'[u] = task[u]
  BY DEF Go
<1> QED
  BY <1>2, <1>3 DEF TaskRecords, Moved

\* Return does what Returned says.
LEMMA ReturnEffect ==
  ASSUME task \in [Tasks -> TaskRecords], NEW t \in Tasks, Return(t)
  PROVE  Returned(t)
<1>1. task' \in [Tasks -> TaskRecords]
  BY IdleTyped DEF Return
<1>2. task'[t] = Idle /\ \A u \in Tasks : u # t => task'[u] = task[u]
  BY DEF Return
<1> QED
  BY <1>1, <1>2 DEF Idle, Return, Returned


\* Changing fields of a call within their types keeps it a call.
LEMMA FieldsTyped ==
  ASSUME NEW r \in TaskRecords
  PROVE  /\ \A s \in Snaps, m \in BOOLEAN :
              [r EXCEPT !.pc = "register", !.snap = s, !.masked = m] \in TaskRecords
         /\ \A o \in BOOLEAN : [r EXCEPT !.pc = "clean", !.ok = o] \in TaskRecords
         /\ \A s \in Snaps : [r EXCEPT !.pc = "drop", !.snap = s] \in TaskRecords
         /\ \A l \in SUBSET Snaps : [r EXCEPT !.left = l] \in TaskRecords
         /\ \A l \in SUBSET Snaps :
              [r EXCEPT !.pc = "destroy", !.left = l, !.snap = NoSnap] \in TaskRecords
<1>1. \A s \in Snaps, m \in BOOLEAN :
        [r EXCEPT !.pc = "register", !.snap = s, !.masked = m] \in TaskRecords
  BY Named DEF TaskRecords
<1>2. \A o \in BOOLEAN : [r EXCEPT !.pc = "clean", !.ok = o] \in TaskRecords
  BY Named DEF TaskRecords
<1>3. \A s \in Snaps : [r EXCEPT !.pc = "drop", !.snap = s] \in TaskRecords
  BY Named DEF TaskRecords
<1>4. \A l \in SUBSET Snaps : [r EXCEPT !.left = l] \in TaskRecords
  BY DEF TaskRecords
<1>5. \A l \in SUBSET Snaps :
        [r EXCEPT !.pc = "destroy", !.left = l, !.snap = NoSnap] \in TaskRecords
  BY Named DEF TaskRecords
<1> QED
  BY <1>1, <1>2, <1>3, <1>4, <1>5

\* And so for a call that starts.
LEMMA StartsTyped ==
    /\ \A k \in Builds : [Idle EXCEPT !.pc = "build", !.kind = k] \in TaskRecords
    /\ \A k \in Promotions, s \in Snaps, m \in BOOLEAN :
         [Idle EXCEPT !.pc = "register", !.kind = k, !.snap = s, !.masked = m] \in TaskRecords
    /\ \A s \in Snaps, m \in BOOLEAN :
         [Idle EXCEPT !.pc = "lock", !.kind = "validate", !.snap = s, !.masked = m] \in TaskRecords
    /\ \A l \in SUBSET Snaps :
         [Idle EXCEPT !.pc = "destroy", !.kind = "collect", !.left = l] \in TaskRecords
<1>1. \A k \in Builds : [Idle EXCEPT !.pc = "build", !.kind = k] \in TaskRecords
  BY IdleTyped, Named DEF TaskRecords
<1>2. \A k \in Promotions, s \in Snaps, m \in BOOLEAN :
        [Idle EXCEPT !.pc = "register", !.kind = k, !.snap = s, !.masked = m] \in TaskRecords
  BY IdleTyped, Named DEF TaskRecords
<1>3. \A s \in Snaps, m \in BOOLEAN :
        [Idle EXCEPT !.pc = "lock", !.kind = "validate", !.snap = s, !.masked = m] \in TaskRecords
  BY IdleTyped, Named DEF TaskRecords
<1>4. \A l \in SUBSET Snaps :
        [Idle EXCEPT !.pc = "destroy", !.kind = "collect", !.left = l] \in TaskRecords
  BY IdleTyped, Named DEF TaskRecords
<1> QED
  BY <1>1, <1>2, <1>3, <1>4

\* Every step keeps the calls well typed.
LEMMA TaskStep == TypeOK /\ [Next]_vars => task' \in [Tasks -> TaskRecords]
<1> SUFFICES ASSUME TypeOK, [Next]_vars PROVE task' \in [Tasks -> TaskRecords]
  OBVIOUS
<1>0. task \in [Tasks -> TaskRecords] /\ row \in [Snaps -> Rows] /\ sentinel \in BOOLEAN
  BY DEF TypeOK

<1>1. ASSUME NEW t \in Tasks, NEW k \in Builds, StartBuild(t, k) PROVE task' \in [Tasks -> TaskRecords]
  BY <1>0, <1>1, StartsTyped DEF StartBuild, Fresh
<1>2. ASSUME NEW t \in Tasks, NEW k \in Promotions, StartPromote(t, k) PROVE task' \in [Tasks -> TaskRecords]
  <2>1. PICK s \in Snaps, m \in BOOLEAN : task' = [task EXCEPT ![t] = [Idle EXCEPT !.pc = "register", !.kind = k,
                                                      !.snap = s, !.masked = m]]
    BY <1>2 DEF StartPromote, Fresh
  <2> QED
    BY <1>0, <2>1, StartsTyped
<1>3. ASSUME NEW t \in Tasks, NEW s \in Snaps, StartValidate(t, s) PROVE task' \in [Tasks -> TaskRecords]
  <2>1. row[s].masked \in BOOLEAN
    BY <1>0 DEF Rows
  <2> QED
    BY <1>0, <1>3, <2>1, StartsTyped DEF StartValidate
<1>4. ASSUME NEW t \in Tasks, StartCollect(t) PROVE task' \in [Tasks -> TaskRecords]
  <2>1. PICK l \in SUBSET Snaps : task' = [task EXCEPT ![t] = [Idle EXCEPT !.pc = "destroy", !.kind = "collect",
                                                      !.left = l]]
    BY <1>4 DEF StartCollect, Fresh
  <2> QED
    BY <1>0, <2>1, StartsTyped
<1>5. ASSUME NEW t \in Tasks, Register(t) PROVE task' \in [Tasks -> TaskRecords]
  BY <1>0, <1>5, Named, GoEffect, ReturnEffect DEF Register, Moved, Returned
<1>6. ASSUME NEW t \in Tasks, Lock(t) PROVE task' \in [Tasks -> TaskRecords]
  BY <1>0, <1>6, Named, GoEffect DEF Lock, Moved
<1>7. ASSUME NEW t \in Tasks, PublishRefresh(t) PROVE task' \in [Tasks -> TaskRecords]
  BY <1>0, <1>7, ReturnEffect DEF PublishRefresh, Returned
<1>8. ASSUME NEW t \in Tasks, PublishPromoted(t) PROVE task' \in [Tasks -> TaskRecords]
  BY <1>0, <1>8, ReturnEffect DEF PublishPromoted, Returned
<1>9. ASSUME NEW t \in Tasks, TakeSnapshot(t) PROVE task' \in [Tasks -> TaskRecords]
  <2>1. PICK s \in Snaps, m \in BOOLEAN :
          /\ sentinel' = (sentinel \/ m)
          /\ task' = [task EXCEPT ![t].pc = "register", ![t].snap = s, ![t].masked = sentinel']
    BY <1>9 DEF TakeSnapshot, Fresh
  <2>2. sentinel' \in BOOLEAN
    BY <1>0, <2>1
  <2> QED
    BY <1>0, <2>1, <2>2, FieldsTyped
<1>10. ASSUME NEW t \in Tasks, BuildFails(t) PROVE task' \in [Tasks -> TaskRecords]
  BY <1>0, <1>10, ReturnEffect DEF BuildFails, Returned
<1>11. ASSUME NEW t \in Tasks, CloneCandidate(t) PROVE task' \in [Tasks -> TaskRecords]
  BY <1>0, <1>11, Named, GoEffect DEF CloneCandidate, Moved
<1>12. ASSUME NEW t \in Tasks, CloneFails(t) PROVE task' \in [Tasks -> TaskRecords]
  BY <1>0, <1>12, ReturnEffect DEF CloneFails, Returned
<1>13. ASSUME NEW t \in Tasks, Boot(t) PROVE task' \in [Tasks -> TaskRecords]
  BY <1>0, <1>13, Named, GoEffect DEF Boot, Moved
<1>14. ASSUME NEW t \in Tasks, Hook(t) PROVE task' \in [Tasks -> TaskRecords]
  <2>1. PICK o \in BOOLEAN : task' = [task EXCEPT ![t].pc = "clean", ![t].ok = o]
    BY <1>14 DEF Hook, Fresh
  <2>2. task[t] \in TaskRecords /\ task[t].left \in SUBSET Snaps
    BY <1>0 DEF TaskRecords
  <2> QED
    BY <1>0, <2>1, <2>2, FieldsTyped
<1>15. ASSUME NEW t \in Tasks, Clean(t) PROVE task' \in [Tasks -> TaskRecords]
  BY <1>0, <1>15, Named, GoEffect, ReturnEffect DEF Clean, Moved, Returned, Validated
<1>16. ASSUME NEW t \in Tasks, Mark(t) PROVE task' \in [Tasks -> TaskRecords]
  BY <1>0, <1>16, Named, GoEffect, ReturnEffect DEF Mark, Moved, Returned
<1>17. ASSUME NEW t \in Tasks, DestroySnapshot(t) PROVE task' \in [Tasks -> TaskRecords]
  <2>1. PICK s \in task[t].left : task' = [task EXCEPT ![t].pc = "drop", ![t].snap = s]
    BY <1>17 DEF DestroySnapshot, Fresh
  <2>2. task[t] \in TaskRecords /\ task[t].left \in SUBSET Snaps
    BY <1>0 DEF TaskRecords
  <2> QED
    BY <1>0, <2>1, <2>2, FieldsTyped
<1>18. ASSUME NEW t \in Tasks, DestroyFails(t) PROVE task' \in [Tasks -> TaskRecords]
  <2>1. PICK s \in task[t].left : task' = [task EXCEPT ![t].left = task[t].left \ {s}]
    BY <1>18 DEF DestroyFails, Fresh
  <2>2. task[t] \in TaskRecords /\ task[t].left \in SUBSET Snaps
    BY <1>0 DEF TaskRecords
  <2> QED
    BY <1>0, <2>1, <2>2, FieldsTyped
<1>19. ASSUME NEW t \in Tasks, DropRow(t) PROVE task' \in [Tasks -> TaskRecords]
  <2>1. task[t] \in TaskRecords /\ task[t].left \in SUBSET Snaps
    BY <1>0 DEF TaskRecords
  <2> QED
    BY <1>0, <1>19, <2>1, FieldsTyped DEF DropRow
<1>20. ASSUME NEW t \in Tasks, CollectEnds(t) PROVE task' \in [Tasks -> TaskRecords]
  BY <1>0, <1>20, ReturnEffect DEF CollectEnds, Returned
<1>21. ASSUME NEW s \in Snaps, SetBaseline(s) PROVE task' \in [Tasks -> TaskRecords]
  BY <1>0, <1>21 DEF SetBaseline, Registered, SetCurrent, SetRow, Says
<1>22. ASSUME NEW b \in Branches, Branching(b) PROVE task' \in [Tasks -> TaskRecords]
  BY <1>0, <1>22 DEF Branching, ChooseOrigin, InsertBranch, CloneBranch, DeleteBranch, BranchTo
<1>23. CASE Crash
  BY <1>23, IdleTyped DEF Crash
<1>24. CASE UNCHANGED vars
  BY <1>0, <1>24 DEF vars
<1> QED
  BY <1>1, <1>2, <1>3, <1>4, <1>5, <1>6, <1>7, <1>8, <1>9, <1>10, <1>11,
     <1>12, <1>13, <1>14, <1>15, <1>16, <1>17, <1>18, <1>19, <1>20, <1>21, <1>22, <1>23, <1>24
     DEF Next, Start, Waits, Runs

\* What Sweep leaves of _validate, whatever failed.
LEMMA SweepEffect ==
  ASSUME TypeOK, Sweep
  PROVE  /\ validator' \in [vol: Snaps \cup {NoSnap}, up: BOOLEAN]
         /\ stray' = validator'.up
         /\ validator'.up => validator.up
         /\ validator'.vol \in {validator.vol, NoSnap}
<1>0. validator \in [vol: Snaps \cup {NoSnap}, up: BOOLEAN]
  BY DEF TypeOK
<1>1. CASE validator' = NoValidator
  BY <1>1 DEF NoValidator, Sweep
<1>2. CASE validator' = [validator EXCEPT !.up = FALSE]
  BY <1>0, <1>2 DEF Sweep
<1>3. CASE validator' = validator
  BY <1>0, <1>3 DEF Sweep
<1>4. CASE validator' = [validator EXCEPT !.vol = NoSnap]
  BY <1>0, <1>4 DEF Sweep
<1> QED
  BY <1>1, <1>2, <1>3, <1>4 DEF Sweep


\* Every step keeps the tables, the locks and the calls well typed.
LEMMA TypeStep == TypeOK /\ [Next]_vars => TypeOK'
<1> SUFFICES ASSUME TypeOK, [Next]_vars PROVE TypeOK'
  OBVIOUS
<1>0. task' \in [Tasks -> TaskRecords]
  BY TaskStep
<1> USE BaselineAssumption DEF TypeOK, vars, tables, locks, history
<1>1. ASSUME NEW t \in Tasks, NEW k \in Builds, StartBuild(t, k) PROVE TypeOK'
  <2> QED
    BY <1>1, <1>0 DEF StartBuild, At
<1>2. ASSUME NEW t \in Tasks, NEW k \in Promotions, StartPromote(t, k) PROVE TypeOK'
  <2>1. truth' \in [Snaps -> [masked: BOOLEAN, booted: BOOLEAN]]
    BY <1>2 DEF StartPromote, At, Fresh
  <2> QED
    BY <1>2, <1>0, <2>1 DEF StartPromote, At, Fresh
<1>3. ASSUME NEW t \in Tasks, NEW s \in Snaps, StartValidate(t, s) PROVE TypeOK'
  <2> QED
    BY <1>3, <1>0 DEF StartValidate, At, Registered
<1>4. ASSUME NEW t \in Tasks, StartCollect(t) PROVE TypeOK'
  <2> QED
    BY <1>4, <1>0 DEF StartCollect, At, Registered
<1>5. ASSUME NEW t \in Tasks, Register(t) PROVE TypeOK'
  <2>1. row' \in [Snaps -> Rows]
    BY <1>5 DEF Register, At, Go, SetRow, Return, Says, Rows, Absent, TaskRecords
  <2> QED
    BY <1>5, <1>0, <2>1 DEF Register, At, Go, SetRow, Return, Says
<1>6. ASSUME NEW t \in Tasks, Lock(t) PROVE TypeOK'
  <2>1. validator' \in [vol: Snaps \cup {NoSnap}, up: BOOLEAN]
    BY <1>6, SweepEffect DEF Lock
  <2> QED
    BY <1>6, SweepEffect, <1>0, <2>1 DEF Lock, At, Go
<1>7. ASSUME NEW t \in Tasks, PublishRefresh(t) PROVE TypeOK'
  <2>1. row' \in [Snaps -> Rows]
    <3>1. CASE Registered(task[t].snap)
      BY <1>7, <3>1 DEF
          PublishRefresh, At, SetCurrent, SetRow, Says, Return, Rows, Absent, TaskRecords
    <3>2. CASE ~Registered(task[t].snap)
      BY <1>7, <3>2 DEF
          PublishRefresh, At, SetCurrent, SetRow, Says, Return, Rows, Absent, TaskRecords
    <3> QED
      BY <1>7, <3>1, <3>2
  <2> QED
    BY <1>7, <1>0, <2>1 DEF PublishRefresh, At, SetCurrent, SetRow, Says, Return, TaskRecords
<1>8. ASSUME NEW t \in Tasks, PublishPromoted(t) PROVE TypeOK'
  <2>1. row' \in [Snaps -> Rows]
    <3>0. task[t].snap \in Snaps \cup {NoSnap} /\ task[t].masked \in BOOLEAN
      BY DEF TaskRecords
    <3>1. CASE Registered(task[t].snap)
      <4> DEFINE r == IF task[t].ok THEN Says(task[t].masked, TRUE) ELSE row[task[t].snap]
      <4>1. r.here
        BY <3>1 DEF Says, Registered
      <4>2. task[t].snap \in Snaps => r \in Rows
        BY <3>0 DEF Says, Rows
      <4>3. row' = [row EXCEPT ![task[t].snap] = r]
        BY <1>8, <3>1, <4>1 DEF PublishPromoted, SetCurrent, SetRow
      <4> HIDE DEF r
      <4> QED
        BY <4>2, <4>3
    <3>2. CASE ~Registered(task[t].snap)
      BY <1>8, <3>2 DEF PublishPromoted
    <3> QED
      BY <3>1, <3>2
  <2> QED
    BY <1>8, <1>0, <2>1, ZenonT(40) DEF
        PublishPromoted, At, Registered, SetCurrent, SetRow, Says, Return, TaskRecords
<1>9. ASSUME NEW t \in Tasks, TakeSnapshot(t) PROVE TypeOK'
  <2>1. truth' \in [Snaps -> [masked: BOOLEAN, booted: BOOLEAN]]
    BY <1>9 DEF TakeSnapshot, At, Fresh
  <2> QED
    BY <1>9, <1>0, <2>1 DEF TakeSnapshot, At, Fresh
<1>10. ASSUME NEW t \in Tasks, BuildFails(t) PROVE TypeOK'
  <2> QED
    BY <1>10, <1>0 DEF BuildFails, At, Return
<1>11. ASSUME NEW t \in Tasks, CloneCandidate(t) PROVE TypeOK'
  <2>1. validator' \in [vol: Snaps \cup {NoSnap}, up: BOOLEAN]
    BY <1>11 DEF CloneCandidate, At, Go, TaskRecords
  <2> QED
    BY <1>11, <1>0, <2>1 DEF CloneCandidate, At, Go
<1>12. ASSUME NEW t \in Tasks, CloneFails(t) PROVE TypeOK'
  <2> QED
    BY <1>12, <1>0 DEF CloneFails, At, Return
<1>13. ASSUME NEW t \in Tasks, Boot(t) PROVE TypeOK'
  <2>1. validator' \in [vol: Snaps \cup {NoSnap}, up: BOOLEAN]
    BY <1>13 DEF Boot, At, Go
  <2> QED
    BY <1>13, <1>0, <2>1 DEF Boot, At, Go
<1>14. ASSUME NEW t \in Tasks, Hook(t) PROVE TypeOK'
  <2>1. truth' \in [Snaps -> [masked: BOOLEAN, booted: BOOLEAN]]
    <3>1. PICK o \in BOOLEAN :
            truth' = IF o /\ validator.up
                     THEN [truth EXCEPT ![validator.vol].booted = TRUE] ELSE truth
      BY <1>14 DEF Hook
    <3>2. CASE o /\ validator.up
      BY <3>1, <3>2
    <3>3. CASE ~(o /\ validator.up)
      BY <3>1, <3>3
    <3> QED
      BY <3>2, <3>3
  <2> QED
    BY <1>14, <1>0, <2>1 DEF Hook, At
<1>15. ASSUME NEW t \in Tasks, Clean(t) PROVE TypeOK'
  <2>1. validator' \in [vol: Snaps \cup {NoSnap}, up: BOOLEAN]
    BY <1>15, SweepEffect DEF Clean
  <2> QED
    BY <1>15, SweepEffect, <1>0, <2>1 DEF Clean, At, Validated, Go, Return
<1>16. ASSUME NEW t \in Tasks, Mark(t) PROVE TypeOK'
  <2>1. row' \in [Snaps -> Rows]
    BY <1>16 DEF Mark, At, SetRow, Says, Go, Return, Rows, Absent, TaskRecords
  <2> QED
    BY <1>16, <1>0, <2>1 DEF Mark, At, SetRow, Says, Go, Return
<1>17. ASSUME NEW t \in Tasks, DestroySnapshot(t) PROVE TypeOK'
  <2> QED
    BY <1>17, <1>0 DEF DestroySnapshot, At
<1>18. ASSUME NEW t \in Tasks, DestroyFails(t) PROVE TypeOK'
  <2> QED
    BY <1>18, <1>0 DEF DestroyFails, At
<1>19. ASSUME NEW t \in Tasks, DropRow(t) PROVE TypeOK'
  <2>1. row' \in [Snaps -> Rows]
    BY <1>19 DEF DropRow, At, SetRow, Rows, Absent, TaskRecords
  <2> QED
    BY <1>19, <1>0, <2>1 DEF DropRow, At, SetRow, TaskRecords
<1>20. ASSUME NEW t \in Tasks, CollectEnds(t) PROVE TypeOK'
  <2> QED
    BY <1>20, <1>0 DEF CollectEnds, At, Return
<1>21. ASSUME NEW s \in Snaps, SetBaseline(s) PROVE TypeOK'
  <2>1. row' \in [Snaps -> Rows]
    BY <1>21 DEF SetBaseline, Registered, SetCurrent, SetRow, Says, Rows, Absent
  <2> QED
    BY <1>21, <1>0, <2>1 DEF SetBaseline, Registered, SetCurrent, SetRow, Says
<1>22. ASSUME NEW b \in Branches, Branching(b) PROVE TypeOK'
  BY <1>22 DEF
      Branching, ChooseOrigin, InsertBranch, CloneBranch, DeleteBranch, BranchTo,
      BranchRecords
<1>23. CASE Crash
  BY <1>0, <1>23 DEF Crash, NoBranch, BranchRecords
<1>24. CASE UNCHANGED vars
  BY <1>24
<1> QED
  BY <1>1, <1>2, <1>3, <1>4, <1>5, <1>6, <1>7, <1>8, <1>9, <1>10, <1>11,
     <1>12, <1>13, <1>14, <1>15, <1>16, <1>17, <1>18, <1>19, <1>20, <1>21, <1>22, <1>23, <1>24
     DEF Next, Start, Waits, Runs

\* The kind of a call and its step go together.
LEMMA KindStep == BaselineInv /\ [Next]_vars => (\A u \in Tasks : KindFits(u))'
<1> SUFFICES ASSUME BaselineInv, [Next]_vars PROVE (\A u \in Tasks : KindFits(u))'
  OBVIOUS
<1> USE BaselineAssumption DEF
    BaselineInv, TypeOK, TaskRecords, KindFits, Kinds, Builds, Promotions, Idle, vars,
    tables, locks, history
<1>1. ASSUME NEW t \in Tasks, NEW k \in Builds, StartBuild(t, k) PROVE (\A u \in Tasks : KindFits(u))'
  BY <1>1 DEF StartBuild, At
<1>2. ASSUME NEW t \in Tasks, NEW k \in Promotions, StartPromote(t, k) PROVE (\A u \in Tasks : KindFits(u))'
  BY <1>2 DEF StartPromote, At, Fresh
<1>3. ASSUME NEW t \in Tasks, NEW s \in Snaps, StartValidate(t, s) PROVE (\A u \in Tasks : KindFits(u))'
  BY <1>3 DEF StartValidate, At, Registered
<1>4. ASSUME NEW t \in Tasks, StartCollect(t) PROVE (\A u \in Tasks : KindFits(u))'
  BY <1>4 DEF StartCollect, At, Registered
<1>5. ASSUME NEW t \in Tasks, Register(t) PROVE (\A u \in Tasks : KindFits(u))'
  <2>1. CASE task[t].kind = "build"
    <3>1. Returned(t)
      BY <1>5, <2>1, ReturnEffect DEF Register
    <3> QED
      BY <1>5, <2>1, <3>1 DEF Register, At, SetRow, Says, Returned
  <2>2. CASE task[t].kind = "promoteUnchecked"
    <3>1. Moved(t, "publish")
      BY <1>5, <2>2, Named, GoEffect DEF Register
    <3> QED
      BY <1>5, <2>2, <3>1 DEF Register, At, SetRow, Says, Moved
  <2>3. CASE task[t].kind \notin {"build", "promoteUnchecked"}
    <3>1. Moved(t, "lock")
      BY <1>5, <2>3, Named, GoEffect DEF Register
    <3> QED
      BY <1>5, <2>3, <3>1 DEF Register, At, SetRow, Says, Moved
  <2> QED
    BY <1>5, <2>1, <2>2, <2>3
<1>6. ASSUME NEW t \in Tasks, Lock(t) PROVE (\A u \in Tasks : KindFits(u))'
  BY <1>6 DEF Lock, At, Go, Sweep, NoValidator
<1>7. ASSUME NEW t \in Tasks, PublishRefresh(t) PROVE (\A u \in Tasks : KindFits(u))'
  BY <1>7 DEF PublishRefresh, At, SetCurrent, SetRow, Says, Return
<1>8. ASSUME NEW t \in Tasks, PublishPromoted(t) PROVE (\A u \in Tasks : KindFits(u))'
  BY <1>8 DEF PublishPromoted, At, Registered, SetCurrent, SetRow, Says, Return
<1>9. ASSUME NEW t \in Tasks, TakeSnapshot(t) PROVE (\A u \in Tasks : KindFits(u))'
  BY <1>9 DEF TakeSnapshot, At, Fresh
<1>10. ASSUME NEW t \in Tasks, BuildFails(t) PROVE (\A u \in Tasks : KindFits(u))'
  BY <1>10 DEF BuildFails, At, Return
<1>11. ASSUME NEW t \in Tasks, CloneCandidate(t) PROVE (\A u \in Tasks : KindFits(u))'
  BY <1>11 DEF CloneCandidate, At, Go
<1>12. ASSUME NEW t \in Tasks, CloneFails(t) PROVE (\A u \in Tasks : KindFits(u))'
  BY <1>12 DEF CloneFails, At, Return
<1>13. ASSUME NEW t \in Tasks, Boot(t) PROVE (\A u \in Tasks : KindFits(u))'
  <2>1. CASE validator' = [validator EXCEPT !.up = TRUE] /\ Go(t, "hook")
    BY <1>13, <2>1 DEF Boot, At, Go
  <2>2. CASE validator' \in {validator, [validator EXCEPT !.up = TRUE]} /\ Go(t, "clean")
    BY <1>13, <2>2 DEF Boot, At, Go
  <2> QED
    BY <1>13, <2>1, <2>2 DEF Boot
<1>14. ASSUME NEW t \in Tasks, Hook(t) PROVE (\A u \in Tasks : KindFits(u))'
  BY <1>14 DEF Hook, At
<1>15. ASSUME NEW t \in Tasks, Clean(t) PROVE (\A u \in Tasks : KindFits(u))'
  <2>1. CASE ~task[t].ok
    <3>1. Returned(t)
      BY <1>15, <2>1, ReturnEffect DEF Clean, Validated
    <3> QED
      BY <1>15, <2>1, <3>1 DEF Clean, At, Sweep, NoValidator, Returned
  <2>2. CASE task[t].ok /\ task[t].kind \in Promotions
    <3>1. Moved(t, "publish")
      BY <1>15, <2>2, Named, GoEffect DEF Clean, Validated
    <3> QED
      BY <1>15, <2>2, <3>1 DEF Clean, At, Sweep, NoValidator, Moved
  <2>3. CASE task[t].ok /\ task[t].kind \notin Promotions
    <3>1. Moved(t, "mark")
      BY <1>15, <2>3, Named, GoEffect DEF Clean, Validated
    <3> QED
      BY <1>15, <2>3, <3>1 DEF Clean, At, Sweep, NoValidator, Moved
  <2> QED
    BY <1>15, <2>1, <2>2, <2>3
<1>16. ASSUME NEW t \in Tasks, Mark(t) PROVE (\A u \in Tasks : KindFits(u))'
  <2>1. CASE task[t].kind = "refresh" /\ PolicyMet(task[t].masked, TRUE)
    <3>1. Moved(t, "publish")
      BY <1>16, <2>1, Named, GoEffect DEF Mark
    <3> QED
      BY <1>16, <2>1, <3>1 DEF Mark, At, SetRow, Says, Moved
  <2>2. CASE ~(task[t].kind = "refresh" /\ PolicyMet(task[t].masked, TRUE))
    <3>1. Returned(t)
      BY <1>16, <2>2, ReturnEffect DEF Mark
    <3> QED
      BY <1>16, <2>2, <3>1 DEF Mark, At, SetRow, Says, Returned
  <2> QED
    BY <1>16, <2>1, <2>2
<1>17. ASSUME NEW t \in Tasks, DestroySnapshot(t) PROVE (\A u \in Tasks : KindFits(u))'
  BY <1>17 DEF DestroySnapshot, At
<1>18. ASSUME NEW t \in Tasks, DestroyFails(t) PROVE (\A u \in Tasks : KindFits(u))'
  BY <1>18 DEF DestroyFails, At
<1>19. ASSUME NEW t \in Tasks, DropRow(t) PROVE (\A u \in Tasks : KindFits(u))'
  BY <1>19 DEF DropRow, At, SetRow
<1>20. ASSUME NEW t \in Tasks, CollectEnds(t) PROVE (\A u \in Tasks : KindFits(u))'
  BY <1>20 DEF CollectEnds, At, Return
<1>21. ASSUME NEW s \in Snaps, SetBaseline(s) PROVE (\A u \in Tasks : KindFits(u))'
  BY <1>21 DEF SetBaseline, Registered, SetCurrent, SetRow, Says
<1>22. ASSUME NEW b \in Branches, Branching(b) PROVE (\A u \in Tasks : KindFits(u))'
  BY <1>22 DEF Branching, ChooseOrigin, InsertBranch, CloneBranch, DeleteBranch, BranchTo
<1>23. CASE Crash
  BY <1>23 DEF Crash, NoBranch
<1>24. CASE UNCHANGED vars
  BY <1>24
<1> QED
  BY <1>1, <1>2, <1>3, <1>4, <1>5, <1>6, <1>7, <1>8, <1>9, <1>10, <1>11,
     <1>12, <1>13, <1>14, <1>15, <1>16, <1>17, <1>18, <1>19, <1>20, <1>21, <1>22, <1>23, <1>24
     DEF Next, Start, Waits, Runs

\* What a call carries stays true of its snapshot.
LEMMA TruthStep == BaselineInv /\ [Next]_vars => (\A u \in Tasks : CarriesTruth(u))'
<1> SUFFICES ASSUME BaselineInv, [Next]_vars PROVE (\A u \in Tasks : CarriesTruth(u))'
  OBVIOUS
<1> USE BaselineAssumption DEF
    BaselineInv, TypeOK, TaskRecords, KindFits, CarriesTruth, HasSnap, BuildsFit,
    ValidatorFits, CollectFits, Collects, TablesFit, RowsTellTheTruth, Registered, Builds,
    Promotions, Idle, vars, tables, locks, history
<1>1. ASSUME NEW t \in Tasks, NEW k \in Builds, StartBuild(t, k) PROVE (\A u \in Tasks : CarriesTruth(u))'
  BY <1>1 DEF StartBuild, At
<1>2. ASSUME NEW t \in Tasks, NEW k \in Promotions, StartPromote(t, k) PROVE (\A u \in Tasks : CarriesTruth(u))'
  BY <1>2 DEF StartPromote, At, Fresh
<1>3. ASSUME NEW t \in Tasks, NEW s \in Snaps, StartValidate(t, s) PROVE (\A u \in Tasks : CarriesTruth(u))'
  BY <1>3 DEF StartValidate, At, Registered
<1>4. ASSUME NEW t \in Tasks, StartCollect(t) PROVE (\A u \in Tasks : CarriesTruth(u))'
  BY <1>4 DEF StartCollect, At, Registered
<1>5. ASSUME NEW t \in Tasks, Register(t) PROVE (\A u \in Tasks : CarriesTruth(u))'
  <2>1. CASE task[t].kind = "build"
    <3>1. Returned(t)
      BY <1>5, <2>1, ReturnEffect DEF Register
    <3>2. ASSUME NEW u \in Tasks, u # t PROVE CarriesTruth(u)'
      BY <1>5, <2>1, <3>1, <3>2 DEF Register, At, SetRow, Says, Returned
    <3>3. CarriesTruth(t)'
      BY <1>5, <2>1, <3>1 DEF Register, At, SetRow, Says, Returned
    <3> QED
      BY <3>2, <3>3
  <2>2. CASE task[t].kind = "promoteUnchecked"
    <3>1. Moved(t, "publish")
      BY <1>5, <2>2, Named, GoEffect DEF Register
    <3>2. ASSUME NEW u \in Tasks, u # t PROVE CarriesTruth(u)'
      BY <1>5, <2>2, <3>1, <3>2 DEF Register, At, SetRow, Says, Moved
    <3>3. CarriesTruth(t)'
      BY <1>5, <2>2, <3>1 DEF Register, At, SetRow, Says, Moved
    <3> QED
      BY <3>2, <3>3
  <2>3. CASE task[t].kind \notin {"build", "promoteUnchecked"}
    <3>1. Moved(t, "lock")
      BY <1>5, <2>3, Named, GoEffect DEF Register
    <3>2. ASSUME NEW u \in Tasks, u # t PROVE CarriesTruth(u)'
      BY <1>5, <2>3, <3>1, <3>2 DEF Register, At, SetRow, Says, Moved
    <3>3. CarriesTruth(t)'
      BY <1>5, <2>3, <3>1 DEF Register, At, SetRow, Says, Moved
    <3> QED
      BY <3>2, <3>3
  <2> QED
    BY <1>5, <2>1, <2>2, <2>3
<1>6. ASSUME NEW t \in Tasks, Lock(t) PROVE (\A u \in Tasks : CarriesTruth(u))'
  BY <1>6 DEF Lock, At, Go, Sweep, NoValidator
<1>7. ASSUME NEW t \in Tasks, PublishRefresh(t) PROVE (\A u \in Tasks : CarriesTruth(u))'
  BY <1>7 DEF PublishRefresh, At, SetCurrent, SetRow, Says, Return
<1>8. ASSUME NEW t \in Tasks, PublishPromoted(t) PROVE (\A u \in Tasks : CarriesTruth(u))'
  BY <1>8 DEF PublishPromoted, At, Registered, SetCurrent, SetRow, Says, Return
<1>9. ASSUME NEW t \in Tasks, TakeSnapshot(t) PROVE (\A u \in Tasks : CarriesTruth(u))'
  <2>1. PICK s \in Fresh, m \in BOOLEAN :
          /\ sentinel' = (sentinel \/ m)
          /\ born' = born \cup {s}
          /\ truth' = [truth EXCEPT ![s] = [masked |-> m, booted |-> FALSE]]
          /\ task' = [task EXCEPT ![t].pc = "register", ![t].snap = s, ![t].masked = sentinel']
    BY <1>9 DEF TakeSnapshot
  <2>2. ASSUME NEW u \in Tasks, u # t PROVE CarriesTruth(u)'
    <3>1. task'[u] = task[u]
      BY <2>1, <2>2
    <3>2. \A x \in born : truth'[x] = truth[x]
      BY <2>1 DEF Fresh
    <3> QED
      BY <2>1, <3>1, <3>2
  <2>3. task'[t].snap = s /\ task'[t].masked = (sentinel \/ m) /\ task'[t].ok = task[t].ok
    BY <2>1
  <2>4. truth'[s].masked = m
    BY <2>1 DEF Fresh
  <2>5. ~sentinel /\ ~task[t].ok
    BY <1>9 DEF TakeSnapshot, At
  <2>6. CarriesTruth(t)'
    BY <2>1, <2>3, <2>4, <2>5
  <2> QED
    BY <2>2, <2>6
<1>10. ASSUME NEW t \in Tasks, BuildFails(t) PROVE (\A u \in Tasks : CarriesTruth(u))'
  BY <1>10 DEF BuildFails, At, Return
<1>11. ASSUME NEW t \in Tasks, CloneCandidate(t) PROVE (\A u \in Tasks : CarriesTruth(u))'
  BY <1>11 DEF CloneCandidate, At, Go
<1>12. ASSUME NEW t \in Tasks, CloneFails(t) PROVE (\A u \in Tasks : CarriesTruth(u))'
  BY <1>12 DEF CloneFails, At, Return
<1>13. ASSUME NEW t \in Tasks, Boot(t) PROVE (\A u \in Tasks : CarriesTruth(u))'
  <2>1. CASE validator' = [validator EXCEPT !.up = TRUE] /\ Go(t, "hook")
    BY <1>13, <2>1 DEF Boot, At, Go
  <2>2. CASE validator' \in {validator, [validator EXCEPT !.up = TRUE]} /\ Go(t, "clean")
    BY <1>13, <2>2 DEF Boot, At, Go
  <2> QED
    BY <1>13, <2>1, <2>2 DEF Boot
<1>14. ASSUME NEW t \in Tasks, Hook(t) PROVE (\A u \in Tasks : CarriesTruth(u))'
  BY <1>14 DEF Hook, At
<1>15. ASSUME NEW t \in Tasks, Clean(t) PROVE (\A u \in Tasks : CarriesTruth(u))'
  <2>1. CASE ~task[t].ok
    <3>1. Returned(t)
      BY <1>15, <2>1, ReturnEffect DEF Clean, Validated
    <3>2. ASSUME NEW u \in Tasks, u # t PROVE CarriesTruth(u)'
      BY <1>15, <2>1, <3>1, <3>2 DEF Clean, At, Sweep, NoValidator, Returned
    <3>3. CarriesTruth(t)'
      BY <1>15, <2>1, <3>1 DEF Clean, At, Sweep, NoValidator, Returned
    <3> QED
      BY <3>2, <3>3
  <2>2. CASE task[t].ok /\ task[t].kind \in Promotions
    <3>1. Moved(t, "publish")
      BY <1>15, <2>2, Named, GoEffect DEF Clean, Validated
    <3>2. ASSUME NEW u \in Tasks, u # t PROVE CarriesTruth(u)'
      BY <1>15, <2>2, <3>1, <3>2 DEF Clean, At, Sweep, NoValidator, Moved
    <3>3. CarriesTruth(t)'
      BY <1>15, <2>2, <3>1 DEF Clean, At, Sweep, NoValidator, Moved
    <3> QED
      BY <3>2, <3>3
  <2>3. CASE task[t].ok /\ task[t].kind \notin Promotions
    <3>1. Moved(t, "mark")
      BY <1>15, <2>3, Named, GoEffect DEF Clean, Validated
    <3>2. ASSUME NEW u \in Tasks, u # t PROVE CarriesTruth(u)'
      BY <1>15, <2>3, <3>1, <3>2 DEF Clean, At, Sweep, NoValidator, Moved
    <3>3. CarriesTruth(t)'
      BY <1>15, <2>3, <3>1 DEF Clean, At, Sweep, NoValidator, Moved
    <3> QED
      BY <3>2, <3>3
  <2> QED
    BY <1>15, <2>1, <2>2, <2>3
<1>16. ASSUME NEW t \in Tasks, Mark(t) PROVE (\A u \in Tasks : CarriesTruth(u))'
  <2>1. CASE task[t].kind = "refresh" /\ PolicyMet(task[t].masked, TRUE)
    <3>1. Moved(t, "publish")
      BY <1>16, <2>1, Named, GoEffect DEF Mark
    <3>2. ASSUME NEW u \in Tasks, u # t PROVE CarriesTruth(u)'
      BY <1>16, <2>1, <3>1, <3>2 DEF Mark, At, SetRow, Says, Moved
    <3>3. CarriesTruth(t)'
      BY <1>16, <2>1, <3>1 DEF Mark, At, SetRow, Says, Moved
    <3> QED
      BY <3>2, <3>3
  <2>2. CASE ~(task[t].kind = "refresh" /\ PolicyMet(task[t].masked, TRUE))
    <3>1. Returned(t)
      BY <1>16, <2>2, ReturnEffect DEF Mark
    <3>2. ASSUME NEW u \in Tasks, u # t PROVE CarriesTruth(u)'
      BY <1>16, <2>2, <3>1, <3>2 DEF Mark, At, SetRow, Says, Returned
    <3>3. CarriesTruth(t)'
      BY <1>16, <2>2, <3>1 DEF Mark, At, SetRow, Says, Returned
    <3> QED
      BY <3>2, <3>3
  <2> QED
    BY <1>16, <2>1, <2>2
<1>17. ASSUME NEW t \in Tasks, DestroySnapshot(t) PROVE (\A u \in Tasks : CarriesTruth(u))'
  <2>1. PICK s \in task[t].left : task' = [task EXCEPT ![t].pc = "drop", ![t].snap = s]
    BY <1>17 DEF DestroySnapshot
  <2>2. ASSUME NEW u \in Tasks, u # t PROVE CarriesTruth(u)'
    BY <1>17, <2>1, <2>2 DEF DestroySnapshot
  <2>3. CarriesTruth(t)'
    BY <1>17, <2>1 DEF DestroySnapshot, At
  <2> QED
    BY <2>2, <2>3
<1>18. ASSUME NEW t \in Tasks, DestroyFails(t) PROVE (\A u \in Tasks : CarriesTruth(u))'
  BY <1>18 DEF DestroyFails, At
<1>19. ASSUME NEW t \in Tasks, DropRow(t) PROVE (\A u \in Tasks : CarriesTruth(u))'
  BY <1>19 DEF DropRow, At, SetRow
<1>20. ASSUME NEW t \in Tasks, CollectEnds(t) PROVE (\A u \in Tasks : CarriesTruth(u))'
  BY <1>20 DEF CollectEnds, At, Return
<1>21. ASSUME NEW s \in Snaps, SetBaseline(s) PROVE (\A u \in Tasks : CarriesTruth(u))'
  BY <1>21 DEF SetBaseline, Registered, SetCurrent, SetRow, Says
<1>22. ASSUME NEW b \in Branches, Branching(b) PROVE (\A u \in Tasks : CarriesTruth(u))'
  BY <1>22 DEF Branching, ChooseOrigin, InsertBranch, CloneBranch, DeleteBranch, BranchTo
<1>23. CASE Crash
  BY <1>23 DEF Crash, NoBranch
<1>24. CASE UNCHANGED vars
  BY <1>24
<1> QED
  BY <1>1, <1>2, <1>3, <1>4, <1>5, <1>6, <1>7, <1>8, <1>9, <1>10, <1>11,
     <1>12, <1>13, <1>14, <1>15, <1>16, <1>17, <1>18, <1>19, <1>20, <1>21, <1>22, <1>23, <1>24
     DEF Next, Start, Waits, Runs

\* A call that is about to publish satisfies the policy.
LEMMA PublishStep == BaselineInv /\ [Next]_vars => (\A u \in Tasks : MayPublish(u))'
<1> SUFFICES ASSUME BaselineInv, [Next]_vars PROVE (\A u \in Tasks : MayPublish(u))'
  OBVIOUS
<1> USE BaselineAssumption DEF
    BaselineInv, TypeOK, TaskRecords, KindFits, MayPublish, PolicyMet, Builds, Promotions,
    Idle, vars, tables, locks, history
<1>1. ASSUME NEW t \in Tasks, NEW k \in Builds, StartBuild(t, k) PROVE (\A u \in Tasks : MayPublish(u))'
  BY <1>1 DEF StartBuild, At
<1>2. ASSUME NEW t \in Tasks, NEW k \in Promotions, StartPromote(t, k) PROVE (\A u \in Tasks : MayPublish(u))'
  BY <1>2 DEF StartPromote, At, Fresh
<1>3. ASSUME NEW t \in Tasks, NEW s \in Snaps, StartValidate(t, s) PROVE (\A u \in Tasks : MayPublish(u))'
  BY <1>3 DEF StartValidate, At, Registered
<1>4. ASSUME NEW t \in Tasks, StartCollect(t) PROVE (\A u \in Tasks : MayPublish(u))'
  BY <1>4 DEF StartCollect, At, Registered
<1>5. ASSUME NEW t \in Tasks, Register(t) PROVE (\A u \in Tasks : MayPublish(u))'
  <2>1. CASE task[t].kind = "build"
    <3>1. Returned(t)
      BY <1>5, <2>1, ReturnEffect DEF Register
    <3>2. ASSUME NEW u \in Tasks, u # t PROVE MayPublish(u)'
      BY <1>5, <2>1, <3>1, <3>2 DEF Register, At, SetRow, Says, Returned
    <3>3. MayPublish(t)'
      BY <1>5, <2>1, <3>1 DEF Register, At, SetRow, Says, Returned
    <3> QED
      BY <3>2, <3>3
  <2>2. CASE task[t].kind = "promoteUnchecked"
    <3>1. Moved(t, "publish")
      BY <1>5, <2>2, Named, GoEffect DEF Register
    <3>2. ASSUME NEW u \in Tasks, u # t PROVE MayPublish(u)'
      BY <1>5, <2>2, <3>1, <3>2 DEF Register, At, SetRow, Says, Moved
    <3>3. MayPublish(t)'
      BY <1>5, <2>2, <3>1 DEF Register, At, SetRow, Says, Moved
    <3> QED
      BY <3>2, <3>3
  <2>3. CASE task[t].kind \notin {"build", "promoteUnchecked"}
    <3>1. Moved(t, "lock")
      BY <1>5, <2>3, Named, GoEffect DEF Register
    <3>2. ASSUME NEW u \in Tasks, u # t PROVE MayPublish(u)'
      BY <1>5, <2>3, <3>1, <3>2 DEF Register, At, SetRow, Says, Moved
    <3>3. MayPublish(t)'
      BY <1>5, <2>3, <3>1 DEF Register, At, SetRow, Says, Moved
    <3> QED
      BY <3>2, <3>3
  <2> QED
    BY <1>5, <2>1, <2>2, <2>3
<1>6. ASSUME NEW t \in Tasks, Lock(t) PROVE (\A u \in Tasks : MayPublish(u))'
  BY <1>6 DEF Lock, At, Go, Sweep, NoValidator
<1>7. ASSUME NEW t \in Tasks, PublishRefresh(t) PROVE (\A u \in Tasks : MayPublish(u))'
  BY <1>7 DEF PublishRefresh, At, SetCurrent, SetRow, Says, Return
<1>8. ASSUME NEW t \in Tasks, PublishPromoted(t) PROVE (\A u \in Tasks : MayPublish(u))'
  BY <1>8 DEF PublishPromoted, At, Registered, SetCurrent, SetRow, Says, Return
<1>9. ASSUME NEW t \in Tasks, TakeSnapshot(t) PROVE (\A u \in Tasks : MayPublish(u))'
  BY <1>9 DEF TakeSnapshot, At, Fresh
<1>10. ASSUME NEW t \in Tasks, BuildFails(t) PROVE (\A u \in Tasks : MayPublish(u))'
  BY <1>10 DEF BuildFails, At, Return
<1>11. ASSUME NEW t \in Tasks, CloneCandidate(t) PROVE (\A u \in Tasks : MayPublish(u))'
  BY <1>11 DEF CloneCandidate, At, Go
<1>12. ASSUME NEW t \in Tasks, CloneFails(t) PROVE (\A u \in Tasks : MayPublish(u))'
  BY <1>12 DEF CloneFails, At, Return
<1>13. ASSUME NEW t \in Tasks, Boot(t) PROVE (\A u \in Tasks : MayPublish(u))'
  <2>1. CASE validator' = [validator EXCEPT !.up = TRUE] /\ Go(t, "hook")
    BY <1>13, <2>1 DEF Boot, At, Go
  <2>2. CASE validator' \in {validator, [validator EXCEPT !.up = TRUE]} /\ Go(t, "clean")
    BY <1>13, <2>2 DEF Boot, At, Go
  <2> QED
    BY <1>13, <2>1, <2>2 DEF Boot
<1>14. ASSUME NEW t \in Tasks, Hook(t) PROVE (\A u \in Tasks : MayPublish(u))'
  BY <1>14 DEF Hook, At
<1>15. ASSUME NEW t \in Tasks, Clean(t) PROVE (\A u \in Tasks : MayPublish(u))'
  <2>1. CASE ~task[t].ok
    <3>1. Returned(t)
      BY <1>15, <2>1, ReturnEffect DEF Clean, Validated
    <3>2. ASSUME NEW u \in Tasks, u # t PROVE MayPublish(u)'
      BY <1>15, <2>1, <3>1, <3>2 DEF Clean, At, Sweep, NoValidator, Returned
    <3>3. MayPublish(t)'
      BY <1>15, <2>1, <3>1 DEF Clean, At, Sweep, NoValidator, Returned
    <3> QED
      BY <3>2, <3>3
  <2>2. CASE task[t].ok /\ task[t].kind \in Promotions
    <3>1. Moved(t, "publish")
      BY <1>15, <2>2, Named, GoEffect DEF Clean, Validated
    <3>2. ASSUME NEW u \in Tasks, u # t PROVE MayPublish(u)'
      BY <1>15, <2>2, <3>1, <3>2 DEF Clean, At, Sweep, NoValidator, Moved
    <3>3. MayPublish(t)'
      BY <1>15, <2>2, <3>1 DEF Clean, At, Sweep, NoValidator, Moved
    <3> QED
      BY <3>2, <3>3
  <2>3. CASE task[t].ok /\ task[t].kind \notin Promotions
    <3>1. Moved(t, "mark")
      BY <1>15, <2>3, Named, GoEffect DEF Clean, Validated
    <3>2. ASSUME NEW u \in Tasks, u # t PROVE MayPublish(u)'
      BY <1>15, <2>3, <3>1, <3>2 DEF Clean, At, Sweep, NoValidator, Moved
    <3>3. MayPublish(t)'
      BY <1>15, <2>3, <3>1 DEF Clean, At, Sweep, NoValidator, Moved
    <3> QED
      BY <3>2, <3>3
  <2> QED
    BY <1>15, <2>1, <2>2, <2>3
<1>16. ASSUME NEW t \in Tasks, Mark(t) PROVE (\A u \in Tasks : MayPublish(u))'
  <2>1. CASE task[t].kind = "refresh" /\ PolicyMet(task[t].masked, TRUE)
    <3>1. Moved(t, "publish")
      BY <1>16, <2>1, Named, GoEffect DEF Mark
    <3>2. ASSUME NEW u \in Tasks, u # t PROVE MayPublish(u)'
      BY <1>16, <2>1, <3>1, <3>2 DEF Mark, At, SetRow, Says, Moved
    <3>3. MayPublish(t)'
      BY <1>16, <2>1, <3>1 DEF Mark, At, SetRow, Says, Moved
    <3> QED
      BY <3>2, <3>3
  <2>2. CASE ~(task[t].kind = "refresh" /\ PolicyMet(task[t].masked, TRUE))
    <3>1. Returned(t)
      BY <1>16, <2>2, ReturnEffect DEF Mark
    <3>2. ASSUME NEW u \in Tasks, u # t PROVE MayPublish(u)'
      BY <1>16, <2>2, <3>1, <3>2 DEF Mark, At, SetRow, Says, Returned
    <3>3. MayPublish(t)'
      BY <1>16, <2>2, <3>1 DEF Mark, At, SetRow, Says, Returned
    <3> QED
      BY <3>2, <3>3
  <2> QED
    BY <1>16, <2>1, <2>2
<1>17. ASSUME NEW t \in Tasks, DestroySnapshot(t) PROVE (\A u \in Tasks : MayPublish(u))'
  BY <1>17 DEF DestroySnapshot, At
<1>18. ASSUME NEW t \in Tasks, DestroyFails(t) PROVE (\A u \in Tasks : MayPublish(u))'
  BY <1>18 DEF DestroyFails, At
<1>19. ASSUME NEW t \in Tasks, DropRow(t) PROVE (\A u \in Tasks : MayPublish(u))'
  BY <1>19 DEF DropRow, At, SetRow
<1>20. ASSUME NEW t \in Tasks, CollectEnds(t) PROVE (\A u \in Tasks : MayPublish(u))'
  BY <1>20 DEF CollectEnds, At, Return
<1>21. ASSUME NEW s \in Snaps, SetBaseline(s) PROVE (\A u \in Tasks : MayPublish(u))'
  BY <1>21 DEF SetBaseline, Registered, SetCurrent, SetRow, Says
<1>22. ASSUME NEW b \in Branches, Branching(b) PROVE (\A u \in Tasks : MayPublish(u))'
  BY <1>22 DEF Branching, ChooseOrigin, InsertBranch, CloneBranch, DeleteBranch, BranchTo
<1>23. CASE Crash
  BY <1>23 DEF Crash, NoBranch
<1>24. CASE UNCHANGED vars
  BY <1>24
<1> QED
  BY <1>1, <1>2, <1>3, <1>4, <1>5, <1>6, <1>7, <1>8, <1>9, <1>10, <1>11,
     <1>12, <1>13, <1>14, <1>15, <1>16, <1>17, <1>18, <1>19, <1>20, <1>21, <1>22, <1>23, <1>24
     DEF Next, Start, Waits, Runs

\* A call that goes on, and does not go back to building, leaves BuildsFit alone.
LEMMA BuildsFrame ==
  ASSUME BuildsFit, NEW t \in Tasks, task'[t].kind = task[t].kind, task'[t].pc # "build",
         \A u \in Tasks : u # t => task'[u] = task[u],
         refreshing' = refreshing, sentinel' = sentinel
  PROVE  BuildsFit'
  BY DEF BuildsFit

\* A call that returns lets the next build begin.
LEMMA BuildReturns ==
  ASSUME BuildsFit, NEW t \in Tasks, Returned(t), sentinel' = sentinel
  PROVE  BuildsFit'
  BY DEF BuildsFit, Returned, Builds

\* Calls that are not validating leave ValidatorFits alone.
LEMMA ValidatorFrame ==
  ASSUME ValidatorFits, NEW t \in Tasks,
         task'[t].pc \notin {"clone", "boot", "hook", "clean"},
         \A u \in Tasks : u # t => task'[u] = task[u],
         validator' = validator, born' = born, stray' = stray, validateMu' = validateMu
  PROVE  ValidatorFits'
  BY DEF ValidatorFits, Validates

\* The holder of validateMu may leave _validate as it likes: nobody else is there.
LEMMA ReleaseFrame ==
  ASSUME ValidatorFits, NEW t \in Tasks, task[t].pc = "clean",
         task'[t].pc \notin {"clone", "boot", "hook", "clean"},
         \A u \in Tasks : u # t => task'[u] = task[u],
         validator'.vol \in {validator.vol, NoSnap}, born' = born
  PROVE  ValidatorFits'
<1>1. \A u \in Tasks : u # t => ~Validates(u)
  BY DEF ValidatorFits, Validates
<1>2. \A u \in Tasks : ~Validates(u)'
  BY <1>1 DEF Validates
<1> QED
  BY <1>2 DEF ValidatorFits, Validates

\* One build at a time, over a sentinel that is gone.
LEMMA BuildsStep == BaselineInv /\ [Next]_vars => BuildsFit'
<1> SUFFICES ASSUME BaselineInv, [Next]_vars PROVE BuildsFit'
  OBVIOUS
<1> USE BaselineAssumption DEF
    BaselineInv, TypeOK, TaskRecords, KindFits, BuildsFit, Builds, Promotions, Idle, vars,
    tables, locks, history
<1>1. ASSUME NEW t \in Tasks, NEW k \in Builds, StartBuild(t, k) PROVE BuildsFit'
  BY <1>1 DEF StartBuild, At
<1>2. ASSUME NEW t \in Tasks, NEW k \in Promotions, StartPromote(t, k) PROVE BuildsFit'
  BY <1>2 DEF StartPromote, At, Fresh
<1>3. ASSUME NEW t \in Tasks, NEW s \in Snaps, StartValidate(t, s) PROVE BuildsFit'
  BY <1>3 DEF StartValidate, At, Registered
<1>4. ASSUME NEW t \in Tasks, StartCollect(t) PROVE BuildsFit'
  BY <1>4 DEF StartCollect, At, Registered
<1>5. ASSUME NEW t \in Tasks, Register(t) PROVE BuildsFit'
  <2>1. CASE task[t].kind = "build"
    <3>1. Returned(t)
      BY <1>5, <2>1, ReturnEffect DEF Register
    <3> QED
      BY <1>5, <3>1, BuildReturns DEF Register
  <2>2. CASE task[t].kind = "promoteUnchecked"
    <3>1. Moved(t, "publish")
      BY <1>5, <2>2, Named, GoEffect DEF Register
    <3> QED
      BY <1>5, <2>2, <3>1, BuildsFrame DEF Register, Moved
  <2>3. CASE task[t].kind \notin {"build", "promoteUnchecked"}
    <3>1. Moved(t, "lock")
      BY <1>5, <2>3, Named, GoEffect DEF Register
    <3> QED
      BY <1>5, <2>3, <3>1, BuildsFrame DEF Register, Moved
  <2> QED
    BY <1>5, <2>1, <2>2, <2>3
<1>6. ASSUME NEW t \in Tasks, Lock(t) PROVE BuildsFit'
  BY <1>6 DEF Lock, At, Go, Sweep, NoValidator
<1>7. ASSUME NEW t \in Tasks, PublishRefresh(t) PROVE BuildsFit'
  <2>1. Returned(t)
    BY <1>7, ReturnEffect DEF PublishRefresh
  <2> QED
    BY <1>7, <2>1, BuildReturns DEF PublishRefresh
<1>8. ASSUME NEW t \in Tasks, PublishPromoted(t) PROVE BuildsFit'
  <2>1. Returned(t)
    BY <1>8, ReturnEffect DEF PublishPromoted
  <2> QED
    BY <1>8, <2>1, BuildReturns DEF PublishPromoted
<1>9. ASSUME NEW t \in Tasks, TakeSnapshot(t) PROVE BuildsFit'
  BY <1>9 DEF TakeSnapshot, At, Fresh
<1>10. ASSUME NEW t \in Tasks, BuildFails(t) PROVE BuildsFit'
  BY <1>10 DEF BuildFails, At, Return
<1>11. ASSUME NEW t \in Tasks, CloneCandidate(t) PROVE BuildsFit'
  BY <1>11 DEF CloneCandidate, At, Go
<1>12. ASSUME NEW t \in Tasks, CloneFails(t) PROVE BuildsFit'
  BY <1>12 DEF CloneFails, At, Return
<1>13. ASSUME NEW t \in Tasks, Boot(t) PROVE BuildsFit'
  <2>1. CASE validator' = [validator EXCEPT !.up = TRUE] /\ Go(t, "hook")
    BY <1>13, <2>1 DEF Boot, At, Go
  <2>2. CASE validator' \in {validator, [validator EXCEPT !.up = TRUE]} /\ Go(t, "clean")
    BY <1>13, <2>2 DEF Boot, At, Go
  <2> QED
    BY <1>13, <2>1, <2>2 DEF Boot
<1>14. ASSUME NEW t \in Tasks, Hook(t) PROVE BuildsFit'
  BY <1>14 DEF Hook, At
<1>15. ASSUME NEW t \in Tasks, Clean(t) PROVE BuildsFit'
  <2>1. CASE ~task[t].ok
    <3>1. Returned(t)
      BY <1>15, <2>1, ReturnEffect DEF Clean, Validated
    <3>2. sentinel' = sentinel
      BY <1>15 DEF Clean
    <3> QED
      BY <3>1, <3>2, BuildReturns
  <2>2. CASE task[t].ok /\ task[t].kind \in Promotions
    <3>1. Moved(t, "publish")
      BY <1>15, <2>2, Named, GoEffect DEF Clean, Validated
    <3> QED
      BY <1>15, <2>2, <3>1, BuildsFrame DEF Clean, Validated, Moved
  <2>3. CASE task[t].ok /\ task[t].kind \notin Promotions
    <3>1. Moved(t, "mark")
      BY <1>15, <2>3, Named, GoEffect DEF Clean, Validated
    <3> QED
      BY <1>15, <2>3, <3>1, BuildsFrame DEF Clean, Validated, Moved
  <2> QED
    BY <1>15, <2>1, <2>2, <2>3
<1>16. ASSUME NEW t \in Tasks, Mark(t) PROVE BuildsFit'
  <2>1. CASE task[t].kind = "refresh" /\ PolicyMet(task[t].masked, TRUE)
    <3>1. Moved(t, "publish")
      BY <1>16, <2>1, Named, GoEffect DEF Mark
    <3> QED
      BY <1>16, <2>1, <3>1, BuildsFrame DEF Mark, Moved
  <2>2. CASE ~(task[t].kind = "refresh" /\ PolicyMet(task[t].masked, TRUE))
    <3>1. Returned(t)
      BY <1>16, <2>2, ReturnEffect DEF Mark
    <3> QED
      BY <1>16, <3>1, BuildReturns DEF Mark
  <2> QED
    BY <1>16, <2>1, <2>2
<1>17. ASSUME NEW t \in Tasks, DestroySnapshot(t) PROVE BuildsFit'
  BY <1>17 DEF DestroySnapshot, At
<1>18. ASSUME NEW t \in Tasks, DestroyFails(t) PROVE BuildsFit'
  BY <1>18 DEF DestroyFails, At
<1>19. ASSUME NEW t \in Tasks, DropRow(t) PROVE BuildsFit'
  BY <1>19 DEF DropRow, At, SetRow
<1>20. ASSUME NEW t \in Tasks, CollectEnds(t) PROVE BuildsFit'
  BY <1>20 DEF CollectEnds, At, Return
<1>21. ASSUME NEW s \in Snaps, SetBaseline(s) PROVE BuildsFit'
  BY <1>21 DEF SetBaseline, Registered, SetCurrent, SetRow, Says
<1>22. ASSUME NEW b \in Branches, Branching(b) PROVE BuildsFit'
  BY <1>22 DEF Branching, ChooseOrigin, InsertBranch, CloneBranch, DeleteBranch, BranchTo
<1>23. CASE Crash
  BY <1>23 DEF Crash, NoBranch
<1>24. CASE UNCHANGED vars
  BY <1>24
<1> QED
  BY <1>1, <1>2, <1>3, <1>4, <1>5, <1>6, <1>7, <1>8, <1>9, <1>10, <1>11,
     <1>12, <1>13, <1>14, <1>15, <1>16, <1>17, <1>18, <1>19, <1>20, <1>21, <1>22, <1>23, <1>24
     DEF Next, Start, Waits, Runs

\* _validate is the volume of whoever holds validateMu.
LEMMA ValidatorStep == BaselineInv /\ [Next]_vars => ValidatorFits'
<1> SUFFICES ASSUME BaselineInv, [Next]_vars PROVE ValidatorFits'
  OBVIOUS
<1> USE BaselineAssumption DEF
    BaselineInv, TypeOK, TaskRecords, KindFits, CarriesTruth, HasSnap, ValidatorFits,
    Validates, Builds, Promotions, Idle, vars, tables, locks, history
<1>1. ASSUME NEW t \in Tasks, NEW k \in Builds, StartBuild(t, k) PROVE ValidatorFits'
  BY <1>1 DEF StartBuild, At
<1>2. ASSUME NEW t \in Tasks, NEW k \in Promotions, StartPromote(t, k) PROVE ValidatorFits'
  BY <1>2 DEF StartPromote, At, Fresh
<1>3. ASSUME NEW t \in Tasks, NEW s \in Snaps, StartValidate(t, s) PROVE ValidatorFits'
  BY <1>3 DEF StartValidate, At, Registered
<1>4. ASSUME NEW t \in Tasks, StartCollect(t) PROVE ValidatorFits'
  BY <1>4 DEF StartCollect, At, Registered
<1>5. ASSUME NEW t \in Tasks, Register(t) PROVE ValidatorFits'
  <2>1. CASE task[t].kind = "build"
    <3>1. Returned(t)
      BY <1>5, <2>1, ReturnEffect DEF Register
    <3> QED
      BY <1>5, <3>1, ValidatorFrame DEF Register, Returned
  <2>2. CASE task[t].kind = "promoteUnchecked"
    <3>1. Moved(t, "publish")
      BY <1>5, <2>2, Named, GoEffect DEF Register
    <3> QED
      BY <1>5, <3>1, ValidatorFrame DEF Register, Moved
  <2>3. CASE task[t].kind \notin {"build", "promoteUnchecked"}
    <3>1. Moved(t, "lock")
      BY <1>5, <2>3, Named, GoEffect DEF Register
    <3> QED
      BY <1>5, <3>1, ValidatorFrame DEF Register, Moved
  <2> QED
    BY <1>5, <2>1, <2>2, <2>3
<1>6. ASSUME NEW t \in Tasks, Lock(t) PROVE ValidatorFits'
  BY <1>6 DEF Lock, At, Go, Sweep, NoValidator
<1>7. ASSUME NEW t \in Tasks, PublishRefresh(t) PROVE ValidatorFits'
  BY <1>7 DEF PublishRefresh, At, SetCurrent, SetRow, Says, Return
<1>8. ASSUME NEW t \in Tasks, PublishPromoted(t) PROVE ValidatorFits'
  BY <1>8 DEF PublishPromoted, At, Registered, SetCurrent, SetRow, Says, Return
<1>9. ASSUME NEW t \in Tasks, TakeSnapshot(t) PROVE ValidatorFits'
  BY <1>9 DEF TakeSnapshot, At, Fresh
<1>10. ASSUME NEW t \in Tasks, BuildFails(t) PROVE ValidatorFits'
  BY <1>10 DEF BuildFails, At, Return
<1>11. ASSUME NEW t \in Tasks, CloneCandidate(t) PROVE ValidatorFits'
  BY <1>11 DEF CloneCandidate, At, Go
<1>12. ASSUME NEW t \in Tasks, CloneFails(t) PROVE ValidatorFits'
  BY <1>12 DEF CloneFails, At, Return
<1>13. ASSUME NEW t \in Tasks, Boot(t) PROVE ValidatorFits'
  <2>1. CASE validator' = [validator EXCEPT !.up = TRUE] /\ Go(t, "hook")
    BY <1>13, <2>1 DEF Boot, At, Go
  <2>2. CASE validator' \in {validator, [validator EXCEPT !.up = TRUE]} /\ Go(t, "clean")
    BY <1>13, <2>2 DEF Boot, At, Go
  <2> QED
    BY <1>13, <2>1, <2>2 DEF Boot
<1>14. ASSUME NEW t \in Tasks, Hook(t) PROVE ValidatorFits'
  BY <1>14 DEF Hook, At
<1>15. ASSUME NEW t \in Tasks, Clean(t) PROVE ValidatorFits'
  <2>1. CASE ~task[t].ok
    <3>1. Returned(t)
      BY <1>15, <2>1, ReturnEffect DEF Clean, Validated
    <3> QED
      BY <1>15, <3>1, ReleaseFrame, SweepEffect DEF Clean, Returned, At
  <2>2. CASE task[t].ok /\ task[t].kind \in Promotions
    <3>1. Moved(t, "publish")
      BY <1>15, <2>2, Named, GoEffect DEF Clean, Validated
    <3> QED
      BY <1>15, <3>1, ReleaseFrame, SweepEffect DEF Clean, Moved, At
  <2>3. CASE task[t].ok /\ task[t].kind \notin Promotions
    <3>1. Moved(t, "mark")
      BY <1>15, <2>3, Named, GoEffect DEF Clean, Validated
    <3> QED
      BY <1>15, <3>1, ReleaseFrame, SweepEffect DEF Clean, Moved, At
  <2> QED
    BY <1>15, <2>1, <2>2, <2>3
<1>16. ASSUME NEW t \in Tasks, Mark(t) PROVE ValidatorFits'
  <2>1. CASE task[t].kind = "refresh" /\ PolicyMet(task[t].masked, TRUE)
    <3>1. Moved(t, "publish")
      BY <1>16, <2>1, Named, GoEffect DEF Mark
    <3> QED
      BY <1>16, <3>1, ValidatorFrame DEF Mark, Moved
  <2>2. CASE ~(task[t].kind = "refresh" /\ PolicyMet(task[t].masked, TRUE))
    <3>1. Returned(t)
      BY <1>16, <2>2, ReturnEffect DEF Mark
    <3> QED
      BY <1>16, <3>1, ValidatorFrame DEF Mark, Returned
  <2> QED
    BY <1>16, <2>1, <2>2
<1>17. ASSUME NEW t \in Tasks, DestroySnapshot(t) PROVE ValidatorFits'
  BY <1>17 DEF DestroySnapshot, At
<1>18. ASSUME NEW t \in Tasks, DestroyFails(t) PROVE ValidatorFits'
  BY <1>18 DEF DestroyFails, At
<1>19. ASSUME NEW t \in Tasks, DropRow(t) PROVE ValidatorFits'
  BY <1>19 DEF DropRow, At, SetRow
<1>20. ASSUME NEW t \in Tasks, CollectEnds(t) PROVE ValidatorFits'
  BY <1>20 DEF CollectEnds, At, Return
<1>21. ASSUME NEW s \in Snaps, SetBaseline(s) PROVE ValidatorFits'
  BY <1>21 DEF SetBaseline, Registered, SetCurrent, SetRow, Says
<1>22. ASSUME NEW b \in Branches, Branching(b) PROVE ValidatorFits'
  BY <1>22 DEF Branching, ChooseOrigin, InsertBranch, CloneBranch, DeleteBranch, BranchTo
<1>23. CASE Crash
  BY <1>23 DEF Crash, NoBranch
<1>24. CASE UNCHANGED vars
  BY <1>24
<1> QED
  BY <1>1, <1>2, <1>3, <1>4, <1>5, <1>6, <1>7, <1>8, <1>9, <1>10, <1>11,
     <1>12, <1>13, <1>14, <1>15, <1>16, <1>17, <1>18, <1>19, <1>20, <1>21, <1>22, <1>23, <1>24
     DEF Next, Start, Waits, Runs

\* Calls that do not collect leave CollectFits alone.
LEMMA CollectFrame ==
  ASSUME CollectFits, NEW t \in Tasks, task'[t].pc \notin {"destroy", "drop"},
         \A u \in Tasks : u # t => task'[u] = task[u],
         current' = current, baselineMu' = baselineMu
  PROVE  CollectFits'
  BY DEF CollectFits, Collects, CurrentBaseline

\* Nothing that is being collected becomes current.
LEMMA CollectStep == BaselineInv /\ [Next]_vars => CollectFits'
<1> SUFFICES ASSUME BaselineInv, [Next]_vars PROVE CollectFits'
  OBVIOUS
<1> USE BaselineAssumption DEF
    BaselineInv, TypeOK, TaskRecords, KindFits, CollectFits, Collects, CurrentBaseline,
    Builds, Promotions, Idle, vars, tables, locks, history
<1>1. ASSUME NEW t \in Tasks, NEW k \in Builds, StartBuild(t, k) PROVE CollectFits'
  BY <1>1 DEF StartBuild, At
<1>2. ASSUME NEW t \in Tasks, NEW k \in Promotions, StartPromote(t, k) PROVE CollectFits'
  BY <1>2 DEF StartPromote, At, Fresh
<1>3. ASSUME NEW t \in Tasks, NEW s \in Snaps, StartValidate(t, s) PROVE CollectFits'
  BY <1>3 DEF StartValidate, At, Registered
<1>4. ASSUME NEW t \in Tasks, StartCollect(t) PROVE CollectFits'
  BY <1>4 DEF StartCollect, At, Registered
<1>5. ASSUME NEW t \in Tasks, Register(t) PROVE CollectFits'
  <2>1. CASE task[t].kind = "build"
    <3>1. Returned(t)
      BY <1>5, <2>1, ReturnEffect DEF Register
    <3> QED
      BY <1>5, <3>1, CollectFrame DEF Register, Returned
  <2>2. CASE task[t].kind = "promoteUnchecked"
    <3>1. Moved(t, "publish")
      BY <1>5, <2>2, Named, GoEffect DEF Register
    <3> QED
      BY <1>5, <3>1, CollectFrame DEF Register, Moved
  <2>3. CASE task[t].kind \notin {"build", "promoteUnchecked"}
    <3>1. Moved(t, "lock")
      BY <1>5, <2>3, Named, GoEffect DEF Register
    <3> QED
      BY <1>5, <3>1, CollectFrame DEF Register, Moved
  <2> QED
    BY <1>5, <2>1, <2>2, <2>3
<1>6. ASSUME NEW t \in Tasks, Lock(t) PROVE CollectFits'
  BY <1>6 DEF Lock, At, Go, Sweep, NoValidator
<1>7. ASSUME NEW t \in Tasks, PublishRefresh(t) PROVE CollectFits'
  BY <1>7 DEF PublishRefresh, At, SetCurrent, SetRow, Says, Return
<1>8. ASSUME NEW t \in Tasks, PublishPromoted(t) PROVE CollectFits'
  BY <1>8 DEF PublishPromoted, At, Registered, SetCurrent, SetRow, Says, Return
<1>9. ASSUME NEW t \in Tasks, TakeSnapshot(t) PROVE CollectFits'
  BY <1>9 DEF TakeSnapshot, At, Fresh
<1>10. ASSUME NEW t \in Tasks, BuildFails(t) PROVE CollectFits'
  BY <1>10 DEF BuildFails, At, Return
<1>11. ASSUME NEW t \in Tasks, CloneCandidate(t) PROVE CollectFits'
  BY <1>11 DEF CloneCandidate, At, Go
<1>12. ASSUME NEW t \in Tasks, CloneFails(t) PROVE CollectFits'
  BY <1>12 DEF CloneFails, At, Return
<1>13. ASSUME NEW t \in Tasks, Boot(t) PROVE CollectFits'
  <2>1. CASE validator' = [validator EXCEPT !.up = TRUE] /\ Go(t, "hook")
    BY <1>13, <2>1 DEF Boot, At, Go
  <2>2. CASE validator' \in {validator, [validator EXCEPT !.up = TRUE]} /\ Go(t, "clean")
    BY <1>13, <2>2 DEF Boot, At, Go
  <2> QED
    BY <1>13, <2>1, <2>2 DEF Boot
<1>14. ASSUME NEW t \in Tasks, Hook(t) PROVE CollectFits'
  BY <1>14 DEF Hook, At
<1>15. ASSUME NEW t \in Tasks, Clean(t) PROVE CollectFits'
  <2>1. CASE ~task[t].ok
    <3>1. Returned(t)
      BY <1>15, <2>1, ReturnEffect DEF Clean, Validated
    <3> QED
      BY <1>15, <3>1, CollectFrame DEF Clean, Returned
  <2>2. CASE task[t].ok /\ task[t].kind \in Promotions
    <3>1. Moved(t, "publish")
      BY <1>15, <2>2, Named, GoEffect DEF Clean, Validated
    <3> QED
      BY <1>15, <3>1, CollectFrame DEF Clean, Moved
  <2>3. CASE task[t].ok /\ task[t].kind \notin Promotions
    <3>1. Moved(t, "mark")
      BY <1>15, <2>3, Named, GoEffect DEF Clean, Validated
    <3> QED
      BY <1>15, <3>1, CollectFrame DEF Clean, Moved
  <2> QED
    BY <1>15, <2>1, <2>2, <2>3
<1>16. ASSUME NEW t \in Tasks, Mark(t) PROVE CollectFits'
  <2>1. CASE task[t].kind = "refresh" /\ PolicyMet(task[t].masked, TRUE)
    <3>1. Moved(t, "publish")
      BY <1>16, <2>1, Named, GoEffect DEF Mark
    <3> QED
      BY <1>16, <3>1, CollectFrame DEF Mark, Moved
  <2>2. CASE ~(task[t].kind = "refresh" /\ PolicyMet(task[t].masked, TRUE))
    <3>1. Returned(t)
      BY <1>16, <2>2, ReturnEffect DEF Mark
    <3> QED
      BY <1>16, <3>1, CollectFrame DEF Mark, Returned
  <2> QED
    BY <1>16, <2>1, <2>2
<1>17. ASSUME NEW t \in Tasks, DestroySnapshot(t) PROVE CollectFits'
  BY <1>17 DEF DestroySnapshot, At
<1>18. ASSUME NEW t \in Tasks, DestroyFails(t) PROVE CollectFits'
  BY <1>18 DEF DestroyFails, At
<1>19. ASSUME NEW t \in Tasks, DropRow(t) PROVE CollectFits'
  BY <1>19 DEF DropRow, At, SetRow
<1>20. ASSUME NEW t \in Tasks, CollectEnds(t) PROVE CollectFits'
  BY <1>20 DEF CollectEnds, At, Return
<1>21. ASSUME NEW s \in Snaps, SetBaseline(s) PROVE CollectFits'
  BY <1>21 DEF SetBaseline, Registered, SetCurrent, SetRow, Says
<1>22. ASSUME NEW b \in Branches, Branching(b) PROVE CollectFits'
  BY <1>22 DEF Branching, ChooseOrigin, InsertBranch, CloneBranch, DeleteBranch, BranchTo
<1>23. CASE Crash
  BY <1>23 DEF Crash, NoBranch
<1>24. CASE UNCHANGED vars
  BY <1>24
<1> QED
  BY <1>1, <1>2, <1>3, <1>4, <1>5, <1>6, <1>7, <1>8, <1>9, <1>10, <1>11,
     <1>12, <1>13, <1>14, <1>15, <1>16, <1>17, <1>18, <1>19, <1>20, <1>21, <1>22, <1>23, <1>24
     DEF Next, Start, Waits, Runs

\* Rows and pointer stay about snapshots that were taken.
LEMMA TablesStep == BaselineInv /\ [Next]_vars => TablesFit'
<1> SUFFICES ASSUME BaselineInv, [Next]_vars PROVE TablesFit'
  OBVIOUS
<1> USE BaselineAssumption DEF
    BaselineInv, TypeOK, Rows, TaskRecords, KindFits, CarriesTruth, HasSnap, CollectFits,
    Collects, CurrentBaseline, TablesFit, Registered, Absent, Builds, Promotions, Idle,
    vars, tables, locks, history
<1>1. ASSUME NEW t \in Tasks, NEW k \in Builds, StartBuild(t, k) PROVE TablesFit'
  BY <1>1 DEF StartBuild, At
<1>2. ASSUME NEW t \in Tasks, NEW k \in Promotions, StartPromote(t, k) PROVE TablesFit'
  BY <1>2 DEF StartPromote, At, Fresh
<1>3. ASSUME NEW t \in Tasks, NEW s \in Snaps, StartValidate(t, s) PROVE TablesFit'
  BY <1>3 DEF StartValidate, At, Registered
<1>4. ASSUME NEW t \in Tasks, StartCollect(t) PROVE TablesFit'
  BY <1>4 DEF StartCollect, At, Registered
<1>5. ASSUME NEW t \in Tasks, Register(t) PROVE TablesFit'
  BY <1>5, ZenonT(40) DEF Register, At, Go, SetRow, Return, Says
<1>6. ASSUME NEW t \in Tasks, Lock(t) PROVE TablesFit'
  BY <1>6 DEF Lock, At, Go, Sweep, NoValidator
<1>7. ASSUME NEW t \in Tasks, PublishRefresh(t) PROVE TablesFit'
  BY <1>7 DEF PublishRefresh, At, SetCurrent, SetRow, Says, Return
<1>8. ASSUME NEW t \in Tasks, PublishPromoted(t) PROVE TablesFit'
  <2>0. Returned(t)
    BY <1>8, ReturnEffect DEF PublishPromoted
  <2>1. CASE Registered(task[t].snap)
    <3> DEFINE r == IF task[t].ok THEN Says(task[t].masked, TRUE) ELSE row[task[t].snap]
    <3>1. r.here
      BY <2>1 DEF Says
    <3>2. row' = [row EXCEPT ![task[t].snap] = r] /\ current' = task[t].snap
      BY <1>8, <2>1, <3>1 DEF PublishPromoted, SetCurrent, SetRow
    <3>3. task[t].snap \in born
      BY <1>8 DEF PublishPromoted, At
    <3>4. born' = born /\ truth' = truth /\ snaps' = snaps
      BY <1>8 DEF PublishPromoted
    <3> HIDE DEF r
    <3> QED
      BY <3>1, <3>2, <3>3, <3>4
  <2>2. CASE ~Registered(task[t].snap)
    BY <1>8, <2>0, <2>2 DEF PublishPromoted
  <2> QED
    BY <2>1, <2>2
<1>9. ASSUME NEW t \in Tasks, TakeSnapshot(t) PROVE TablesFit'
  BY <1>9 DEF TakeSnapshot, At, Fresh
<1>10. ASSUME NEW t \in Tasks, BuildFails(t) PROVE TablesFit'
  BY <1>10 DEF BuildFails, At, Return
<1>11. ASSUME NEW t \in Tasks, CloneCandidate(t) PROVE TablesFit'
  BY <1>11 DEF CloneCandidate, At, Go
<1>12. ASSUME NEW t \in Tasks, CloneFails(t) PROVE TablesFit'
  BY <1>12 DEF CloneFails, At, Return
<1>13. ASSUME NEW t \in Tasks, Boot(t) PROVE TablesFit'
  BY <1>13 DEF Boot, At, Go
<1>14. ASSUME NEW t \in Tasks, Hook(t) PROVE TablesFit'
  BY <1>14 DEF Hook, At
<1>15. ASSUME NEW t \in Tasks, Clean(t) PROVE TablesFit'
  BY <1>15 DEF Clean, At, Sweep, NoValidator, Validated, Go, Return
<1>16. ASSUME NEW t \in Tasks, Mark(t) PROVE TablesFit'
  BY <1>16, ZenonT(40) DEF Mark, At, SetRow, Says, Go, Return
<1>17. ASSUME NEW t \in Tasks, DestroySnapshot(t) PROVE TablesFit'
  BY <1>17 DEF DestroySnapshot, At
<1>18. ASSUME NEW t \in Tasks, DestroyFails(t) PROVE TablesFit'
  BY <1>18 DEF DestroyFails, At
<1>19. ASSUME NEW t \in Tasks, DropRow(t) PROVE TablesFit'
  BY <1>19 DEF DropRow, At, SetRow
<1>20. ASSUME NEW t \in Tasks, CollectEnds(t) PROVE TablesFit'
  BY <1>20 DEF CollectEnds, At, Return
<1>21. ASSUME NEW s \in Snaps, SetBaseline(s) PROVE TablesFit'
  BY <1>21 DEF SetBaseline, Registered, SetCurrent, SetRow, Says
<1>22. ASSUME NEW b \in Branches, Branching(b) PROVE TablesFit'
  BY <1>22 DEF Branching, ChooseOrigin, InsertBranch, CloneBranch, DeleteBranch, BranchTo
<1>23. CASE Crash
  BY <1>23 DEF Crash, NoBranch
<1>24. CASE UNCHANGED vars
  BY <1>24
<1> QED
  BY <1>1, <1>2, <1>3, <1>4, <1>5, <1>6, <1>7, <1>8, <1>9, <1>10, <1>11,
     <1>12, <1>13, <1>14, <1>15, <1>16, <1>17, <1>18, <1>19, <1>20, <1>21, <1>22, <1>23, <1>24
     DEF Next, Start, Waits, Runs

\* A row never claims what did not happen.
LEMMA RowsStep == BaselineInv /\ [Next]_vars => RowsTellTheTruth'
<1> SUFFICES ASSUME BaselineInv, [Next]_vars PROVE RowsTellTheTruth'
  OBVIOUS
<1> USE BaselineAssumption DEF
    BaselineInv, TypeOK, Rows, TaskRecords, KindFits, CarriesTruth, HasSnap, MayPublish,
    TablesFit, RowsTellTheTruth, Registered, Absent, Builds, Promotions, Idle, vars,
    tables, locks, history
<1>1. ASSUME NEW t \in Tasks, NEW k \in Builds, StartBuild(t, k) PROVE RowsTellTheTruth'
  BY <1>1 DEF StartBuild, At
<1>2. ASSUME NEW t \in Tasks, NEW k \in Promotions, StartPromote(t, k) PROVE RowsTellTheTruth'
  BY <1>2 DEF StartPromote, At, Fresh
<1>3. ASSUME NEW t \in Tasks, NEW s \in Snaps, StartValidate(t, s) PROVE RowsTellTheTruth'
  BY <1>3 DEF StartValidate, At, Registered
<1>4. ASSUME NEW t \in Tasks, StartCollect(t) PROVE RowsTellTheTruth'
  BY <1>4 DEF StartCollect, At, Registered
<1>5. ASSUME NEW t \in Tasks, Register(t) PROVE RowsTellTheTruth'
  BY <1>5 DEF Register, At, Go, SetRow, Return, Says
<1>6. ASSUME NEW t \in Tasks, Lock(t) PROVE RowsTellTheTruth'
  BY <1>6 DEF Lock, At, Go, Sweep, NoValidator
<1>7. ASSUME NEW t \in Tasks, PublishRefresh(t) PROVE RowsTellTheTruth'
  BY <1>7 DEF PublishRefresh, At, SetCurrent, SetRow, Says, Return
<1>8. ASSUME NEW t \in Tasks, PublishPromoted(t) PROVE RowsTellTheTruth'
  <2>0. Returned(t)
    BY <1>8, ReturnEffect DEF PublishPromoted
  <2>1. CASE Registered(task[t].snap)
    <3> DEFINE r == IF task[t].ok THEN Says(task[t].masked, TRUE) ELSE row[task[t].snap]
    <3>1. r.here
      BY <2>1 DEF Says
    <3>2. row' = [row EXCEPT ![task[t].snap] = r] /\ current' = task[t].snap
      BY <1>8, <2>1, <3>1 DEF PublishPromoted, SetCurrent, SetRow
    <3>3. task[t].snap \in born
      BY <1>8 DEF PublishPromoted, At
    <3>4. r.masked => truth[task[t].snap].masked
      BY <1>8, <3>3 DEF PublishPromoted, At, Says
    <3>5. r.validated => truth[task[t].snap].booted
      BY <1>8, <3>3 DEF PublishPromoted, At, Says
    <3>6. born' = born /\ truth' = truth /\ snaps' = snaps
      BY <1>8 DEF PublishPromoted
    <3> HIDE DEF r
    <3> QED
      BY <3>1, <3>2, <3>3, <3>4, <3>5, <3>6
  <2>2. CASE ~Registered(task[t].snap)
    BY <1>8, <2>0, <2>2 DEF PublishPromoted
  <2> QED
    BY <2>1, <2>2
<1>9. ASSUME NEW t \in Tasks, TakeSnapshot(t) PROVE RowsTellTheTruth'
  BY <1>9 DEF TakeSnapshot, At, Fresh
<1>10. ASSUME NEW t \in Tasks, BuildFails(t) PROVE RowsTellTheTruth'
  BY <1>10 DEF BuildFails, At, Return
<1>11. ASSUME NEW t \in Tasks, CloneCandidate(t) PROVE RowsTellTheTruth'
  BY <1>11 DEF CloneCandidate, At, Go
<1>12. ASSUME NEW t \in Tasks, CloneFails(t) PROVE RowsTellTheTruth'
  BY <1>12 DEF CloneFails, At, Return
<1>13. ASSUME NEW t \in Tasks, Boot(t) PROVE RowsTellTheTruth'
  BY <1>13 DEF Boot, At, Go
<1>14. ASSUME NEW t \in Tasks, Hook(t) PROVE RowsTellTheTruth'
  BY <1>14 DEF Hook, At
<1>15. ASSUME NEW t \in Tasks, Clean(t) PROVE RowsTellTheTruth'
  BY <1>15 DEF Clean, At, Sweep, NoValidator, Validated, Go, Return
<1>16. ASSUME NEW t \in Tasks, Mark(t) PROVE RowsTellTheTruth'
  BY <1>16 DEF Mark, At, SetRow, Says, Go, Return
<1>17. ASSUME NEW t \in Tasks, DestroySnapshot(t) PROVE RowsTellTheTruth'
  BY <1>17 DEF DestroySnapshot, At
<1>18. ASSUME NEW t \in Tasks, DestroyFails(t) PROVE RowsTellTheTruth'
  BY <1>18 DEF DestroyFails, At
<1>19. ASSUME NEW t \in Tasks, DropRow(t) PROVE RowsTellTheTruth'
  BY <1>19 DEF DropRow, At, SetRow
<1>20. ASSUME NEW t \in Tasks, CollectEnds(t) PROVE RowsTellTheTruth'
  BY <1>20 DEF CollectEnds, At, Return
<1>21. ASSUME NEW s \in Snaps, SetBaseline(s) PROVE RowsTellTheTruth'
  BY <1>21 DEF SetBaseline, Registered, SetCurrent, SetRow, Says
<1>22. ASSUME NEW b \in Branches, Branching(b) PROVE RowsTellTheTruth'
  BY <1>22 DEF Branching, ChooseOrigin, InsertBranch, CloneBranch, DeleteBranch, BranchTo
<1>23. CASE Crash
  BY <1>23 DEF Crash, NoBranch
<1>24. CASE UNCHANGED vars
  BY <1>24
<1> QED
  BY <1>1, <1>2, <1>3, <1>4, <1>5, <1>6, <1>7, <1>8, <1>9, <1>10, <1>11,
     <1>12, <1>13, <1>14, <1>15, <1>16, <1>17, <1>18, <1>19, <1>20, <1>21, <1>22, <1>23, <1>24
     DEF Next, Start, Waits, Runs

\* An engine that nobody holds was left by a stop or a failed kill.
LEMMA StrayStep == BaselineInv /\ [Next]_vars => NoStrayValidator'
<1> SUFFICES ASSUME BaselineInv, [Next]_vars PROVE NoStrayValidator'
  OBVIOUS
<1> USE BaselineAssumption DEF
    BaselineInv, TypeOK, TaskRecords, KindFits, ValidatorFits, Validates,
    NoStrayValidator, Builds, Promotions, Idle, vars, tables, locks, history
<1>1. ASSUME NEW t \in Tasks, NEW k \in Builds, StartBuild(t, k) PROVE NoStrayValidator'
  BY <1>1 DEF StartBuild, At
<1>2. ASSUME NEW t \in Tasks, NEW k \in Promotions, StartPromote(t, k) PROVE NoStrayValidator'
  BY <1>2 DEF StartPromote, At, Fresh
<1>3. ASSUME NEW t \in Tasks, NEW s \in Snaps, StartValidate(t, s) PROVE NoStrayValidator'
  BY <1>3 DEF StartValidate, At, Registered
<1>4. ASSUME NEW t \in Tasks, StartCollect(t) PROVE NoStrayValidator'
  BY <1>4 DEF StartCollect, At, Registered
<1>5. ASSUME NEW t \in Tasks, Register(t) PROVE NoStrayValidator'
  BY <1>5 DEF Register, At, Go, SetRow, Return, Says
<1>6. ASSUME NEW t \in Tasks, Lock(t) PROVE NoStrayValidator'
  BY <1>6 DEF Lock, At, Go, Sweep, NoValidator
<1>7. ASSUME NEW t \in Tasks, PublishRefresh(t) PROVE NoStrayValidator'
  BY <1>7 DEF PublishRefresh, At, SetCurrent, SetRow, Says, Return
<1>8. ASSUME NEW t \in Tasks, PublishPromoted(t) PROVE NoStrayValidator'
  BY <1>8 DEF PublishPromoted, At, Registered, SetCurrent, SetRow, Says, Return
<1>9. ASSUME NEW t \in Tasks, TakeSnapshot(t) PROVE NoStrayValidator'
  BY <1>9 DEF TakeSnapshot, At, Fresh
<1>10. ASSUME NEW t \in Tasks, BuildFails(t) PROVE NoStrayValidator'
  BY <1>10 DEF BuildFails, At, Return
<1>11. ASSUME NEW t \in Tasks, CloneCandidate(t) PROVE NoStrayValidator'
  BY <1>11 DEF CloneCandidate, At, Go
<1>12. ASSUME NEW t \in Tasks, CloneFails(t) PROVE NoStrayValidator'
  BY <1>12 DEF CloneFails, At, Return
<1>13. ASSUME NEW t \in Tasks, Boot(t) PROVE NoStrayValidator'
  BY <1>13 DEF Boot, At, Go
<1>14. ASSUME NEW t \in Tasks, Hook(t) PROVE NoStrayValidator'
  BY <1>14 DEF Hook, At
<1>15. ASSUME NEW t \in Tasks, Clean(t) PROVE NoStrayValidator'
  BY <1>15 DEF Clean, At, Sweep, NoValidator, Validated, Go, Return
<1>16. ASSUME NEW t \in Tasks, Mark(t) PROVE NoStrayValidator'
  BY <1>16 DEF Mark, At, SetRow, Says, Go, Return
<1>17. ASSUME NEW t \in Tasks, DestroySnapshot(t) PROVE NoStrayValidator'
  BY <1>17 DEF DestroySnapshot, At
<1>18. ASSUME NEW t \in Tasks, DestroyFails(t) PROVE NoStrayValidator'
  BY <1>18 DEF DestroyFails, At
<1>19. ASSUME NEW t \in Tasks, DropRow(t) PROVE NoStrayValidator'
  BY <1>19 DEF DropRow, At, SetRow
<1>20. ASSUME NEW t \in Tasks, CollectEnds(t) PROVE NoStrayValidator'
  BY <1>20 DEF CollectEnds, At, Return
<1>21. ASSUME NEW s \in Snaps, SetBaseline(s) PROVE NoStrayValidator'
  BY <1>21 DEF SetBaseline, Registered, SetCurrent, SetRow, Says
<1>22. ASSUME NEW b \in Branches, Branching(b) PROVE NoStrayValidator'
  BY <1>22 DEF Branching, ChooseOrigin, InsertBranch, CloneBranch, DeleteBranch, BranchTo
<1>23. CASE Crash
  BY <1>23 DEF Crash, NoBranch
<1>24. CASE UNCHANGED vars
  BY <1>24
<1> QED
  BY <1>1, <1>2, <1>3, <1>4, <1>5, <1>6, <1>7, <1>8, <1>9, <1>10, <1>11,
     <1>12, <1>13, <1>14, <1>15, <1>16, <1>17, <1>18, <1>19, <1>20, <1>21, <1>22, <1>23, <1>24
     DEF Next, Start, Waits, Runs

\* The invariant holds at the start: nothing is under way.
LEMMA InvInit == Init => BaselineInv
<1> SUFFICES ASSUME Init PROVE BaselineInv
  OBVIOUS
<1> USE BaselineAssumption DEF Init, Idle, NoBranch, NoValidator, Absent, Says, Registered
<1>1. TypeOK
  <2>1. task \in [Tasks -> TaskRecords]
    BY IdleTyped
  <2>2. row \in [Snaps -> Rows] /\ current \in Snaps \cup {NoSnap}
    <3>1. Absent \in Rows /\ Says(FALSE, FALSE) \in Rows
      BY DEF Rows
    <3> HIDE DEF Absent, Says
    <3> QED
      BY <3>1
  <2>3. branch \in [Branches -> BranchRecords]
    BY DEF BranchRecords
  <2>4. truth \in [Snaps -> [masked: BOOLEAN, booted: BOOLEAN]]
    OBVIOUS
  <2> QED
    BY <2>1, <2>2, <2>3, <2>4 DEF TypeOK
<1>2. \A t \in Tasks : KindFits(t) /\ CarriesTruth(t) /\ MayPublish(t)
  BY DEF KindFits, CarriesTruth, HasSnap, MayPublish, Promotions
<1>3. BuildsFit /\ ValidatorFits /\ NoStrayValidator
  BY DEF BuildsFit, Builds, ValidatorFits, Validates, NoStrayValidator
<1>4. CollectFits /\ RowsTellTheTruth
  BY DEF CollectFits, Collects, RowsTellTheTruth
<1>5. TablesFit
  <2>1. CASE current = NoSnap /\ row = [s \in Snaps |-> Absent]
    BY <2>1 DEF TablesFit
  <2>2. CASE /\ current = Default
             /\ row = [s \in Snaps |-> IF s = Default THEN Says(FALSE, FALSE) ELSE Absent]
    BY <2>2 DEF TablesFit
  <2> QED
    BY <2>1, <2>2
<1> QED
  BY <1>1, <1>2, <1>3, <1>4, <1>5 DEF BaselineInv

\* Every step keeps it: the lemmas above together.
LEMMA InvStep == BaselineInv /\ [Next]_vars => BaselineInv'
<1> SUFFICES ASSUME BaselineInv, [Next]_vars PROVE BaselineInv'
  OBVIOUS
<1>1. TypeOK'
  BY TypeStep DEF BaselineInv
<1>2. (\A t \in Tasks : KindFits(t))' /\ (\A t \in Tasks : CarriesTruth(t))' /\ (\A t \in Tasks : MayPublish(t))'
  BY KindStep, TruthStep, PublishStep
<1>3. BuildsFit' /\ ValidatorFits' /\ CollectFits' /\ TablesFit'
  BY BuildsStep, ValidatorStep, CollectStep, TablesStep
<1>4. RowsTellTheTruth' /\ NoStrayValidator'
  BY RowsStep, StrayStep
<1> QED
  BY <1>1, <1>2, <1>3, <1>4 DEF BaselineInv

\* The inductive invariant, for any snapshots and calls.
THEOREM BaselineInvariant == Spec => []BaselineInv
  BY InvInit, InvStep, PTL DEF Spec

\* The tables, the locks and the calls under way are well typed.
THEOREM TypeCorrect == Spec => []TypeOK
<1>1. BaselineInv => TypeOK
  BY DEF BaselineInv
<1> QED
  BY <1>1, BaselineInvariant, PTL

\* A row that says masked or validated is right about its snapshot.
THEOREM TruthfulRows == Spec => []RowsTellTheTruth
<1>1. BaselineInv => RowsTellTheTruth
  BY DEF BaselineInv
<1> QED
  BY <1>1, BaselineInvariant, PTL

\* No engine of a candidate is forgotten on the validation port.
THEOREM ValidatorOwned == Spec => []NoStrayValidator
<1>1. BaselineInv => NoStrayValidator
  BY DEF BaselineInv
<1> QED
  BY <1>1, BaselineInvariant, PTL

\* The step of CurrentKept and that of PublishPolicy, by name.
KeepsCurrent ==
    /\ CurrentBaseline \in snaps => CurrentBaseline \in snaps'
    /\ current # NoSnap => current' # NoSnap /\ Registered(current)'

KeepsPolicy ==
    current' \notin {current, NoSnap} =>
        PolicyMet(truth[current'].masked, truth[current'].booted)

\* No step takes the current baseline away.
LEMMA CurrentStep == BaselineInv /\ [Next]_vars => KeepsCurrent
<1> SUFFICES ASSUME BaselineInv, [Next]_vars PROVE KeepsCurrent
  OBVIOUS
<1> USE BaselineAssumption DEF
    BaselineInv, TypeOK, Rows, TaskRecords, KindFits, CollectFits, Collects,
    CurrentBaseline, TablesFit, Registered, Absent, KeepsCurrent, Builds, Promotions,
    Idle, vars, tables, locks, history
<1>1. ASSUME NEW t \in Tasks, NEW k \in Builds, StartBuild(t, k) PROVE KeepsCurrent
  BY <1>1 DEF StartBuild, At
<1>2. ASSUME NEW t \in Tasks, NEW k \in Promotions, StartPromote(t, k) PROVE KeepsCurrent
  BY <1>2 DEF StartPromote, At, Fresh
<1>3. ASSUME NEW t \in Tasks, NEW s \in Snaps, StartValidate(t, s) PROVE KeepsCurrent
  BY <1>3 DEF StartValidate, At, Registered
<1>4. ASSUME NEW t \in Tasks, StartCollect(t) PROVE KeepsCurrent
  BY <1>4 DEF StartCollect, At, Registered
<1>5. ASSUME NEW t \in Tasks, Register(t) PROVE KeepsCurrent
  BY <1>5 DEF Register, At, Go, SetRow, Return, Says
<1>6. ASSUME NEW t \in Tasks, Lock(t) PROVE KeepsCurrent
  BY <1>6 DEF Lock, At, Go, Sweep, NoValidator
<1>7. ASSUME NEW t \in Tasks, PublishRefresh(t) PROVE KeepsCurrent
  <2>1. task[t].snap \in Snaps
    BY <1>7 DEF PublishRefresh, At, CarriesTruth, HasSnap
  <2>2. CASE Registered(task[t].snap)
    <3>1. row' \in [Snaps -> Rows] /\ current' = task[t].snap /\ snaps' = snaps
      BY <1>7, <2>1, <2>2, TypeStep DEF PublishRefresh, SetCurrent
    <3>2. row'[task[t].snap].here
      BY <1>7, <2>1, <2>2 DEF PublishRefresh, SetCurrent, SetRow, Says
    <3> QED
      BY <2>1, <3>1, <3>2
  <2>3. CASE ~Registered(task[t].snap)
    BY <1>7, <2>1, <2>3 DEF PublishRefresh, SetCurrent, SetRow, Says
  <2> QED
    BY <2>2, <2>3
<1>8. ASSUME NEW t \in Tasks, PublishPromoted(t) PROVE KeepsCurrent
  <2>1. task[t].snap \in Snaps
    BY <1>8 DEF PublishPromoted, At, CarriesTruth, HasSnap
  <2>2. CASE Registered(task[t].snap)
    <3>1. row' \in [Snaps -> Rows] /\ current' = task[t].snap /\ snaps' = snaps
      BY <1>8, <2>1, <2>2, TypeStep DEF PublishPromoted, SetCurrent
    <3>2. row'[task[t].snap].here
      BY <1>8, <2>1, <2>2 DEF PublishPromoted, SetCurrent, SetRow, Says
    <3> QED
      BY <2>1, <3>1, <3>2
  <2>3. CASE ~Registered(task[t].snap)
    BY <1>8, <2>1, <2>3 DEF PublishPromoted, SetCurrent, SetRow, Says
  <2> QED
    BY <2>2, <2>3
<1>9. ASSUME NEW t \in Tasks, TakeSnapshot(t) PROVE KeepsCurrent
  BY <1>9 DEF TakeSnapshot, At, Fresh
<1>10. ASSUME NEW t \in Tasks, BuildFails(t) PROVE KeepsCurrent
  BY <1>10 DEF BuildFails, At, Return
<1>11. ASSUME NEW t \in Tasks, CloneCandidate(t) PROVE KeepsCurrent
  BY <1>11 DEF CloneCandidate, At, Go
<1>12. ASSUME NEW t \in Tasks, CloneFails(t) PROVE KeepsCurrent
  BY <1>12 DEF CloneFails, At, Return
<1>13. ASSUME NEW t \in Tasks, Boot(t) PROVE KeepsCurrent
  BY <1>13 DEF Boot, At, Go
<1>14. ASSUME NEW t \in Tasks, Hook(t) PROVE KeepsCurrent
  BY <1>14 DEF Hook, At
<1>15. ASSUME NEW t \in Tasks, Clean(t) PROVE KeepsCurrent
  BY <1>15 DEF Clean, At, Sweep, NoValidator, Validated, Go, Return
<1>16. ASSUME NEW t \in Tasks, Mark(t) PROVE KeepsCurrent
  BY <1>16 DEF Mark, At, SetRow, Says, Go, Return
<1>17. ASSUME NEW t \in Tasks, DestroySnapshot(t) PROVE KeepsCurrent
  BY <1>17 DEF DestroySnapshot, At
<1>18. ASSUME NEW t \in Tasks, DestroyFails(t) PROVE KeepsCurrent
  BY <1>18 DEF DestroyFails, At
<1>19. ASSUME NEW t \in Tasks, DropRow(t) PROVE KeepsCurrent
  BY <1>19 DEF DropRow, At, SetRow
<1>20. ASSUME NEW t \in Tasks, CollectEnds(t) PROVE KeepsCurrent
  BY <1>20 DEF CollectEnds, At, Return
<1>21. ASSUME NEW s \in Snaps, SetBaseline(s) PROVE KeepsCurrent
  BY <1>21 DEF SetBaseline, Registered, SetCurrent, SetRow, Says
<1>22. ASSUME NEW b \in Branches, Branching(b) PROVE KeepsCurrent
  BY <1>22 DEF Branching, ChooseOrigin, InsertBranch, CloneBranch, DeleteBranch, BranchTo
<1>23. CASE Crash
  BY <1>23 DEF Crash
<1>24. CASE UNCHANGED vars
  BY <1>24
<1> QED
  BY <1>1, <1>2, <1>3, <1>4, <1>5, <1>6, <1>7, <1>8, <1>9, <1>10, <1>11,
     <1>12, <1>13, <1>14, <1>15, <1>16, <1>17, <1>18, <1>19, <1>20, <1>21, <1>22, <1>23, <1>24
     DEF Next, Start, Waits, Runs

\* No step publishes against the policy.
LEMMA PolicyStep == BaselineInv /\ [Next]_vars => KeepsPolicy
<1> SUFFICES ASSUME BaselineInv, [Next]_vars PROVE KeepsPolicy
  OBVIOUS
<1> USE BaselineAssumption DEF
    BaselineInv, TypeOK, TaskRecords, KindFits, CarriesTruth, HasSnap, MayPublish,
    PolicyMet, RowsTellTheTruth, Registered, KeepsPolicy, Builds, Promotions, Idle, vars,
    tables, locks, history
<1>1. ASSUME NEW t \in Tasks, NEW k \in Builds, StartBuild(t, k) PROVE KeepsPolicy
  BY <1>1 DEF StartBuild, At
<1>2. ASSUME NEW t \in Tasks, NEW k \in Promotions, StartPromote(t, k) PROVE KeepsPolicy
  BY <1>2 DEF StartPromote, At, Fresh
<1>3. ASSUME NEW t \in Tasks, NEW s \in Snaps, StartValidate(t, s) PROVE KeepsPolicy
  BY <1>3 DEF StartValidate, At, Registered
<1>4. ASSUME NEW t \in Tasks, StartCollect(t) PROVE KeepsPolicy
  BY <1>4 DEF StartCollect, At, Registered
<1>5. ASSUME NEW t \in Tasks, Register(t) PROVE KeepsPolicy
  BY <1>5 DEF Register, At, Go, SetRow, Return, Says
<1>6. ASSUME NEW t \in Tasks, Lock(t) PROVE KeepsPolicy
  BY <1>6 DEF Lock, At, Go, Sweep, NoValidator
<1>7. ASSUME NEW t \in Tasks, PublishRefresh(t) PROVE KeepsPolicy
  BY <1>7 DEF PublishRefresh, At, SetCurrent, SetRow, Says, Return
<1>8. ASSUME NEW t \in Tasks, PublishPromoted(t) PROVE KeepsPolicy
  BY <1>8 DEF PublishPromoted, At, Registered, SetCurrent, SetRow, Says, Return
<1>9. ASSUME NEW t \in Tasks, TakeSnapshot(t) PROVE KeepsPolicy
  BY <1>9 DEF TakeSnapshot, At, Fresh
<1>10. ASSUME NEW t \in Tasks, BuildFails(t) PROVE KeepsPolicy
  BY <1>10 DEF BuildFails, At, Return
<1>11. ASSUME NEW t \in Tasks, CloneCandidate(t) PROVE KeepsPolicy
  BY <1>11 DEF CloneCandidate, At, Go
<1>12. ASSUME NEW t \in Tasks, CloneFails(t) PROVE KeepsPolicy
  BY <1>12 DEF CloneFails, At, Return
<1>13. ASSUME NEW t \in Tasks, Boot(t) PROVE KeepsPolicy
  BY <1>13 DEF Boot, At, Go
<1>14. ASSUME NEW t \in Tasks, Hook(t) PROVE KeepsPolicy
  BY <1>14 DEF Hook, At
<1>15. ASSUME NEW t \in Tasks, Clean(t) PROVE KeepsPolicy
  BY <1>15 DEF Clean, At, Sweep, NoValidator, Validated, Go, Return
<1>16. ASSUME NEW t \in Tasks, Mark(t) PROVE KeepsPolicy
  BY <1>16 DEF Mark, At, SetRow, Says, Go, Return
<1>17. ASSUME NEW t \in Tasks, DestroySnapshot(t) PROVE KeepsPolicy
  BY <1>17 DEF DestroySnapshot, At
<1>18. ASSUME NEW t \in Tasks, DestroyFails(t) PROVE KeepsPolicy
  BY <1>18 DEF DestroyFails, At
<1>19. ASSUME NEW t \in Tasks, DropRow(t) PROVE KeepsPolicy
  BY <1>19 DEF DropRow, At, SetRow
<1>20. ASSUME NEW t \in Tasks, CollectEnds(t) PROVE KeepsPolicy
  BY <1>20 DEF CollectEnds, At, Return
<1>21. ASSUME NEW s \in Snaps, SetBaseline(s) PROVE KeepsPolicy
  BY <1>21 DEF SetBaseline, Registered, SetCurrent, SetRow, Says
<1>22. ASSUME NEW b \in Branches, Branching(b) PROVE KeepsPolicy
  BY <1>22 DEF Branching, ChooseOrigin, InsertBranch, CloneBranch, DeleteBranch, BranchTo
<1>23. CASE Crash
  BY <1>23 DEF Crash
<1>24. CASE UNCHANGED vars
  BY <1>24
<1> QED
  BY <1>1, <1>2, <1>3, <1>4, <1>5, <1>6, <1>7, <1>8, <1>9, <1>10, <1>11,
     <1>12, <1>13, <1>14, <1>15, <1>16, <1>17, <1>18, <1>19, <1>20, <1>21, <1>22, <1>23, <1>24
     DEF Next, Start, Waits, Runs

\* Neither GC nor delete takes the snapshot or the row of the current baseline.
THEOREM CurrentSafe == Spec => CurrentKept
<1>1. BaselineInv /\ [Next]_vars => [KeepsCurrent]_vars
  BY CurrentStep
<1> QED
  BY <1>1, BaselineInvariant, PTL DEF Spec, CurrentKept, KeepsCurrent

\* Whatever becomes current was in fact masked and booted, as the policy demands.
THEOREM PolicyObserved == Spec => PublishPolicy
<1>1. BaselineInv /\ [Next]_vars => [KeepsPolicy]_vars
  BY PolicyStep
<1> QED
  BY <1>1, BaselineInvariant, PTL DEF Spec, PublishPolicy, KeepsPolicy

=============================================================================
